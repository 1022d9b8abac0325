----------------------------- MODULE MCInstall -----------------------------
(* Machines on which the cases of the installer meet. *)
EXTENDS Install

D(name, bus, media, size) ==
  [name |-> name, bus |-> bus, media |-> media, size |-> size,
   tarball |-> FALSE, hidden |-> FALSE, backup |-> FALSE]
M(boot, cards, drives) == [boot |-> boot, ip |-> FALSE, cards |-> cards, mem |-> 64, drives |-> drives]
Plain == NoOptions

BusC == ("a" :> "pci") @@ ("b" :> "usb") @@ ("c" :> "isa") @@ ("d" :> "pci")

Cdrom == [D("sr0", "sr", "cdrom", 700) EXCEPT !.tarball = TRUE]
Stick == [D("sda", "sd", "disk", 1000) EXCEPT !.tarball = TRUE]

\* One disk and the cards that make the dialogs of setup differ.
Office == M("cdrom", {"a", "b"}, <<D("hda", "ide", "disk", 8000), Cdrom>>)
Broken == M("cdrom", {"c", "d"}, <<D("hda", "ide", "disk", 8000), Cdrom>>)

\* Booted from a stick, with two disks and a backup stick.
Mirror == [M("usb", {"a"}, <<Stick, D("sdb", "sd", "disk", 2000), D("sdc", "sd", "disk", 1500),
                             [D("sdd", "sd", "disk", 300) EXCEPT !.backup = TRUE]>>) EXCEPT !.mem = 128]

\* Nothing to read the tarball from: network.
Lan  == M("network", {"a", "b"}, <<D("hda", "ide", "disk", 600)>>)
LanIp == [Lan EXCEPT !.ip = TRUE]

\* An IDE drive of another kind, a disk that is too small, one behind a module, and the stick alone.
Odd    == M("cdrom", {"a"}, <<D("hda", "ide", "disk", 400), D("hdb", "ide", "other", 0),
                              D("hdc", "ide", "disk", 480), [D("hdd", "ide", "cdrom", 700) EXCEPT !.tarball = TRUE]>>)
Hidden == M("floppy", {"a"}, <<[D("sda", "sd", "disk", 700) EXCEPT !.hidden = TRUE], Cdrom>>)
Alone  == M("usb", {}, <<Stick>>)

BootsC == {
  <<Office, Plain>>, <<Broken, Plain>>, <<Mirror, [Plain EXCEPT !.disksize = 1000]>>, <<Mirror, [Plain EXCEPT !.nombr = TRUE, !.swapfilesize = 0]>>,
  <<Lan, Plain>>, <<LanIp, [Plain EXCEPT !.nousb = TRUE]>>, <<Odd, [Plain EXCEPT !.swapfilesize = 128]>>,
  <<Hidden, [Plain EXCEPT !.parted = TRUE]>>, <<Alone, Plain>>, <<[Alone EXCEPT !.boot = "floppy"], Plain>>}

AddressesC == [k \in {"GREEN", "RED", "BLUE"} |->
  IF k = "GREEN" THEN {[host |-> 1, block |-> 256], [host |-> 2, block |-> 4]} ELSE {[host |-> 9, block |-> 16]}]
=============================================================================
