------------------------------ MODULE Install ------------------------------
(***************************************************************************)
(* The installer (src/src/installer/installer.c with hardware.c,           *)
(* partition.c and restore.c), the setup it runs in the chroot, and the    *)
(* sessions of setup on the machine that has been installed.  `at' is the  *)
(* dialog or the step of main the installer is in; `todo' holds the        *)
(* commands of make_ipcop_disk that are left.                              *)
(***************************************************************************)
EXTENDS Setup, FiniteSetsExt, SequencesExt

CONSTANTS
  Boots         \* pairs of the machine the installer is booted on, see MachineOK, and its kernel
                \* command line: swapfilesize and disksize (-1: not given), nombr, parted, nousb

VARIABLES
  at,           \* where the installer is; "up" once the machine runs what was installed
  machine, opts,
  loaded,       \* modules for the hidden drives have been loaded
  hw,           \* hardwares[]: sequence of type and device
  source,       \* device the tarball is read from, "network" or None
  net,          \* local_IP is set, and interfaces with DHCP parameters
  picked,       \* disks chosen in the dialogs
  target,       \* medium_target, and sizes for which the disk is made
  todo, done,   \* commands left and commands that succeeded
  mounted,      \* backup stick under the mount point, and whether read only
  restored,     \* restore_success
  written       \* history: drives written to

ivars == <<at, machine, opts, loaded, hw, source, net, picked, target, todo, done, mounted, restored, written>>

DISK_MINIMUM  == 480
ROOT_MINIMUM  == 256
ROOT_MAXIMUM  == 512
SWAP_MINIMUM  == 32
SWAP_MAXIMUM  == 256
LOGCOMPRESSED == 64

\* An IDE drive that is neither disk nor cdrom has size 0 if it is no block device.
Drives == [name: STRING \ {"", "md", "network", None},
           bus: {"ide", "sd", "sr"}, media: {"disk", "cdrom", "other"}, size: Nat,
           tarball: BOOLEAN, hidden: BOOLEAN, backup: BOOLEAN]

\* Drives in the order of the scan: IDE, then sd?, then sr?. The kernel gives
\* every drive a name of its own.
MachineOK(m) ==
  /\ m.boot \in {"cdrom", "usb", "network", "floppy"} /\ m.cards \subseteq Cards /\ m.mem \in Nat
  /\ m.drives \in Seq(Drives)
  /\ \A i, j \in 1 .. Len(m.drives) : m.drives[i].name = m.drives[j].name => i = j

OptionsOK(o) ==
  o \in [swapfilesize: Int, disksize: Int, nombr: BOOLEAN, parted: BOOLEAN, nousb: BOOLEAN]

ASSUME InstallAssumption == \A b \in Boots : MachineOK(b[1]) /\ OptionsOK(b[2])

NoMachine  == [boot |-> None, ip |-> FALSE, cards |-> {}, mem |-> 0, drives |-> <<>>]
NoOptions  == [swapfilesize |-> -1, disksize |-> -1, nombr |-> FALSE, parted |-> FALSE, nousb |-> FALSE]
NoHardware == <<[type |-> "none", device |-> ""]>>
NoStick    == [dev |-> None, ro |-> TRUE]

Drive(name) == LET i == CHOOSE j \in 1 .. Len(machine.drives) : machine.drives[j].name = name IN machine.drives[i]

box    == <<machine, opts>>
origin == <<loaded, hw, source, net>>
choice == <<picked, target>>
made   == <<todo, done>>
rest   == <<mounted, restored, written>>

-----------------------------------------------------------------------------
(* Hardware *)

\* Drives that can be seen.
Visible == {i \in 1 .. Len(machine.drives) : machine.drives[i].hidden => loaded}

\* An IDE drive of another kind keeps the type of the one before it.
IdeType(i) ==
  LET known == {j \in Visible : j <= i /\ machine.drives[j].bus = "ide" /\ machine.drives[j].media # "other"} IN
  IF known = {} THEN "none"
  ELSE IF machine.drives[Max(known)].media = "disk" THEN "harddisk" ELSE "cdrom"

SdType(size) == IF size < 32 THEN "none" ELSE IF size < DISK_MINIMUM THEN "cdrom" ELSE "harddisk"

DriveType(i) ==
  LET d == machine.drives[i] IN
  CASE d.bus = "ide" -> IdeType(i)
    [] d.bus = "sd"  -> SdType(d.size)
    [] d.bus = "sr"  -> "cdrom"

\* hardwareadd: a device is added once.
hardwareadd ==
  {i \in Visible : DriveType(i) # "none" /\ \A j \in 1 .. Len(hw) : hw[j].device # machine.drives[i].name}

\* The numbers of S in their order.
InOrder(S) ==
  {s \in [1 .. Cardinality(S) -> S] : \A m, n \in 1 .. Cardinality(S) : m < n => s[m] < s[n]}

scanprocdrives ==
  \E new \in InOrder(hardwareadd) :
    hw' = hw \o [n \in 1 .. Cardinality(hardwareadd) |->
                  [type |-> DriveType(new[n]), device |-> machine.drives[new[n]].name]]

\* The destinations offered.
harddisklist == {hw[i].device : i \in {j \in 1 .. Len(hw) : hw[j].type = "harddisk"}}

\* Language, keymap, timezone and time, or Cancel.
Welcome ==
  /\ at = "welcome" /\ at' \in {"scan", "exit"}
  /\ UNCHANGED <<box, origin, choice, made, rest, vars>>

\* The drives are scanned until there is a disk or the user gives up; a module
\* that is loaded by hand may make more of them visible.
scan_hardware ==
  /\ at = "scan" /\ scanprocdrives
  /\ at' = IF \E i \in 1 .. Len(hw') : hw'[i].type = "harddisk" THEN "source" ELSE "rescan"
  /\ UNCHANGED <<box, loaded, source, net, choice, made, rest, vars>>

Rescan ==
  /\ at = "rescan"
  /\ \/ at' = "scan" /\ loaded' \in {loaded, TRUE}
     \/ at' = "exit" /\ loaded' = loaded
  /\ UNCHANGED <<box, hw, source, net, choice, made, rest, vars>>

-----------------------------------------------------------------------------
(* Source *)

\* Drives that hold the tarball among those that are mounted to look for it.
Tested ==
  {i \in 1 .. Len(hw) :
    /\ \/ hw[i].type = "cdrom"
       \/ machine.boot = "usb" /\ hw[i].type = "harddisk" /\ Drive(hw[i].device).bus = "sd"
    /\ Drive(hw[i].device).tarball}

source_cdromKept ==                           \* mutant: the stick stays a disk
  \E i \in Tested : (\A j \in Tested : i <= j) /\ source' = hw[i].device /\ hw' = hw

\* The first that holds it. A stick becomes a cdrom, so that it is not offered
\* as destination.
source_cdrom ==
  \E i \in Tested :
    /\ \A j \in Tested : i <= j
    /\ source' = hw[i].device
    /\ hw' = [hw EXCEPT ![i] = [type |-> "cdrom", device |-> hw[i].device]]

\* Whoever boots from a medium with the tarball is not asked.
findsource ==
  /\ \/ /\ at = "source"
        /\ IF machine.boot \in {"cdrom", "usb"} /\ Tested # {}
           THEN source_cdrom /\ at' = "disk"
           ELSE at' = "medium" /\ UNCHANGED <<hw, source>>
     \/ at = "medium" /\ source_cdrom /\ at' = "disk"
     \/ at = "medium" /\ at' \in {"net", "exit"} /\ UNCHANGED <<hw, source>>
  /\ UNCHANGED <<box, loaded, net, choice, made, rest, vars>>

\* Interfaces of the installer: eth0 is number 0.
Interfaces == 0 .. Cardinality(pci_scan_bus \cup (IF opts.nousb THEN {} ELSE usb_scan)) - 1

\* Interfaces for which the DHCP client got an answer.
find_network_by_dhcp == SUBSET Interfaces

\* Without an address from netboot or DHCP an interface and an address are
\* asked for, but the address is not the one that is then configured: there is
\* none, and ifconfig fails. ifconfig, a used address and Go back fail too.
source_network ==
  /\ at = "net"
  /\ \/ /\ Interfaces # {}
        /\ net' \in IF net.ip THEN {net}
                   ELSE {[ip |-> a # {}, params |-> net.params \cup a] : a \in find_network_by_dhcp}
        /\ \/ net'.ip /\ at' = "disk" /\ source' = "network"
           \/ at' = "medium" /\ source' = source
     \/ Interfaces = {} /\ at' = "medium" /\ UNCHANGED <<net, source>>
  /\ UNCHANGED <<box, loaded, hw, choice, made, rest, vars>>

-----------------------------------------------------------------------------
(* Destination *)

\* A disk is chosen from those of the list that are left; a drive that is no
\* block device, and a list without entries, are null pointers.
Choose(disks, next) ==
  \E d \in disks :
    \/ Drive(d).size >= DISK_MINIMUM /\ picked' = Append(picked, d) /\ at' = next
    \/ Drive(d).size \in 1 .. DISK_MINIMUM - 1 /\ picked' = <<>> /\ at' = "disk"
    \/ Drive(d).size = 0 /\ picked' = picked /\ at' = "crashed"

selectdestination ==
  /\ \/ at = "disk" /\ Choose(harddisklist, "confirm")
     \/ at = "disk" /\ harddisklist = {} /\ at' = "crashed" /\ picked' = picked
     \/ at = "disk" /\ at' = "exit" /\ picked' = picked
     \/ at = "disk" /\ Cardinality(harddisklist) >= 2 /\ at' = "raid1" /\ picked' = picked
     \/ at = "raid1" /\ Choose(harddisklist, "raid2")
     \/ at = "raid2" /\ Choose(harddisklist \ Range(picked), "confirm")
     \/ at \in {"raid1", "raid2", "confirm"} /\ at' = "disk" /\ picked' = <<>>
     \/ at = "confirm" /\ at' = "target" /\ picked' = picked
  /\ UNCHANGED <<box, origin, target, made, rest, vars>>

Smaller(a, b) == IF a < b THEN a ELSE b

\* The size that is divided: the smaller disk of a RAID, at most what the user wants.
DiskSize ==
  LET size == Min({Drive(d).size : d \in Range(picked)}) IN
  IF opts.disksize >= DISK_MINIMUM THEN Smaller(opts.disksize, size) ELSE size

\* Division of C, which rounds towards zero.
Quarter(n) == IF n < 0 THEN -((-n) \div 4) ELSE n \div 4

\* make_partitions: sizes of the root partition, which holds the swap file, and of the log partition.
Layout(medium, disk_size, wanted) ==
  LET size == disk_size - 1
      asked == (wanted = 0 \/ wanted \in SWAP_MINIMUM .. SWAP_MAXIMUM) /\ ROOT_MINIMUM + wanted < size
      free == size - ROOT_MINIMUM - (DISK_MINIMUM - ROOT_MINIMUM)
      swap == IF asked THEN wanted ELSE Smaller(SWAP_MINIMUM + Quarter(free), SWAP_MAXIMUM)
      root == Smaller(ROOT_MINIMUM + Quarter(free), ROOT_MAXIMUM) + swap
  IN IF medium = "flash"
     THEN [size |-> size, swap |-> 0, root |-> size - LOGCOMPRESSED, log |-> LOGCOMPRESSED]
     ELSE [size |-> size, swap |-> swap, root |-> root, log |-> size - root]

Op(op, d) == [op |-> op, dev |-> d]
Each(op) == [i \in 1 .. Len(picked) |-> Op(op, picked[i])]
If(b, s) == IF b THEN s ELSE <<>>

raid == Len(picked) = 2
Root == IF raid THEN "md" ELSE picked[1]

MbrOnce == <<Op("mbr", picked[1])>>              \* mutant of Mbr: the second disk of a RAID has none

Mbr == Each("mbr")

\* disk-partition.sh: every array is stopped (none is assembled yet), the
\* superblocks of the disk's partitions and its table are erased - what mdadm
\* says is ignored -, then parted is called until it fails.
disk_partition(d) ==
  <<Op("erase", d), Op("mklabel", d), Op("mkpart root", d), Op("mkpart log", d), Op("boot on", d)>>
  \o If(raid, <<Op("raid on", d)>>)

\* The commands whose failure ends the installation, in order.
make_partitions ==
  If(~opts.parted, disk_partition(picked[1]) \o If(raid, disk_partition(picked[2]) \o <<Op("mdadm", "md")>>))

Format == <<Op("mke2fs root", Root), Op("mke2fs log", Root), Op("mount", Root)>>

make_disk(layout) ==
  Format \o If(source = "network", <<Op("wget", Root)>>) \o <<Op("tar", Root)>>
  \o If(layout.swap # 0, <<Op("swapon", Root)>>) \o If(raid, <<Op("mdadm.conf", Root)>>)

make_bootable == <<Op("extlinux", Root)>> \o If(~opts.nombr, Mbr)

make_ipcop_disk(layout) ==
  make_partitions \o make_disk(layout) \o <<Op("mkinitramfs", Root)>> \o make_bootable

\* Hard disk, flash if there is memory for the RAM disk, or Go back.
selecttarget ==
  /\ at = "target"
  /\ \/ \E medium \in {"harddisk"} \cup (IF machine.mem >= 90 THEN {"flash"} ELSE {}) :
          LET layout == Layout(medium, DiskSize, opts.swapfilesize) IN
          /\ target' = [medium |-> medium, layout |-> layout]
          /\ todo' = make_ipcop_disk(layout)
          /\ at' = "make" /\ picked' = picked
     \/ at' = "disk" /\ picked' = <<>> /\ UNCHANGED <<target, todo>>
  /\ UNCHANGED <<box, origin, done, rest, vars>>

-----------------------------------------------------------------------------
(* Making the disk *)

\* Drives a command writes to.
Writes(step) == IF step.dev = "md" THEN Range(picked) ELSE {step.dev}

\* mkpart 1MiB <root>MiB and <root + 1>MiB <size>MiB; parted refuses what is
\* empty or goes beyond the end of the disk.
Fits(step) ==
  /\ step.op = "mkpart root" => target.layout.root \in 2 .. Drive(step.dev).size
  /\ step.op = "mkpart log" => target.layout.log > 1 /\ target.layout.size <= Drive(step.dev).size

\* A command fails before or after it has written; the first that fails ends it.
MakeStep ==
  /\ at = "make" /\ todo # <<>>
  /\ written' = written \cup Writes(Head(todo))
  /\ \/ Fits(Head(todo)) /\ done' = done \cup {Head(todo)} /\ todo' = Tail(todo) /\ at' = at
     \/ at' = "exit" /\ UNCHANGED <<done, todo>>
  /\ UNCHANGED <<box, origin, choice, mounted, restored, vars>>

\* Language, keymap, timezone, flash and serial settings: failures are ignored.
MakeDone ==
  /\ at = "make" /\ todo = <<>> /\ at' = "restore"
  /\ UNCHANGED <<box, origin, choice, made, rest, vars>>

-----------------------------------------------------------------------------
(* Restore *)

\* Sticks of which mountusb may mount one: the disks chosen have no vfat any more.
Sticks == {d.name : d \in {e \in Range(machine.drives) : e.bus = "sd" /\ e.name \notin Range(picked)}}

test_backup_key(d) == [dev |-> d, ro |-> TRUE]

\* The mount point is removed before every attempt, with what the attempt
\* before has left mounted there.
Emptied == IF mounted.dev # None /\ ~mounted.ro THEN {mounted.dev} ELSE {}

\* Floppy: tar, the version and the copy of the files. USB and network: the key,
\* the archive and ipcoprestore. A failure leads back to the dialog; the stick
\* that was tried last stays mounted.
handlerestore ==
  /\ at = "restore"
  /\ \E from \in {"floppy", "usb"} \cup (IF source = "network" THEN {"http"} ELSE {}) :
       /\ written' = written \cup Emptied
       /\ mounted' \in IF from = "usb"
                      THEN {mounted, NoStick} \cup {test_backup_key(d) : d \in Sticks}
                      ELSE {mounted}
       /\ \/ /\ from = "usb" => mounted'.dev # None /\ Drive(mounted'.dev).backup
             /\ restored' = TRUE /\ at' = "congratulations"
          \/ restored' = FALSE /\ at' = at
  /\ UNCHANGED <<box, origin, choice, made, vars>>

SkipRestore ==
  /\ at = "restore" /\ at' = "congratulations"
  /\ UNCHANGED <<box, origin, choice, made, rest, vars>>

\* The parameters are copied if there is one file of them: a pattern that
\* matches several is an error of the test. Setup follows unless restored; if
\* it cannot be run main prints so and goes on all the same.
RunSetup ==
  /\ at = "congratulations"
  /\ \/ restored /\ at' = "done" /\ UNCHANGED <<mode, dialogs, answered, died>>
     \/ /\ ~restored /\ at' = "setup" /\ mode' = "chroot"
        /\ dialogs' = <<"keymap", "hostname", "domain", "networking", "root", "admin", "backup">>
        /\ answered' = (source = "network" /\ net.params = {0})
        /\ died' = died
     \/ ~restored /\ at' = "done" /\ died' = TRUE /\ UNCHANGED <<mode, dialogs, answered>>
  /\ UNCHANGED <<box, origin, choice, made, rest>>
  /\ UNCHANGED <<proc, files, plugged, lost, left>>

\* The status of a setup that was killed changes nothing of what follows.
SetupEnded ==
  /\ at = "setup" /\ mode = "off" /\ at' = "done"
  /\ UNCHANGED <<box, origin, choice, made, rest, vars>>

NoTarget   == [medium |-> "harddisk", layout |-> Layout("harddisk", DISK_MINIMUM, -1)]

\* The machine is halted, and with it the installer is gone; what is installed
\* boots with the names of the rules. To keep the states few the model forgets
\* dhcp/settings and a password that was not set: no dialog that follows reads them.
Boot ==
  /\ at = "done" /\ ~restored /\ at' = "up"
  /\ names' = rules /\ answered' = FALSE
  /\ loaded' = FALSE /\ hw' = NoHardware /\ source' = None /\ net' = [ip |-> FALSE, params |-> {}]
  /\ picked' = <<>> /\ target' = NoTarget /\ todo' = <<>> /\ done' = {}
  /\ mounted' = NoStick /\ restored' = restored /\ written' = {} /\ machine' = NoMachine /\ opts' = NoOptions
  /\ dhcp' = NoDhcp /\ unset' = {} /\ left' = [left EXCEPT !.faults = 0, !.skips = 0]
  /\ UNCHANGED <<mode, dialogs, proc, eth, rules, main, hosts, plugged, died, lost>>

Init ==
  /\ SetupInit
  /\ \E b \in Boots : machine = b[1] /\ opts = b[2]
  /\ plugged = machine.cards
  /\ at = "welcome" /\ loaded = FALSE /\ hw = NoHardware
  /\ source = None /\ net = [ip |-> machine.boot = "network" /\ machine.ip, params |-> {}]
  /\ picked = <<>> /\ target = NoTarget
  /\ todo = <<>> /\ done = {} /\ mounted = NoStick
  /\ restored = FALSE /\ written = {}

Next ==
  \/ Welcome \/ scan_hardware \/ Rescan \/ findsource \/ source_network
  \/ selectdestination \/ selecttarget \/ MakeStep \/ MakeDone
  \/ handlerestore \/ SkipRestore \/ RunSetup \/ SetupEnded \/ Boot
  \/ at \in {"setup", "up"} /\ Dialog /\ UNCHANGED ivars
  \/ at = "up" /\ (StartSetup \/ PowerCut \/ SwapCard) /\ UNCHANGED ivars

Spec == Init /\ [][Next]_<<vars, ivars>>

-----------------------------------------------------------------------------
\* Only the disks the user has chosen and confirmed are written to, never the
\* medium the tarball is read from and never a backup stick that is no
\* destination: a stick the machine was booted from is a disk of the scan
\* (hardware.c:297) until source_cdrom finds the tarball on it, and the mount
\* point of the backup stick is removed recursively before the next attempt to
\* restore (restore.c:465) while the stick may still be mounted there.
OnlyChosenDisks ==
  /\ written \subseteq Range(picked) /\ source \notin written
  /\ written # {} => at \notin {"disk", "raid1", "raid2", "confirm", "target"}

Partitioned(d) ==
  {Op("erase", d), Op("mklabel", d), Op("mkpart root", d), Op("mkpart log", d), Op("boot on", d)}
  \cup (IF raid THEN {Op("raid on", d)} ELSE {})

\* Every disk that was chosen can be booted and holds the system: it is
\* partitioned within its size with a log partition, has the boot record, and a
\* RAID has two disks. Excepted are disks partitioned by hand or without boot
\* record at the user's wish.
Bootable ==
  /\ \A d \in Range(picked) :
       /\ opts.parted \/ Partitioned(d) \subseteq done
       /\ opts.nombr \/ Op("mbr", d) \in done
       /\ opts.parted \/ target.layout.root + target.layout.log <= Drive(d).size
  /\ target.layout.log > 0 \/ opts.parted
  /\ target.layout.root >= ROOT_MINIMUM + target.layout.swap \/ target.medium = "flash"
  /\ \E d \in Range(picked) \cup {"md"} : {Op("tar", d), Op("mkinitramfs", d), Op("extlinux", d)} \subseteq done
  /\ Len(picked) = 2 => picked[1] # picked[2]

\* Setup has run to its end: GREEN, and RED unless it is a modem, have a card
\* and an address where one is needed, a proposed DHCP range does not hold the
\* machine's own address and is not empty, and the host files have the names of
\* main/settings. Excepted are what the code lets through: OK without a RED
\* type, an address form left with F12, a password that was not set, a domain
\* that was refused and then skipped, and GREEN at the first address of a
\* network of four.
Configured ==
  /\ unset = {} \/ left.faults < MaxFaults
  /\ eth.count["GREEN"] = 1
  /\ Readable(eth) \/ left.skips < MaxSkips
  /\ eth.type \in Addressed => eth.addr["RED"] # NoAddress \/ left.skips < MaxSkips
  /\ eth.type \notin Modem => eth.count["RED"] = 1
  /\ hosts.host = main.host /\ hosts.domain \in {main.domain, "not a domain"}
  /\ LET a == eth.addr["GREEN"] IN
     dhcp.state = "proposed" /\ a.block >= 4 /\ ~(a.block = 4 /\ a.host % 4 \in {0, 1}) =>
       dhcp.range.from <= dhcp.range.to /\ a.host \notin dhcp.range.from .. dhcp.range.to

\* When the installer congratulates, the disks are bootable, and the
\* configuration is either restored or complete. make_ipcop_disk stops at the
\* first command that fails, but main does not look at how setup ended: a setup
\* that could not be run (installer.c:1097) or was killed by the parameters of
\* DHCP (networking.c:1122) leaves a machine with nothing configured.
Installed == at = "done" => Bootable /\ (restored \/ died \/ Configured)
=============================================================================
