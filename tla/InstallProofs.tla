--------------------------- MODULE InstallProofs ---------------------------
(***************************************************************************)
(* Proofs about Install: for any machines and kernel command lines, which  *)
(* drives the installer writes to, and what is on them at its end; and for *)
(* any cards and addresses that setup leaves the settings of the network   *)
(* and udev's rules in agreement, and an installation complete.            *)
(*                                                                         *)
(* DiskInv follows a drive from the scan to the command that writes to it: *)
(* listed once, the source never as a disk, chosen from the list, and      *)
(* commands given no other.  BootInv follows the commands: each one that   *)
(* is needed is done or still to come, and each that was done did fit.     *)
(* CardInv follows a colour through the dialogs: from the list in memory   *)
(* to the count, the rules and the settings that are written last.         *)
(* ConfInv says of an installation that what is missing is still asked for.*)
(***************************************************************************)
EXTENDS Install, FiniteSetTheorems, TLAPS

USE DEF box, origin, choice, made, rest
-----------------------------------------------------------------------------
(* The drives *)

DriveNames == {machine.drives[i].name : i \in 1 .. Len(machine.drives)}
Hardware   == [type: {"harddisk", "cdrom"}, device: DriveNames] \cup {[type |-> "none", device |-> ""]}

\* The machine is one of Boots until the installed system runs on it.
Box ==
  /\ machine.drives \in Seq(Drives)
  /\ \A i, j \in 1 .. Len(machine.drives) : machine.drives[i].name = machine.drives[j].name => i = j
  /\ OptionsOK(opts)

\* Every drive is listed once, and the one that holds the tarball as no disk.
Listed ==
  /\ hw \in Seq(Hardware)
  /\ \A i, j \in 1 .. Len(hw) : hw[i].device = hw[j].device => i = j
  /\ source \in DriveNames \cup {"network", None}
  /\ \A i \in 1 .. Len(hw) : hw[i].device = source => hw[i].type = "cdrom"

Early == {"welcome", "scan", "rescan", "source", "medium", "net"}
Asked == {"disk", "raid1", "raid2", "confirm", "target"}
Late  == {"restore", "congratulations", "setup", "done"}

\* What has been chosen where. Before "disk" there is no source; nothing is
\* written before "make".
Stages ==
  /\ at \in Early \cup Asked \cup Late \cup {"make", "exit", "crashed", "up"}
  /\ at \in Early => source = None
  /\ at \in Early \cup {"disk", "raid1", "up"} => picked = <<>>
  /\ at = "raid2" => Len(picked) = 1
  /\ at \in {"confirm", "target", "make"} \cup Late => Len(picked) \in {1, 2}
  /\ at \in Early \cup Asked => written = {} /\ done = {}

\* The disks that are chosen are destinations the list offers.
Destined ==
  /\ picked \in Seq(harddisklist)
  /\ \A i \in 1 .. Len(picked) : Drive(picked[i]).size >= DISK_MINIMUM
  /\ Len(picked) = 2 => picked[1] # picked[2]

Commands == [op: {"erase", "mklabel", "mkpart root", "mkpart log", "boot on", "raid on", "mdadm", "mke2fs root",
                  "mke2fs log", "mount", "wget", "tar", "swapon", "mdadm.conf", "mkinitramfs",
                  "extlinux", "mbr"},
             dev: Range(picked) \cup {"md"}]

\* Commands are given only these disks or the array made of them.
Given ==
  /\ at = "make" => todo \in Seq(Commands)
  /\ mounted.ro = TRUE
  /\ written \subseteq Range(picked)

DiskInv == Box /\ Listed /\ Stages /\ Destined /\ Given
-----------------------------------------------------------------------------
\* A drive's name stands for it.
LEMMA DriveIs ==
  ASSUME Box, NEW i \in 1 .. Len(machine.drives)
  PROVE  Drive(machine.drives[i].name) = machine.drives[i]
<1>1. (CHOOSE j \in 1 .. Len(machine.drives) : machine.drives[j].name = machine.drives[i].name) = i
  BY DEF Box
<1> QED
  BY <1>1 DEF Drive

\* The names of drives are none of the names that stand for something else.
LEMMA Distinct ==
  ASSUME Box
  PROVE  \A d \in DriveNames : d \notin {"", "md", "network", None}
<1>1. \A i \in 1 .. Len(machine.drives) : machine.drives[i] \in Drives
  BY DEF Box
<1> QED
  BY <1>1 DEF DriveNames, Drives

\* An entry of the list is a drive, or the dummy.
LEMMA Entry ==
  ASSUME NEW h \in Hardware
  PROVE  \/ h.type \in {"harddisk", "cdrom"} /\ h.device \in DriveNames
         \/ h.type = "none" /\ h.device = ""
<1>1. CASE h \in [type: {"harddisk", "cdrom"}, device: DriveNames]
  BY <1>1
<1>2. CASE h = [type |-> "none", device |-> ""]
  BY <1>2
<1> QED
  BY <1>1, <1>2 DEF Hardware

\* A disk or a cdrom of the machine is an entry.
LEMMA IsEntry ==
  ASSUME NEW t \in {"harddisk", "cdrom"}, NEW d \in DriveNames
  PROVE  [type |-> t, device |-> d] \in Hardware
BY DEF Hardware

\* The destinations are drives, and the source is none of them.
LEMMA DisksAreDrives ==
  ASSUME Box, Listed
  PROVE  /\ harddisklist \subseteq DriveNames
         /\ source \notin harddisklist
<1>1. \A i \in 1 .. Len(hw) : hw[i] \in Hardware
  BY DEF Listed
<1> QED
  BY <1>1, Entry DEF Listed, harddisklist

\* The range of a sequence.
LEMMA RangeOf ==
  ASSUME NEW S, NEW s \in Seq(S)
  PROVE  Range(s) = {s[i] : i \in 1 .. Len(s)} /\ Range(s) \subseteq S
BY DEF Range

\* A sequence of one element.
LEMMA OneElement ==
  ASSUME NEW S, NEW x \in S
  PROVE  <<x>> \in Seq(S)
OBVIOUS

\* A sequence of three elements.
LEMMA ThreeElements ==
  ASSUME NEW S, NEW x \in S, NEW y \in S, NEW z \in S
  PROVE  <<x, y, z>> \in Seq(S)
OBVIOUS

\* A sequence of five elements.
LEMMA FiveElements ==
  ASSUME NEW S, NEW v \in S, NEW w \in S, NEW x \in S, NEW y \in S, NEW z \in S
  PROVE  /\ <<v, w, x, y, z>> \in Seq(S)
         /\ Range(<<v, w, x, y, z>>) = {v, w, x, y, z}
<1>1. <<v, w, x, y, z>> \in Seq(S)
  OBVIOUS
<1>2. Range(<<v, w, x, y, z>>) = {<<v, w, x, y, z>>[i] : i \in 1 .. 5}
  BY DEF Range
<1>3. {<<v, w, x, y, z>>[i] : i \in 1 .. 5} = {v, w, x, y, z}
  <2>1. 1 .. 5 = {1, 2, 3, 4, 5}
    OBVIOUS
  <2> QED
    BY <2>1
<1> QED
  BY <1>1, <1>2, <1>3

\* A disk is appended to a choice.
LEMMA Appended ==
  ASSUME NEW S, NEW s \in Seq(S), NEW d \in S
  PROVE  /\ Append(s, d) \in Seq(S) /\ Len(Append(s, d)) = Len(s) + 1
         /\ Append(s, d)[Len(s) + 1] = d
         /\ \A i \in 1 .. Len(s) : Append(s, d)[i] = s[i]
OBVIOUS

\* Initially.
LEMMA DiskInit == Init => DiskInv
<1> SUFFICES ASSUME Init PROVE DiskInv
  OBVIOUS
<1>1. Box
  <2>1. PICK b \in Boots : machine = b[1] /\ opts = b[2]
    BY DEF Init
  <2> QED
    BY <2>1, InstallAssumption DEF Box, MachineOK
<1>2. Listed
  <2>1. hw = <<[type |-> "none", device |-> ""]>> /\ source = "none"
    BY DEF Init, NoHardware, None
  <2>2. [type |-> "none", device |-> ""] \in Hardware
    BY DEF Hardware
  <2>3. hw \in Seq(Hardware)
    BY <2>1, <2>2, OneElement
  <2>4. Len(hw) = 1
    BY <2>1
  <2>5. \A i \in 1 .. Len(hw) : i = 1
    BY <2>4, SMT
  <2>6. \A i \in 1 .. Len(hw) : hw[i].device # source
    <3>1. hw[1].device = "" /\ source # ""
      BY <2>1
    <3> QED
      BY <3>1, <2>5
  <2> HIDE <2>1
  <2>7. source = None
    BY DEF Init
  <2> QED
    BY <2>3, <2>5, <2>6, <2>7 DEF Listed
<1>3. Stages /\ Destined
  BY DEF Init, Stages, Destined, Early, Asked, Late
<1>4. Given
  BY DEF Init, Given, NoStick, Range
<1> QED
  BY <1>1, <1>2, <1>3, <1>4 DEF DiskInv

-----------------------------------------------------------------------------
(* The steps *)

\* A step that changes no choice and writes nothing.
LEMMA DiskSame ==
  ASSUME DiskInv, UNCHANGED <<machine, opts, hw, source, picked, todo, done, mounted, written>>,
         Stages'
  PROVE  DiskInv' \/ (at' = "make" /\ at # "make")
<1>1. Box' /\ DriveNames' = DriveNames /\ Hardware' = Hardware
  BY DEF DiskInv, Box, DriveNames, Hardware
<1>2. Listed'
  BY <1>1 DEF DiskInv, Listed
<1>3. Destined'
  BY DEF DiskInv, Destined, harddisklist, Drive
<1>4. (at' = "make" => at = "make") => Given'
  BY DEF DiskInv, Given, Commands
<1> QED
  BY <1>1, <1>2, <1>3, <1>4 DEF DiskInv

\* The type of a drive.
LEMMA DriveTypes ==
  ASSUME Box, NEW i \in 1 .. Len(machine.drives)
  PROVE  DriveType(i) \in {"none", "harddisk", "cdrom"}
<1>1. machine.drives[i] \in Drives
  BY DEF Box
<1>2. machine.drives[i].bus \in {"ide", "sd", "sr"}
  BY <1>1 DEF Drives
<1> QED
  BY <1>2 DEF DriveType, IdeType, SdType

\* The scan lists drives that are not listed yet, each once.
LEMMA DiskScan ==
  ASSUME DiskInv, scan_hardware
  PROVE  DiskInv'
<1> USE DEF DiskInv
<1>0. /\ at = "scan" /\ at' \in {"source", "rescan"}
      /\ UNCHANGED <<machine, opts, source, picked, todo, done, mounted, written>>
  BY DEF scan_hardware
<1>1. hardwareadd \subseteq 1 .. Len(machine.drives)
  BY DEF hardwareadd, Visible
<1>2. Cardinality(hardwareadd) \in Nat
  <2>1. Len(machine.drives) \in Nat
    BY DEF Box
  <2>2. IsFiniteSet(1 .. Len(machine.drives))
    BY <2>1, FS_Interval
  <2>3. IsFiniteSet(hardwareadd)
    BY <1>1, <2>2, FS_Subset
  <2> QED
    BY <2>3, FS_CardinalityType
<1> DEFINE N == Cardinality(hardwareadd)
<1>3. PICK new \in InOrder(hardwareadd) :
        hw' = hw \o [n \in 1 .. N |-> [type |-> DriveType(new[n]), device |-> machine.drives[new[n]].name]]
  BY DEF scan_hardware, scanprocdrives
<1> DEFINE add == [n \in 1 .. N |-> [type |-> DriveType(new[n]), device |-> machine.drives[new[n]].name]]
<1>4. \A n \in 1 .. N : new[n] \in hardwareadd
  BY DEF InOrder
<1>5. \A m, n \in 1 .. N : new[m] = new[n] => m = n
  <2>1. \A m, n \in 1 .. N : m < n => new[m] < new[n]
    BY DEF InOrder
  <2>2. \A n \in 1 .. N : new[n] \in Int
    <3> SUFFICES ASSUME NEW n \in 1 .. N PROVE new[n] \in Int
      OBVIOUS
    <3>1. Len(machine.drives) \in Nat
      BY DEF Box
    <3>2. new[n] \in 1 .. Len(machine.drives)
      BY <1>1, <1>4
    <3> HIDE DEF N
    <3> QED
      BY <3>1, <3>2
  <2> QED
    BY <1>2, <2>1, <2>2
<1>6. \A n \in 1 .. N : add[n] \in Hardware
  <2> SUFFICES ASSUME NEW n \in 1 .. N PROVE add[n] \in Hardware
    OBVIOUS
  <2>1. new[n] \in 1 .. Len(machine.drives)
    BY <1>1, <1>4
  <2>2. DriveType(new[n]) \in {"harddisk", "cdrom"}
    BY <2>1, <1>4, DriveTypes DEF hardwareadd
  <2>3. machine.drives[new[n]].name \in DriveNames
    BY <2>1 DEF DriveNames
  <2> QED
    BY <2>2, <2>3, IsEntry
<1>7. \A n \in 1 .. N : add[n].device = machine.drives[new[n]].name
  OBVIOUS
<1>8. \A m, n \in 1 .. N : add[m].device = add[n].device => m = n
  BY <1>1, <1>4, <1>5, <1>7 DEF Box
<1>9. \A n \in 1 .. N, i \in 1 .. Len(hw) : add[n].device # hw[i].device
  BY <1>4, <1>7 DEF hardwareadd
<1>10. add \in Seq(Hardware) /\ Len(add) = N
  BY <1>2, <1>6
<1> HIDE DEF add, N
<1>11. hw' = hw \o add /\ hw \in Seq(Hardware) /\ Len(hw) \in Nat
  BY <1>3 DEF add, N, Listed
<1>12. hw' \in Seq(Hardware) /\ Len(hw') = Len(hw) + N
  BY <1>2, <1>10, <1>11 DEF N
<1>13. \A i \in 1 .. Len(hw') :
         \/ i \in 1 .. Len(hw) /\ hw'[i] = hw[i]
         \/ i - Len(hw) \in 1 .. N /\ hw'[i] = add[i - Len(hw)]
  BY <1>2, <1>10, <1>11, <1>12 DEF N
<1>14. \A i, j \in 1 .. Len(hw') : hw'[i].device = hw'[j].device => i = j
  <2> SUFFICES ASSUME NEW i \in 1 .. Len(hw'), NEW j \in 1 .. Len(hw'), hw'[i].device = hw'[j].device
               PROVE  i = j
    OBVIOUS
  <2>1. CASE i \in 1 .. Len(hw) /\ j \in 1 .. Len(hw) /\ hw'[i] = hw[i] /\ hw'[j] = hw[j]
    BY <2>1 DEF Listed
  <2>2. CASE /\ i - Len(hw) \in 1 .. N /\ hw'[i] = add[i - Len(hw)]
             /\ j - Len(hw) \in 1 .. N /\ hw'[j] = add[j - Len(hw)]
    <3>1. i - Len(hw) = j - Len(hw)
      BY <2>2, <1>8
    <3> QED
      BY <3>1, <1>11, <1>12
  <2> QED
    BY <2>1, <2>2, <1>13, <1>9
<1>15. source = None /\ picked = <<>>
  BY <1>0 DEF Stages, Early
<1>16. \A i \in 1 .. Len(hw') : hw'[i].device # source
  <2>1. \A i \in 1 .. Len(hw') : hw'[i] \in Hardware
    BY <1>12
  <2>2. \A i \in 1 .. Len(hw') : hw'[i].device \in DriveNames \cup {""}
    BY <2>1, Entry
  <2> QED
    BY <2>2, <1>15, Distinct DEF None
<1>17. DriveNames' = DriveNames /\ Hardware' = Hardware /\ Box'
  BY <1>0 DEF DriveNames, Hardware, Box
<1>18. Listed'
  BY <1>0, <1>12, <1>14, <1>16, <1>17 DEF Listed
<1>19. Stages'
  BY <1>0 DEF Stages, Early, Asked, Late
<1>20. Destined' /\ Given'
  BY <1>0, <1>15 DEF Destined, Given, Range
<1> QED
  BY <1>17, <1>18, <1>19, <1>20

\* The drive that holds the tarball is no destination any more.
LEMMA DiskSource ==
  ASSUME DiskInv, findsource
  PROVE  DiskInv'
<1> USE DEF DiskInv
<1>0. /\ at \in {"source", "medium"} /\ at' \in {"disk", "medium", "net", "exit"}
      /\ UNCHANGED <<machine, opts, picked, todo, done, mounted, written>>
  BY DEF findsource, source_cdrom
<1>1. source = None /\ picked = <<>> /\ written = {} /\ done = {}
  BY <1>0 DEF Stages, Early
<1>2. Box' /\ DriveNames' = DriveNames /\ Hardware' = Hardware
  BY <1>0 DEF Box, DriveNames, Hardware
<1>3. Destined' /\ Given'
  BY <1>0, <1>1 DEF Destined, Given, Range
<1>4. CASE source_cdrom /\ at' = "disk"
  <2>1. PICK i \in Tested :
          source' = hw[i].device /\ hw' = [hw EXCEPT ![i] = [type |-> "cdrom", device |-> hw[i].device]]
    BY <1>4 DEF source_cdrom
  <2>2. i \in 1 .. Len(hw) /\ hw[i].type \in {"cdrom", "harddisk"} /\ hw[i] \in Hardware
    BY DEF Tested, Listed
  <2>3. hw[i].device \in DriveNames
    BY <2>2, Entry
  <2> DEFINE found == [type |-> "cdrom", device |-> hw[i].device]
  <2>4. found \in Hardware /\ found.device = hw[i].device /\ found.type = "cdrom"
    BY <2>3, IsEntry
  <2> HIDE DEF found
  <2>5. hw' = [hw EXCEPT ![i] = found] /\ hw \in Seq(Hardware)
    BY <2>1 DEF found, Listed
  <2>6. hw' \in Seq(Hardware) /\ Len(hw') = Len(hw) /\ hw'[i] = found
    BY <2>2, <2>4, <2>5
  <2>7. \A j \in 1 .. Len(hw) : j # i => hw'[j] = hw[j]
    BY <2>5
  <2>8. \A j \in 1 .. Len(hw) : hw'[j].device = hw[j].device
    BY <2>4, <2>6, <2>7
  <2>9. \A j \in 1 .. Len(hw) : hw[j].device = hw[i].device => j = i
    BY <2>2 DEF Listed
  <2>10. Listed'
    BY <1>2, <2>1, <2>3, <2>4, <2>6, <2>8, <2>9 DEF Listed
  <2> QED
    BY <1>0, <1>1, <1>2, <1>3, <1>4, <2>10 DEF Stages, Early, Asked, Late
<1>5. CASE UNCHANGED <<hw, source>> /\ at' # "disk"
  BY <1>0, <1>1, <1>2, <1>3, <1>5 DEF Listed, Stages, Early, Asked, Late
<1> QED
  BY <1>4, <1>5 DEF findsource

\* A network is no drive.
LEMMA DiskNetwork ==
  ASSUME DiskInv, source_network
  PROVE  DiskInv'
<1> USE DEF DiskInv
<1>0. /\ at = "net" /\ ((at' = "disk" /\ source' = "network") \/ (at' = "medium" /\ source' = source))
      /\ UNCHANGED <<machine, opts, hw, picked, todo, done, mounted, written>>
  <2>1. at = "net" /\ UNCHANGED <<machine, opts, hw, picked, todo, done, mounted, written>>
    BY DEF source_network
  <2>2. (at' = "disk" /\ source' = "network") \/ (at' = "medium" /\ source' = source)
    BY DEF source_network
  <2> QED
    BY <2>1, <2>2
<1>1. picked = <<>> /\ source = None
  BY <1>0 DEF Stages, Early
<1>2. Box' /\ DriveNames' = DriveNames /\ Hardware' = Hardware
  BY <1>0 DEF Box, DriveNames, Hardware
<1>3. Destined' /\ Given'
  BY <1>0, <1>1 DEF Destined, Given, Range
<1>4. \A i \in 1 .. Len(hw) : hw[i].device \notin {"network", None}
  <2>1. \A i \in 1 .. Len(hw) : hw[i] \in Hardware
    BY DEF Listed
  <2>2. \A i \in 1 .. Len(hw) : hw[i].device \in DriveNames \cup {""}
    BY <2>1, Entry
  <2> QED
    BY <2>2, Distinct DEF None
<1>5. Listed'
  BY <1>0, <1>1, <1>2, <1>4 DEF Listed
<1> QED
  BY <1>0, <1>2, <1>3, <1>5 DEF Stages, Early, Asked, Late

\* A disk of the list is added to the choice, or the choice is dropped.
LEMMA DiskChoose ==
  ASSUME DiskInv, NEW disks \in SUBSET harddisklist, NEW next, Choose(disks, next)
  PROVE  \/ at' = "disk" /\ picked' = <<>>
         \/ at' = "crashed" /\ picked' = picked
         \/ /\ at' = next
            /\ \E d \in disks : picked' = Append(picked, d) /\ Drive(d).size >= DISK_MINIMUM
BY DEF Choose

\* selectdestination: the disks are chosen from the list, each once.
LEMMA DiskDestination ==
  ASSUME DiskInv, selectdestination
  PROVE  DiskInv'
<1> USE DEF DiskInv
<1>0. /\ at \in {"disk", "raid1", "raid2", "confirm"}
      /\ UNCHANGED <<machine, opts, hw, source, target, todo, done, mounted, written>>
  BY DEF selectdestination
<1>1. Box' /\ DriveNames' = DriveNames /\ Hardware' = Hardware /\ harddisklist' = harddisklist
  BY <1>0 DEF Box, DriveNames, Hardware, harddisklist
<1>2. Listed'
  BY <1>0, <1>1 DEF Listed
<1>3. written = {} /\ done = {} /\ written' = {} /\ done' = {}
  BY <1>0 DEF Stages, Asked
<1>4. at' # "make"
  BY DEF selectdestination, Choose
<1>5. Given'
  BY <1>0, <1>3, <1>4 DEF Given
<1>6. picked \in Seq(harddisklist) /\ (at \in {"disk", "raid1"} => picked = <<>>) /\ (at = "raid2" => Len(picked) = 1)
  BY DEF Stages, Destined
<1>7. \A d : Drive(d)' = Drive(d)
  BY <1>0 DEF Drive
<1>8. CASE picked' = picked
  <2>1. \/ at' \in {"crashed", "exit"}
        \/ at = "disk" /\ at' = "raid1"
        \/ at = "confirm" /\ at' = "target"
        \/ at \in {"raid1", "raid2", "confirm"} /\ at' = "disk" /\ picked' = <<>>
        \/ at' = "disk" /\ picked' = <<>>
    BY <1>0, <1>6, <1>8 DEF selectdestination, Choose
  <2>2. Stages'
    BY <2>1, <1>0, <1>3, <1>8 DEF Stages, Early, Asked, Late
  <2>3. Destined'
    BY <1>1, <1>7, <1>8 DEF Destined
  <2> QED
    BY <1>1, <1>2, <1>5, <2>2, <2>3
<1>9. CASE at' = "disk" /\ picked' = <<>>
  BY <1>0, <1>1, <1>2, <1>3, <1>5, <1>9 DEF Stages, Destined, Early, Asked, Late
<1>10. CASE \/ at = "disk" /\ Choose(harddisklist, "confirm")
            \/ at = "raid1" /\ Choose(harddisklist, "raid2")
  <2>1. CASE \E d \in harddisklist : picked' = Append(picked, d) /\ Drive(d).size >= DISK_MINIMUM
    <3>1. PICK d \in harddisklist : picked' = Append(picked, d) /\ Drive(d).size >= DISK_MINIMUM
      BY <2>1
    <3>2. picked = <<>>
      BY <1>6, <1>10
    <3>3. CASE at' \in {"confirm", "raid2"}
      <4>0. Len(picked) = 0 /\ picked \in Seq(harddisklist)
        BY <3>2
      <4>1. Len(picked') = 1 /\ picked'[1] = d /\ picked' \in Seq(harddisklist)
        BY <3>1, <4>0, Appended
      <4>2. Stages'
        BY <3>3, <4>1, <1>3 DEF Stages, Early, Asked, Late
      <4>3. Destined'
        BY <3>1, <4>1, <1>1, <1>7 DEF Destined
      <4> QED
        BY <4>2, <4>3, <1>1, <1>2, <1>5
    <3> QED
      BY <3>3, <1>8, <1>9, <1>10, DiskChoose
  <2> QED
    BY <2>1, <1>8, <1>9, <1>10, DiskChoose
<1>11. CASE at = "raid2" /\ Choose(harddisklist \ Range(picked), "confirm")
  <2>1. CASE /\ at' = "confirm"
             /\ \E d \in harddisklist \ Range(picked) :
                  picked' = Append(picked, d) /\ Drive(d).size >= DISK_MINIMUM
    <3>1. PICK d \in harddisklist \ Range(picked) :
            picked' = Append(picked, d) /\ Drive(d).size >= DISK_MINIMUM
      BY <2>1
    <3>2. Len(picked) = 1 /\ picked[1] # d /\ d \in harddisklist
      BY <1>6, <1>11, RangeOf
    <3>3. /\ Len(picked') = 2 /\ picked'[1] = picked[1] /\ picked'[2] = d
          /\ picked' \in Seq(harddisklist)
      <4>0. picked \in Seq(harddisklist) /\ d \in harddisklist
        BY <3>2, <1>6
      <4>1. /\ Append(picked, d) \in Seq(harddisklist) /\ Len(Append(picked, d)) = Len(picked) + 1
            /\ Append(picked, d)[Len(picked) + 1] = d
            /\ \A i \in 1 .. Len(picked) : Append(picked, d)[i] = picked[i]
        BY <4>0, Appended
      <4> QED
        BY <3>1, <3>2, <4>1
    <3>4. Stages'
      BY <2>1, <3>3, <1>3 DEF Stages, Early, Asked, Late
    <3>5. \A i \in 1 .. Len(picked') : Drive(picked'[i]).size >= DISK_MINIMUM
      <4>1. Drive(picked[1]).size >= DISK_MINIMUM
        BY <3>2 DEF Destined
      <4>2. \A i \in 1 .. Len(picked') : i = 1 \/ i = 2
        BY <3>3
      <4> QED
        BY <3>1, <3>3, <4>1, <4>2
    <3>6. Destined'
      BY <3>2, <3>3, <3>5, <1>1, <1>7 DEF Destined
    <3> QED
      BY <3>4, <3>6, <1>1, <1>2, <1>5
  <2> QED
    BY <2>1, <1>8, <1>9, <1>11, DiskChoose
<1> QED
  BY <1>8, <1>9, <1>10, <1>11 DEF selectdestination

\* The concatenation of two lists of commands.
LEMMA Joined ==
  ASSUME NEW S, NEW s \in Seq(S), NEW t \in Seq(S)
  PROVE  s \o t \in Seq(S)
OBVIOUS

\* The commands of make_ipcop_disk are about the disks that are chosen.
LEMMA MadeOf ==
  ASSUME NEW layout, picked \in Seq(harddisklist), Len(picked) \in {1, 2}
  PROVE  /\ make_ipcop_disk(layout) \in Seq(Commands)
         /\ make_partitions \in Seq(Commands) /\ make_disk(layout) \in Seq(Commands)
         /\ make_bootable \in Seq(Commands)
         /\ Each("mbr") \in Seq(Commands)
         /\ \A d \in Range(picked) : disk_partition(d) \in Seq(Commands)
         /\ \A o \in {"tar", "mkinitramfs", "extlinux"} : <<Op(o, Root)>> \in Seq(Commands)
         /\ Format \o If(source = "network", <<Op("wget", Root)>>) \in Seq(Commands)
         /\ If(layout.swap # 0, <<Op("swapon", Root)>>) \in Seq(Commands)
         /\ If(raid, <<Op("mdadm.conf", Root)>>) \in Seq(Commands)
         /\ If(raid, <<Op("mdadm", "md")>>) \in Seq(Commands)
<1>1. \A i \in 1 .. Len(picked) : picked[i] \in Range(picked)
  BY RangeOf
<1>2. Root \in Range(picked) \cup {"md"}
  BY <1>1 DEF Root
<1>3. \A o \in {"mke2fs root", "mke2fs log", "mount", "wget", "tar", "swapon", "mdadm.conf",
                "mkinitramfs", "extlinux"} : Op(o, Root) \in Commands
  BY <1>2 DEF Op, Commands
<1>4. Op("mdadm", "md") \in Commands
  BY DEF Op, Commands
<1>5. Each("mbr") \in Seq(Commands)
  <2>1. \A i \in 1 .. Len(picked) : Op("mbr", picked[i]) \in Commands
    BY <1>1 DEF Op, Commands
  <2> QED
    BY <2>1 DEF Each
<1>19. \A d \in Range(picked), o \in {"erase", "mklabel", "mkpart root", "mkpart log", "boot on", "raid on"} :
          Op(o, d) \in Commands
  BY DEF Op, Commands
<1> HIDE DEF Op, Each, Commands
<1>6. \A o \in {"mke2fs root", "mke2fs log", "mount", "wget", "tar", "swapon", "mdadm.conf",
                "mkinitramfs", "extlinux"} : <<Op(o, Root)>> \in Seq(Commands)
  BY <1>3, OneElement
<1>7. <<Op("mdadm", "md")>> \in Seq(Commands)
  BY <1>4, OneElement
<1>8. <<>> \in Seq(Commands)
  OBVIOUS
<1>20. \A d \in Range(picked) : disk_partition(d) \in Seq(Commands)
  <2> SUFFICES ASSUME NEW d \in Range(picked) PROVE disk_partition(d) \in Seq(Commands)
    OBVIOUS
  <2>1. <<Op("raid on", d)>> \in Seq(Commands)
    BY <1>19, OneElement
  <2>2. If(raid, <<Op("raid on", d)>>) \in Seq(Commands)
    BY <1>8, <2>1 DEF If
  <2>3. <<Op("erase", d), Op("mklabel", d), Op("mkpart root", d), Op("mkpart log", d), Op("boot on", d)>>
          \in Seq(Commands)
    BY <1>19, FiveElements
  <2> QED
    BY <2>2, <2>3, Joined DEF disk_partition
<1>9. make_partitions \in Seq(Commands)
  <2>1. disk_partition(picked[1]) \in Seq(Commands)
    BY <1>1, <1>20
  <2>2. If(raid, disk_partition(picked[2]) \o <<Op("mdadm", "md")>>) \in Seq(Commands)
    <3>1. CASE raid
      <4>1. disk_partition(picked[2]) \in Seq(Commands)
        BY <1>1, <1>20, <3>1 DEF raid
      <4> QED
        BY <1>7, <3>1, <4>1, Joined DEF If
    <3>2. CASE ~raid
      BY <1>8, <3>2 DEF If
    <3> QED
      BY <3>1, <3>2
  <2> QED
    BY <1>8, <2>1, <2>2, Joined DEF make_partitions, If
<1>10. make_bootable \in Seq(Commands)
  BY <1>5, <1>6, <1>8, Joined DEF make_bootable, If, Mbr
<1>11. Format \in Seq(Commands)
  BY <1>3, ThreeElements DEF Format
<1>12. If(source = "network", <<Op("wget", Root)>>) \in Seq(Commands)
  BY <1>6, <1>8 DEF If
<1>13. If(layout.swap # 0, <<Op("swapon", Root)>>) \in Seq(Commands)
  BY <1>6, <1>8 DEF If
<1>14. If(raid, <<Op("mdadm.conf", Root)>>) \in Seq(Commands)
  BY <1>6, <1>8 DEF If
<1>15. If(raid, <<Op("mdadm", "md")>>) \in Seq(Commands)
  BY <1>7, <1>8 DEF If
<1>16. Format \o If(source = "network", <<Op("wget", Root)>>) \in Seq(Commands)
  BY <1>11, <1>12, Joined
<1>17. make_disk(layout) \in Seq(Commands)
  BY <1>6, <1>13, <1>14, <1>16, Joined DEF make_disk
<1>18. make_ipcop_disk(layout) \in Seq(Commands)
  BY <1>6, <1>9, <1>10, <1>17, Joined DEF make_ipcop_disk
<1> QED
  BY <1>5, <1>6, <1>9, <1>10, <1>13, <1>14, <1>15, <1>16, <1>17, <1>18, <1>20

\* The commands are made for the disks that were confirmed.
LEMMA DiskTarget ==
  ASSUME DiskInv, selecttarget
  PROVE  DiskInv'
<1> USE DEF DiskInv
<1>0. /\ at = "target" /\ UNCHANGED <<machine, opts, hw, source, done, mounted, written>>
  BY DEF selecttarget
<1>1. Box' /\ DriveNames' = DriveNames /\ Hardware' = Hardware /\ harddisklist' = harddisklist
  BY <1>0 DEF Box, DriveNames, Hardware, harddisklist
<1>2. Listed'
  BY <1>0, <1>1 DEF Listed
<1>3. written' = {} /\ done' = {} /\ Len(picked) \in {1, 2}
  BY <1>0 DEF Stages, Asked
<1>4. CASE at' = "disk" /\ picked' = <<>>
  BY <1>0, <1>1, <1>2, <1>3, <1>4 DEF Stages, Destined, Given, Early, Asked, Late
<1>5. ASSUME NEW layout, at' = "make", picked' = picked, todo' = make_ipcop_disk(layout)
      PROVE  DiskInv'
  <2>1. Commands' = Commands
    BY <1>5 DEF Commands
  <2>2. todo' \in Seq(Commands')
    BY <1>3, <1>5, <2>1, MadeOf DEF Destined
  <2>3. Given'
    BY <1>0, <1>3, <2>2 DEF Given
  <2>4. Stages'
    BY <1>3, <1>5 DEF Stages, Early, Asked, Late
  <2>5. Destined'
    BY <1>0, <1>1, <1>5 DEF Destined, Drive
  <2> QED
    BY <1>1, <1>2, <2>3, <2>4, <2>5
<1> QED
  BY <1>4, <1>5 DEF selecttarget

\* A command writes to a disk that is chosen.
LEMMA DiskMake ==
  ASSUME DiskInv, MakeStep
  PROVE  DiskInv'
<1> USE DEF DiskInv
<1>0. /\ at = "make" /\ at' \in {"make", "exit"} /\ todo # <<>>
      /\ UNCHANGED <<machine, opts, hw, source, picked, mounted>>
  BY DEF MakeStep
<1>1. Box' /\ DriveNames' = DriveNames /\ Hardware' = Hardware /\ harddisklist' = harddisklist
  BY <1>0 DEF Box, DriveNames, Hardware, harddisklist
<1>2. Listed' /\ Destined'
  BY <1>0, <1>1 DEF Listed, Destined, Drive
<1>3. todo \in Seq(Commands) /\ Commands' = Commands
  BY <1>0 DEF Given, Commands
<1>4. Head(todo) \in Commands /\ Tail(todo) \in Seq(Commands)
  BY <1>0, <1>3
<1>5. Writes(Head(todo)) \subseteq Range(picked)
  BY <1>4 DEF Writes, Commands
<1>6. written' \subseteq Range(picked')
  BY <1>0, <1>5 DEF MakeStep, Given
<1>7. at' = "make" => todo' \in Seq(Commands)
  BY <1>3, <1>4 DEF MakeStep
<1>8. Given'
  BY <1>0, <1>3, <1>6, <1>7 DEF Given
<1>9. Stages'
  BY <1>0 DEF Stages, Early, Asked, Late
<1> QED
  BY <1>1, <1>2, <1>8, <1>9

\* A backup stick is mounted read only.
LEMMA DiskRestore ==
  ASSUME DiskInv, handlerestore
  PROVE  DiskInv'
<1> USE DEF DiskInv
<1>0. /\ at = "restore" /\ at' \in {"restore", "congratulations"}
      /\ UNCHANGED <<machine, opts, hw, source, picked, todo, done>>
  BY DEF handlerestore
<1>1. Box' /\ DriveNames' = DriveNames /\ Hardware' = Hardware /\ harddisklist' = harddisklist
  BY <1>0 DEF Box, DriveNames, Hardware, harddisklist
<1>2. Listed' /\ Destined'
  BY <1>0, <1>1 DEF Listed, Destined, Drive
<1>3. written' = written
  BY DEF handlerestore, Emptied, Given
<1>4. mounted' \in {mounted, NoStick} \cup {test_backup_key(d) : d \in Sticks}
  BY DEF handlerestore
<1>5. mounted'.ro = TRUE
  BY <1>4 DEF Given, NoStick, test_backup_key
<1>6. Given'
  BY <1>0, <1>3, <1>5 DEF Given
<1>7. Stages'
  BY <1>0, <1>3 DEF Stages, Early, Asked, Late
<1> QED
  BY <1>1, <1>2, <1>6, <1>7

\* The installed system knows nothing of the installer.
LEMMA DiskBoot ==
  ASSUME DiskInv, Boot
  PROVE  DiskInv'
<1>1. machine'.drives = <<>> /\ OptionsOK(opts)' /\ at' = "up"
  BY DEF Boot, NoMachine, NoOptions, OptionsOK
<1>2. Box'
  BY <1>1 DEF Box
<1>3. Listed'
  <2>1. hw' = <<[type |-> "none", device |-> ""]>>
    BY DEF Boot, NoHardware
  <2>2. [type |-> "none", device |-> ""] \in Hardware'
    BY DEF Hardware
  <2>3. hw' \in Seq(Hardware')
    BY <2>1, <2>2, OneElement
  <2>4. Len(hw') = 1
    BY <2>1
  <2>5. \A i \in 1 .. Len(hw') : i = 1
    BY <2>4, SMT
  <2>6. hw'[1].device = ""
    BY <2>1
  <2>7. source' = None /\ None # ""
    BY DEF Boot, None
  <2> HIDE <2>1
  <2> QED
    BY <2>3, <2>5, <2>6, <2>7 DEF Listed
<1>4. Stages' /\ Destined'
  BY DEF Boot, Stages, Destined, Early, Asked, Late
<1>5. Given'
  BY DEF Boot, Given, NoStick, Range
<1> QED
  BY <1>2, <1>3, <1>4, <1>5 DEF DiskInv

\* Every step keeps the invariant.
LEMMA DiskStep ==
  ASSUME DiskInv, [Next]_<<vars, ivars>>
  PROVE  DiskInv'
<1>1. CASE Welcome \/ Rescan \/ MakeDone \/ SkipRestore \/ RunSetup \/ SetupEnded
  <2>1. UNCHANGED <<machine, opts, hw, source, picked, todo, done, mounted, written>>
    BY <1>1 DEF Welcome, Rescan, MakeDone, SkipRestore, RunSetup, SetupEnded
  <2>2. /\ at' # "make"
        /\ \/ at \in {"welcome", "rescan"} /\ at' \in {"scan", "exit"}
           \/ at \in {"make"} \cup Late /\ at' \in Late
    BY <1>1 DEF Welcome, Rescan, MakeDone, SkipRestore, RunSetup, SetupEnded, Late
  <2>3. Stages'
    BY <2>1, <2>2 DEF DiskInv, Stages, Early, Asked, Late
  <2> QED
    BY <2>1, <2>2, <2>3, DiskSame
<1>2. CASE UNCHANGED ivars
  BY <1>2, DiskSame DEF ivars, DiskInv, Stages
<1> QED
  BY <1>1, <1>2, DiskScan, DiskSource, DiskNetwork, DiskDestination, DiskTarget, DiskMake,
     DiskRestore, DiskBoot DEF Next

\* Only the disks that were chosen and confirmed are written to, never the
\* source and never a backup stick: whatever drives the machine has, whatever
\* it was booted from, whichever command of make_ipcop_disk fails.
THEOREM OnlyTheChosen == Spec => []OnlyChosenDisks
<1>1. DiskInv => OnlyChosenDisks
  <2> SUFFICES ASSUME DiskInv PROVE OnlyChosenDisks
    OBVIOUS
  <2>1. Range(picked) \subseteq harddisklist
    BY RangeOf DEF DiskInv, Destined
  <2> QED
    BY <2>1, DisksAreDrives DEF DiskInv, Given, Stages, Asked, OnlyChosenDisks
<1> QED
  BY <1>1, DiskInit, DiskStep, PTL DEF Spec

-----------------------------------------------------------------------------
(* What is on the disks *)

\* The commands without which a disk does not boot.
Needed ==
  (IF opts.parted THEN {} ELSE UNION {Partitioned(picked[i]) : i \in 1 .. Len(picked)})
  \cup (IF opts.nombr THEN {} ELSE {Op("mbr", picked[i]) : i \in 1 .. Len(picked)})
  \cup {Op("tar", Root), Op("mkinitramfs", Root), Op("extlinux", Root)}

\* The partitions fill what is divided, and the root partition has its minimum.
Sized(t) ==
  /\ t.layout.size \in Int /\ t.layout.root \in Int /\ t.layout.log \in Int /\ t.layout.swap \in Int
  /\ t.layout.root + t.layout.log = t.layout.size
  /\ t.medium = "flash" \/ t.layout.root >= ROOT_MINIMUM + t.layout.swap

\* A command that is needed has been done or is still to come, and one that has
\* been done did fit.
BootInv ==
  /\ at = "make" => Needed \subseteq done \cup Range(todo)
  /\ at \in Late => Needed \subseteq done
  /\ at \in {"make"} \cup Late => Sized(target)
  /\ at # "up" => \A c \in done : Fits(c)

\* make_partitions divides what there is.
LEMMA LayoutSizes ==
  ASSUME NEW medium, NEW n \in Int, n >= DISK_MINIMUM, NEW w \in Int
  PROVE  Sized([medium |-> medium, layout |-> Layout(medium, n, w)])
<1> USE DEF DISK_MINIMUM, ROOT_MINIMUM, ROOT_MAXIMUM, SWAP_MINIMUM, SWAP_MAXIMUM, LOGCOMPRESSED
<1> DEFINE t == [medium |-> medium, layout |-> Layout(medium, n, w)]
<1>1. CASE medium = "flash"
  <2>1. t.layout = [size |-> n - 1, swap |-> 0, root |-> n - 1 - LOGCOMPRESSED, log |-> LOGCOMPRESSED]
    BY <1>1 DEF Layout
  <2> QED
    BY <1>1, <2>1 DEF Sized
<1>2. CASE medium # "flash"
  <2> DEFINE size == n - 1
             free == size - ROOT_MINIMUM - (DISK_MINIMUM - ROOT_MINIMUM)
             asked == (w = 0 \/ w \in SWAP_MINIMUM .. SWAP_MAXIMUM) /\ ROOT_MINIMUM + w < size
             swap == IF asked THEN w ELSE Smaller(SWAP_MINIMUM + Quarter(free), SWAP_MAXIMUM)
             root == Smaller(ROOT_MINIMUM + Quarter(free), ROOT_MAXIMUM) + swap
  <2>1. t.layout = [size |-> size, swap |-> swap, root |-> root, log |-> size - root]
    BY <1>2 DEF Layout
  <2>2. free \in Int /\ free >= -1
    OBVIOUS
  <2>3. Quarter(free) \in Nat
    <3> HIDE DEF free
    <3>1. CASE free = -1
      BY <3>1 DEF Quarter
    <3>2. CASE free >= 0
      BY <2>2, <3>2 DEF Quarter
    <3> QED
      BY <2>2, <3>1, <3>2
  <2> HIDE DEF free
  <2>4. swap \in Int
    BY <2>3 DEF Smaller
  <2> HIDE DEF swap
  <2>5. root \in Int /\ root >= ROOT_MINIMUM + swap
    BY <2>3, <2>4 DEF Smaller
  <2> HIDE DEF root
  <2>6. size \in Int /\ root + (size - root) = size
    BY <2>5
  <2> HIDE DEF size
  <2> QED
    BY <2>1, <2>4, <2>5, <2>6 DEF Sized
<1> QED
  BY <1>1, <1>2

\* A disk that is chosen is a drive, and large enough.
LEMMA PickedDrives ==
  ASSUME DiskInv, NEW i \in 1 .. Len(picked)
  PROVE  Drive(picked[i]).size \in Nat /\ Drive(picked[i]).size >= DISK_MINIMUM
<1>1. picked[i] \in DriveNames
  BY DisksAreDrives DEF DiskInv, Destined
<1>2. PICK j \in 1 .. Len(machine.drives) : picked[i] = machine.drives[j].name
  BY <1>1 DEF DriveNames
<1>3. Drive(picked[i]) = machine.drives[j] /\ machine.drives[j] \in Drives
  BY <1>2, DriveIs DEF DiskInv, Box
<1> QED
  BY <1>3 DEF Drives, DiskInv, Destined

\* The size that is divided is at least the minimum.
LEMMA DiskSizes ==
  ASSUME DiskInv, Len(picked) \in {1, 2}
  PROVE  DiskSize \in Int /\ DiskSize >= DISK_MINIMUM
<1> DEFINE sizes == {Drive(d).size : d \in Range(picked)}
<1>1. \A x \in sizes : x \in Nat /\ x >= DISK_MINIMUM
  <2>1. Range(picked) = {picked[i] : i \in 1 .. Len(picked)}
    BY RangeOf DEF DiskInv, Destined
  <2> QED
    BY <2>1, PickedDrives
<1>2. \E x \in sizes : \A y \in sizes : x =< y
  <2>1. Range(picked) = {picked[i] : i \in 1 .. Len(picked)}
    BY RangeOf DEF DiskInv, Destined
  <2>2. CASE Len(picked) = 1
    <3>1. \A i \in 1 .. Len(picked) : i = 1
      BY <2>2, SMT
    <3>2. Range(picked) = {picked[1]}
      BY <2>1, <2>2, <3>1
    <3> QED
      BY <1>1, <3>2
  <2>3. CASE Len(picked) = 2
    <3>1. \A i \in 1 .. Len(picked) : i = 1 \/ i = 2
      BY <2>3, SMT
    <3>2. Range(picked) = {picked[1], picked[2]}
      BY <2>1, <2>3, <3>1
    <3>3. \A y \in sizes : y = Drive(picked[1]).size \/ y = Drive(picked[2]).size
      BY <3>2
    <3>4. Drive(picked[1]).size \in sizes /\ Drive(picked[2]).size \in sizes
      BY <3>2
    <3> HIDE DEF sizes
    <3> QED
      BY <1>1, <3>3, <3>4
  <2> QED
    BY <2>2, <2>3
<1>3. Min(sizes) \in sizes
  <2> HIDE DEF sizes
  <2> QED
    BY <1>2 DEF Min
<1>4. Min(sizes) \in Nat /\ Min(sizes) >= DISK_MINIMUM
  BY <1>1, <1>3
<1>5. DiskSize = IF opts.disksize >= DISK_MINIMUM THEN Smaller(opts.disksize, Min(sizes)) ELSE Min(sizes)
  BY DEF DiskSize
<1>6. opts.disksize \in Int
  BY DEF DiskInv, Box, OptionsOK
<1> HIDE DEF sizes
<1> QED
  BY <1>4, <1>5, <1>6 DEF Smaller, DISK_MINIMUM

\* The range of a concatenation.
LEMMA RangeJoined ==
  ASSUME NEW S, NEW s \in Seq(S), NEW t \in Seq(S)
  PROVE  Range(s) \subseteq Range(s \o t) /\ Range(t) \subseteq Range(s \o t)
<1>1. s \o t \in Seq(S) /\ Len(s \o t) = Len(s) + Len(t)
  OBVIOUS
<1>2. \A i \in 1 .. Len(s) : (s \o t)[i] = s[i]
  OBVIOUS
<1>3. \A i \in 1 .. Len(t) : (s \o t)[Len(s) + i] = t[i]
  OBVIOUS
<1>4. /\ Range(s) = {s[i] : i \in 1 .. Len(s)} /\ Range(t) = {t[i] : i \in 1 .. Len(t)}
      /\ Range(s \o t) = {(s \o t)[i] : i \in 1 .. Len(s \o t)}
  BY <1>1, RangeOf
<1>5. \A i \in 1 .. Len(s) : i \in 1 .. Len(s \o t)
  BY <1>1
<1>6. \A i \in 1 .. Len(t) : Len(s) + i \in 1 .. Len(s \o t)
  BY <1>1
<1> QED
  BY <1>2, <1>3, <1>4, <1>5, <1>6

\* make_ipcop_disk has every command that is needed.
LEMMA AllNeeded ==
  ASSUME NEW layout, picked \in Seq(harddisklist), Len(picked) \in {1, 2}
  PROVE  Needed \subseteq Range(make_ipcop_disk(layout))
<1> DEFINE C == Seq(Commands)
<1>0. /\ make_partitions \in C /\ make_disk(layout) \in C /\ make_bootable \in C
      /\ Each("mbr") \in C /\ \A d \in Range(picked) : disk_partition(d) \in C
      /\ <<Op("tar", Root)>> \in C /\ <<Op("mkinitramfs", Root)>> \in C /\ <<Op("extlinux", Root)>> \in C
      /\ Format \o If(source = "network", <<Op("wget", Root)>>) \in C
      /\ If(layout.swap # 0, <<Op("swapon", Root)>>) \in C
      /\ If(raid, <<Op("mdadm.conf", Root)>>) \in C /\ If(raid, <<Op("mdadm", "md")>>) \in C
  BY MadeOf
<1>1. \A o : Range(Each(o)) = {Op(o, picked[i]) : i \in 1 .. Len(picked)}
  BY DEF Each, Range
<1>2. \A x : x \in Range(<<x>>)
  BY DEF Range
<1> HIDE DEF C
<1>3. \A s, t \in C : s \o t \in C /\ Range(s) \subseteq Range(s \o t) /\ Range(t) \subseteq Range(s \o t)
  BY RangeJoined, Joined DEF C
<1>4. Op("tar", Root) \in Range(make_disk(layout))
  <2> DEFINE s == Format \o If(source = "network", <<Op("wget", Root)>>)
             t == s \o <<Op("tar", Root)>>
             u == t \o If(layout.swap # 0, <<Op("swapon", Root)>>)
  <2>0. make_disk(layout) = u \o If(raid, <<Op("mdadm.conf", Root)>>) /\ s \in C
    BY <1>0 DEF make_disk
  <2> HIDE DEF s
  <2>1. t \in C /\ Op("tar", Root) \in Range(t)
    BY <2>0, <1>0, <1>2, <1>3
  <2> HIDE DEF t
  <2>2. u \in C /\ Op("tar", Root) \in Range(u)
    BY <2>1, <1>0, <1>3
  <2> HIDE DEF u
  <2> QED
    BY <2>0, <2>2, <1>0, <1>3
<1>10. \A d \in Range(picked) : Partitioned(d) \subseteq Range(disk_partition(d))
  <2> SUFFICES ASSUME NEW d \in Range(picked) PROVE Partitioned(d) \subseteq Range(disk_partition(d))
    OBVIOUS
  <2> DEFINE s == <<Op("erase", d), Op("mklabel", d), Op("mkpart root", d), Op("mkpart log", d), Op("boot on", d)>>
             r == <<Op("raid on", d)>>
  <2>1. \A o \in {"erase", "mklabel", "mkpart root", "mkpart log", "boot on", "raid on"} : Op(o, d) \in Commands
    BY DEF Op, Commands
  <2>2. /\ s \in Seq(Commands)
        /\ Range(s) = {Op("erase", d), Op("mklabel", d), Op("mkpart root", d), Op("mkpart log", d), Op("boot on", d)}
    <3> DEFINE v == Op("erase", d)
               w == Op("mklabel", d)
               x == Op("mkpart root", d)
               y == Op("mkpart log", d)
               z == Op("boot on", d)
    <3>1. v \in Commands /\ w \in Commands /\ x \in Commands /\ y \in Commands /\ z \in Commands
      BY <2>1
    <3>2. s = <<v, w, x, y, z>>
      OBVIOUS
    <3> HIDE DEF s, v, w, x, y, z
    <3>3. s \in Seq(Commands) /\ Range(s) = {v, w, x, y, z}
      BY <3>1, <3>2, FiveElements
    <3> QED
      BY <3>3 DEF v, w, x, y, z
  <2>0. r \in Seq(Commands) /\ Op("raid on", d) \in Range(r)
    <3>1. Op("raid on", d) \in Commands
      BY <2>1
    <3>2. <<Op("raid on", d)>> \in Seq(Commands)
      BY <3>1, OneElement
    <3>3. Op("raid on", d) \in Range(<<Op("raid on", d)>>)
      BY <1>2
    <3> QED
      BY <3>2, <3>3 DEF r
  <2> HIDE DEF r
  <2>7. /\ raid => If(raid, r) = r
        /\ ~raid => If(raid, r) = <<>>
    <3>1. raid \in BOOLEAN
      BY DEF raid
    <3> QED
      BY <3>1 DEF If
  <2>8. <<>> \in Seq(Commands)
    OBVIOUS
  <2>3. If(raid, r) \in Seq(Commands)
    BY <2>0, <2>7, <2>8 DEF raid
  <2>4. raid => Op("raid on", d) \in Range(If(raid, r))
    BY <2>0, <2>7 DEF raid
  <2> HIDE DEF s
  <2>5. disk_partition(d) = s \o If(raid, r)
    BY DEF disk_partition, s, r
  <2>6. /\ Range(s) \subseteq Range(disk_partition(d))
        /\ Range(If(raid, r)) \subseteq Range(disk_partition(d))
    BY <1>3, <2>2, <2>3, <2>5 DEF C
  <2> QED
    BY <2>2, <2>4, <2>6 DEF Partitioned
<1>11. picked[1] \in Range(picked) /\ (raid => picked[2] \in Range(picked))
  BY RangeOf DEF raid
<1>12. ~opts.parted => \A i \in 1 .. Len(picked) : Range(disk_partition(picked[i])) \subseteq Range(make_partitions)
  <2> SUFFICES ASSUME ~opts.parted
               PROVE  \A i \in 1 .. Len(picked) : Range(disk_partition(picked[i])) \subseteq Range(make_partitions)
    OBVIOUS
  <2> DEFINE s == disk_partition(picked[1])
             u == disk_partition(picked[2])
             t == If(raid, u \o <<Op("mdadm", "md")>>)
  <2>1. s \in C
    BY <1>0, <1>11
  <2>2. make_partitions = s \o t
    BY DEF make_partitions, If
  <2>3. t \in C /\ (raid => Range(u) \subseteq Range(t))
    <3>1. CASE raid
      <4>1. u \in C /\ <<Op("mdadm", "md")>> \in C
        BY <1>0, <1>11, <3>1 DEF If
      <4>2. t = u \o <<Op("mdadm", "md")>>
        BY <3>1 DEF If
      <4> QED
        BY <1>3, <4>1, <4>2
    <3>2. CASE ~raid
      BY <1>0, <3>2 DEF If
    <3> QED
      BY <3>1, <3>2
  <2> HIDE DEF s, t, u
  <2>4. Range(s) \subseteq Range(make_partitions) /\ Range(t) \subseteq Range(make_partitions)
    BY <1>3, <2>1, <2>2, <2>3
  <2>5. \A i \in 1 .. Len(picked) : i = 1 \/ (i = 2 /\ raid)
    <3>1. CASE Len(picked) = 1
      BY <3>1
    <3>2. CASE Len(picked) = 2
      BY <3>2 DEF raid
    <3> QED
      BY <3>1, <3>2
  <2> QED
    BY <2>3, <2>4, <2>5 DEF s, u
<1>5. ~opts.parted => UNION {Partitioned(picked[i]) : i \in 1 .. Len(picked)} \subseteq Range(make_partitions)
  <2>1. \A i \in 1 .. Len(picked) : picked[i] \in Range(picked)
    BY RangeOf
  <2> QED
    BY <1>10, <1>12, <2>1
<1>6. ~opts.nombr => Range(Each("mbr")) \subseteq Range(make_bootable)
  <2> SUFFICES ASSUME ~opts.nombr PROVE Range(Each("mbr")) \subseteq Range(make_bootable)
    OBVIOUS
  <2>1. make_bootable = <<Op("extlinux", Root)>> \o Each("mbr")
    BY DEF make_bootable, If, Mbr
  <2> QED
    BY <2>1, <1>0, <1>3
<1>7. Op("extlinux", Root) \in Range(make_bootable)
  <2>1. If(~opts.nombr, Mbr) \in C
    BY <1>0 DEF If, Mbr, C
  <2> QED
    BY <2>1, <1>0, <1>2, <1>3 DEF make_bootable
<1>8. \A r \in {make_partitions, make_disk(layout), <<Op("mkinitramfs", Root)>>, make_bootable} :
        Range(r) \subseteq Range(make_ipcop_disk(layout))
  <2> DEFINE s == make_partitions \o make_disk(layout)
             t == s \o <<Op("mkinitramfs", Root)>>
  <2>0. make_ipcop_disk(layout) = t \o make_bootable
    BY DEF make_ipcop_disk
  <2>1. s \in C /\ Range(make_partitions) \subseteq Range(s) /\ Range(make_disk(layout)) \subseteq Range(s)
    BY <1>0, <1>3
  <2> HIDE DEF s
  <2>2. t \in C /\ Range(s) \subseteq Range(t) /\ Range(<<Op("mkinitramfs", Root)>>) \subseteq Range(t)
    BY <2>1, <1>0, <1>3
  <2> HIDE DEF t
  <2>3. Range(t) \subseteq Range(t \o make_bootable) /\ Range(make_bootable) \subseteq Range(t \o make_bootable)
    BY <2>2, <1>0, <1>3
  <2> QED
    BY <2>0, <2>1, <2>2, <2>3
<1>9. Op("mkinitramfs", Root) \in Range(<<Op("mkinitramfs", Root)>>)
  BY <1>2
<1> QED
  BY <1>1, <1>4, <1>5, <1>6, <1>7, <1>8, <1>9 DEF Needed

\* Initially nothing is done.
LEMMA BootInit == Init => BootInv
BY DEF Init, BootInv, Late

\* A step that only moves on.
LEMMA BootSame ==
  ASSUME BootInv, UNCHANGED <<machine, opts, picked, target, todo, done>>,
         at' = at \/ (at' \notin {"make", "up"} \cup Late /\ at # "up") \/ (at \in Late /\ at' \in Late)
  PROVE  BootInv'
<1>1. Needed' = Needed /\ Sized(target)' = Sized(target) /\ \A c : Fits(c)' = Fits(c)
  BY DEF Needed, Partitioned, Root, raid, Sized, Fits, Drive
<1>2. at' \in Late => at \in Late
  BY DEF Late
<1>3. (at' = "make" => at = "make") /\ (at' # "up" => at # "up")
  BY DEF Late
<1> QED
  BY <1>1, <1>2, <1>3 DEF BootInv

\* A command that is done leaves the list of those to do.
LEMMA BootMake ==
  ASSUME DiskInv, BootInv, MakeStep
  PROVE  BootInv'
<1>0. /\ at = "make" /\ at' \in {"make", "exit"} /\ todo # <<>>
      /\ UNCHANGED <<machine, opts, picked, target>>
  BY DEF MakeStep
<1>1. Needed' = Needed /\ Sized(target)' = Sized(target) /\ \A c : Fits(c)' = Fits(c)
  BY <1>0 DEF Needed, Partitioned, Root, raid, Sized, Fits, Drive
<1>2. CASE at' = "exit"
  BY <1>0, <1>1, <1>2 DEF MakeStep, BootInv, Late
<1>3. CASE at' = "make"
  <2>1. Fits(Head(todo)) /\ done' = done \cup {Head(todo)} /\ todo' = Tail(todo)
    BY <1>3 DEF MakeStep
  <2>2. todo \in Seq(Commands)
    BY <1>0 DEF DiskInv, Given
  <2>3. Range(todo) \subseteq {Head(todo)} \cup Range(Tail(todo))
    <3>1. Tail(todo) \in Seq(Commands) /\ Len(Tail(todo)) = Len(todo) - 1 /\ Head(todo) = todo[1]
      BY <1>0, <2>2
    <3>2. \A i \in 1 .. Len(todo) : i = 1 \/ (i - 1 \in 1 .. Len(Tail(todo)) /\ todo[i] = Tail(todo)[i - 1])
      BY <1>0, <2>2
    <3>3. Range(todo) = {todo[i] : i \in 1 .. Len(todo)}
      BY <2>2, RangeOf
    <3>4. Range(Tail(todo)) = {Tail(todo)[i] : i \in 1 .. Len(Tail(todo))}
      BY <3>1, RangeOf
    <3> QED
      BY <3>1, <3>2, <3>3, <3>4
  <2>4. Needed' \subseteq done' \cup Range(todo')
    BY <1>0, <1>1, <2>1, <2>3 DEF BootInv
  <2> QED
    BY <1>0, <1>1, <1>3, <2>1, <2>4 DEF BootInv, Late
<1> QED
  BY <1>0, <1>2, <1>3

\* The commands are made for what was chosen.
LEMMA BootTarget ==
  ASSUME DiskInv, BootInv, selecttarget
  PROVE  BootInv'
<1>0. /\ at = "target" /\ UNCHANGED <<machine, opts, done>> /\ done = {} /\ Len(picked) \in {1, 2}
      /\ picked \in Seq(harddisklist)
  BY DEF selecttarget, DiskInv, Stages, Asked, Destined
<1>1. CASE at' = "disk"
  BY <1>0, <1>1 DEF BootInv, Late
<1>2. ASSUME NEW medium, at' = "make", picked' = picked, hw' = hw,
             target' = [medium |-> medium, layout |-> Layout(medium, DiskSize, opts.swapfilesize)],
             todo' = make_ipcop_disk(Layout(medium, DiskSize, opts.swapfilesize))
      PROVE  BootInv'
  <2>1. Needed' = Needed
    BY <1>0, <1>2 DEF Needed, Partitioned, Root, raid
  <2>2. Needed \subseteq Range(todo')
    BY <1>0, <1>2, AllNeeded
  <2>3. Sized(target')
    BY <1>0, <1>2, DiskSizes, LayoutSizes DEF DiskInv, Box, OptionsOK
  <2> QED
    BY <1>0, <1>2, <2>1, <2>2, <2>3 DEF BootInv, Late, Sized
<1> QED
  BY <1>1, <1>2 DEF selecttarget

\* Every step keeps the invariant.
LEMMA BootStep ==
  ASSUME DiskInv, BootInv, [Next]_<<vars, ivars>>
  PROVE  BootInv'
<1>1. CASE Welcome \/ Rescan \/ SkipRestore \/ RunSetup \/ SetupEnded
  BY <1>1, BootSame DEF Welcome, Rescan, SkipRestore, RunSetup, SetupEnded, Late
<1>2. CASE UNCHANGED ivars
  BY <1>2, BootSame DEF ivars
<1>3. CASE scan_hardware \/ findsource \/ source_network
  <2>1. UNCHANGED <<machine, opts, picked, target, todo, done>>
    BY <1>3 DEF scan_hardware, findsource, source_network
  <2>2. at \in Early /\ at' \in Early \cup {"disk", "exit"}
    BY <1>3 DEF scan_hardware, findsource, source_network, Early
  <2> QED
    BY <2>1, <2>2, BootSame DEF Early, Late
<1>4. CASE selectdestination
  <2>1. at \in Asked /\ at' \in Asked \cup {"crashed", "exit"} /\ done = {} /\ done' = {}
    BY <1>4 DEF selectdestination, Choose, Asked, DiskInv, Stages
  <2> QED
    BY <2>1 DEF BootInv, Late, Asked
<1>5. CASE handlerestore
  BY <1>5, BootSame DEF handlerestore, Late
<1>6. CASE MakeDone
  <2>1. at = "make" /\ at' = "restore" /\ todo = <<>> /\ UNCHANGED <<machine, opts, picked, target, todo, done>>
    BY <1>6 DEF MakeDone
  <2>2. Range(todo) = {}
    BY <2>1 DEF Range
  <2>3. Needed' = Needed /\ Sized(target)' = Sized(target) /\ \A c : Fits(c)' = Fits(c)
    BY <2>1 DEF Needed, Partitioned, Root, raid, Sized, Fits, Drive
  <2> QED
    BY <2>1, <2>2, <2>3 DEF BootInv, Late
<1>7. CASE Boot
  BY <1>7 DEF Boot, BootInv, Late
<1> QED
  BY <1>1, <1>2, <1>3, <1>4, <1>5, <1>6, <1>7, BootMake, BootTarget DEF Next

\* When the installer congratulates, every disk that was chosen can be booted
\* and holds the system, for every machine, size of the disks and option of the
\* kernel command line: make_ipcop_disk stops at the first command that fails,
\* and make_partitions never asks for more than the smallest disk has.
THEOREM DisksBootable == Spec => [](at = "done" => Bootable)
<1>1. DiskInv /\ BootInv => (at = "done" => Bootable)
  <2> SUFFICES ASSUME DiskInv, BootInv, at = "done" PROVE Bootable
    OBVIOUS
  <2>1. Needed \subseteq done /\ Sized(target) /\ \A c \in done : Fits(c)
    BY DEF BootInv, Late
  <2>2. Range(picked) = {picked[i] : i \in 1 .. Len(picked)} /\ Len(picked) \in {1, 2}
    BY RangeOf DEF DiskInv, Destined, Stages, Late
  <2>3. \A d \in Range(picked) :
          (opts.parted \/ Partitioned(d) \subseteq done) /\ (opts.nombr \/ Op("mbr", d) \in done)
    BY <2>1, <2>2 DEF Needed
  <2>4. \A d : /\ Op("mkpart log", d).op = "mkpart log" /\ Op("mkpart log", d).dev = d
               /\ Op("mkpart log", d) \in Partitioned(d)
    BY DEF Op, Partitioned
  <2>5. \A d \in Range(picked) : opts.parted \/ (target.layout.log > 1 /\ target.layout.size <= Drive(d).size)
    BY <2>1, <2>3, <2>4 DEF Fits
  <2>6. picked[1] \in Range(picked)
    BY <2>2
  <2>7. /\ Root \in Range(picked) \cup {"md"}
        /\ {Op("tar", Root), Op("mkinitramfs", Root), Op("extlinux", Root)} \subseteq done
    BY <2>1, <2>6 DEF Root, Needed
  <2>8. \A d \in Range(picked) : Drive(d).size \in Nat
    BY <2>2, PickedDrives
  <2>9. \A d \in Range(picked) : opts.parted \/ target.layout.root + target.layout.log <= Drive(d).size
    BY <2>1, <2>5, <2>8 DEF Sized
  <2>10. target.layout.log > 0 \/ opts.parted
    BY <2>1, <2>5, <2>6 DEF Sized
  <2>11. target.layout.root >= ROOT_MINIMUM + target.layout.swap \/ target.medium = "flash"
    BY <2>1 DEF Sized
  <2>12. Len(picked) = 2 => picked[1] # picked[2]
    BY DEF DiskInv, Destined
  <2> QED
    BY <2>3, <2>7, <2>9, <2>10, <2>11, <2>12 DEF Bootable
<1> QED
  BY <1>1, DiskInit, DiskStep, BootInit, BootStep, PTL DEF Spec

-----------------------------------------------------------------------------
(* The colours *)

Kinds    == RedTypes \cup {"", "ANALOG"}
Settings == [type: Kinds, count: [Colours -> {0, 1}], dev: [Colours -> {"", "now", "own"}],
             addr: [Colours -> {NoAddress} \cup UNION {Addresses[k] : k \in Colours}]]
Memory   == [scanned: BOOLEAN, list: [Cards -> Colours \cup {"absent", "NONE"}], kv: Settings,
             red: Kinds, changed: BOOLEAN, typed: {None, "not a domain"}, torn: BOOLEAN]
NetRules == [Cards -> Colours \cup {"", "NONE"}]

SetupTypes ==
  /\ proc \in Memory /\ eth \in Settings /\ rules \in NetRules /\ names \in NetRules
  /\ plugged \subseteq Cards /\ lost \subseteq Colours

\* A colour is given once.
Once(f) == \A c, d \in Cards : f[c] = f[d] /\ f[c] \in Colours => c = d

\* No colour is given twice, in the list, in the rules or by the kernel, and
\* none to a card that is not there unless the colour is lost.
CardsOnce ==
  /\ Once(rules) /\ Once(names) /\ Once(proc.list)
  /\ \A c \in Cards : proc.list[c] # "absent" => c \in plugged
  /\ \A c \in Cards : rules[c] \in Colours \ lost => c \in plugged

\* The open dialogs, counted from the one setup was started with.
Under(i) == dialogs[Len(dialogs) - i]
Sections == {"keymap", "timezone", "hostname", "domain", "networking", "passwords"}
Lines    == {"isdn", "dns", "dhcphost"}
Titles   == AllColours \cup Sections \cup Lines \cup
            {"menu", "network", "type", "select", "cards", "write", "dhcp", "root", "admin", "backup"}

Menu ==                                      \* the menu of setup
  /\ mode = "setup" /\ Len(dialogs) \in {1, 2}
  /\ Under(0) = "menu"
  /\ Len(dialogs) = 2 => dialogs[1] \in Sections
Network ==                                   \* its network menu
  /\ mode = "setup" /\ Len(dialogs) \in {2, 3, 4}
  /\ Under(0) = "menu" /\ Under(1) = "network"
  /\ Len(dialogs) = 3 => dialogs[1] \in Lines \cup {"type", "select", "cards"}
  /\ Len(dialogs) = 4 => dialogs[1] \in Colours /\ dialogs[2] = "select"
Before ==                                    \* the installation, up to the network
  /\ mode = "chroot" /\ Len(dialogs) \in {4, 5, 6, 7}
  /\ Under(0) = "backup" /\ Under(1) = "admin" /\ Under(2) = "root" /\ Under(3) = "networking"
  /\ Len(dialogs) >= 5 => Under(4) = "domain"
  /\ Len(dialogs) >= 6 => Under(5) = "hostname"
  /\ Len(dialogs) >= 7 => Under(6) = "keymap"
During ==                                    \* its network
  /\ mode = "chroot" /\ Len(dialogs) >= 5
  /\ Under(0) = "backup" /\ Under(1) = "admin" /\ Under(2) = "root" /\ Under(3) = "dhcp" /\ Under(4) = "write"
  /\ \/ \A i \in 1 .. Len(dialogs) - 5 : dialogs[i] \in Colours \cup Lines
     \/ Len(dialogs) = 6 /\ dialogs[1] \in {"type", "cards"}
After ==                                     \* the rest of it
  /\ mode = "chroot" /\ Len(dialogs) \in {1, 2, 3, 4}
  /\ Under(0) = "backup"
  /\ Len(dialogs) >= 2 => Under(1) = "admin"
  /\ Len(dialogs) >= 3 => Under(2) = "root"
  /\ Len(dialogs) >= 4 => Under(3) = "dhcp"

\* Where setup is. It ends in the menu, or with the last password.
Shape ==
  /\ dialogs \in Seq(Titles)
  /\ \/ mode = "off" /\ dialogs = <<>> /\ proc = Idle
     \/ Menu \/ Network \/ Before \/ During \/ After
  /\ mode = "setup" => at = "up"
  /\ mode = "chroot" => at = "setup"
  /\ at = "setup" => ~restored

\* The settings are not written yet; the dialogs that change them are open;
\* they are written.
NotYet == Before \/ (mode = "off" /\ (at \notin {"setup", "done", "up"} \/ (at = "done" /\ restored)))
Open   == Network \/ During
Quiet  == Menu \/ After \/ (mode = "off" /\ ~NotYet)

\* GREEN is counted, and RED if it is a card.
Counted(kv) == kv.count["GREEN"] = 1 /\ (kv.type \notin Modem => kv.count["RED"] = 1)

\* Colour k is named in the settings and is the name of a card.
Named(kv, k) == kv.dev[k] = "own" /\ \E c \in Cards : rules[c] = k

\* Settings kv agree with the rules, and with the list in memory: a colour that
\* is counted or in the list is named, unless it is lost.
Agrees(kv)   == \A k \in Colours \ lost : kv.count[k] = 1 => Named(kv, k)
InRules(kv)  == \A k \in Colours \ lost : Has(proc, k) => Named(kv, k)
InCounts(kv) ==
  /\ \A k \in Colours \ {"RED"} : Has(proc, k) => kv.count[k] = 1
  /\ Has(proc, "RED") /\ kv.type \notin Modem => kv.count["RED"] = 1
  /\ Has(proc, "RED") => \/ kv.count["RED"] = 1
                         \/ "RED" \in lost
                         \/ \E c \in Cards \ Dead : proc.list[c] = "RED"

\* The card list is open, or is opened next: what is counted is not settled.
Choosing == Head(dialogs) = "cards" \/ (mode = "chroot" /\ Head(dialogs) = "type")

Edited ==
  /\ proc.red = proc.kv.type
  /\ InCounts(proc.kv)
  /\ ~proc.changed => proc.kv = eth /\ ~proc.torn
  /\ Choosing => proc.changed \/ (Agrees(proc.kv) /\ InRules(proc.kv))
  /\ ~Choosing => Counted(proc.kv) /\ Agrees(proc.kv) /\ InRules(proc.kv)
  /\ mode = "setup" => Counted(eth) /\ (proc.torn \/ Agrees(eth))

\* What holds in the three phases.
Blank   == eth = Fresh /\ ~proc.scanned /\ ~proc.torn /\ proc.list = Idle.list
Settled == ~proc.torn /\ Counted(eth) /\ Agrees(eth) /\ InRules(eth) /\ InCounts(eth)
Phased  == (NotYet => Blank) /\ (Quiet => Settled) /\ (Open => Edited)

Whole   == SetupTypes /\ CardsOnce /\ Shape /\ Phased
CardInv == died \/ Whole

-----------------------------------------------------------------------------
\* What SMT needs to know of the names of dialogs.
LEMMA ColourNames ==
  /\ Colours \subseteq {"GREEN", "RED", "BLUE", "ORANGE"}
  /\ "GREEN" \in Colours /\ "RED" \in Colours
BY SetupAssumption DEF SetupAssumption, AllColours

\* The dialog on the screen is the first, and the others move up.
LEMMA Popping ==
  ASSUME Shape, mode # "off", Close
  PROVE  /\ dialogs \in Seq(Titles) /\ Len(dialogs) \in Nat \ {0} /\ Head(dialogs) = dialogs[1]
         /\ dialogs' \in Seq(Titles) /\ Len(dialogs') = Len(dialogs) - 1
         /\ \A i \in 1 .. Len(dialogs) - 1 : dialogs'[i] = dialogs[i + 1]
         /\ Len(dialogs) > 1 => mode' = mode /\ Head(dialogs') = dialogs[2]
         /\ Len(dialogs) = 1 => mode' = "off" /\ dialogs' = <<>>
  <1>0. dialogs \in Seq(Titles) /\ Len(dialogs) \in Nat
    BY DEF Shape
  <1>1. dialogs \in Seq(Titles) /\ Len(dialogs) \in Nat \ {0}
    <2>1. Menu \/ Network => Len(dialogs) # 0
      BY DEF Menu, Network
    <2>2. Before \/ After => Len(dialogs) # 0
      BY DEF Before, After
    <2>3. During => Len(dialogs) # 0
      BY DEF During
    <2> QED BY <1>0, <2>1, <2>2, <2>3 DEF Shape
  <1>2. dialogs' = Tail(dialogs)
    BY <1>1 DEF Close, Then
  <1>3. dialogs' \in Seq(Titles) /\ Len(dialogs') = Len(dialogs) - 1
        /\ \A i \in 1 .. Len(dialogs) - 1 : dialogs'[i] = dialogs[i + 1]
    BY <1>1, <1>2
  <1>4. dialogs' = <<>> <=> Len(dialogs) = 1
    BY <1>1, <1>3
  <1>5. mode' = IF dialogs' = <<>> THEN "off" ELSE mode
    BY DEF Close, Then
  <1>6. Head(dialogs) = dialogs[1]
    BY <1>1
  <1>7. Len(dialogs) > 1 => Head(dialogs') = dialogs[2]
    BY <1>1, <1>3
  <1> QED BY <1>1, <1>3, <1>4, <1>5, <1>6, <1>7

\* Where closing the dialog on the screen leads.
LEMMA Popped ==
  ASSUME Shape, mode # "off", Close
  PROVE  /\ dialogs' \in Seq(Titles)
         /\ Head(dialogs) \in Sections \ {"networking"} => (Menu /\ Menu') \/ (Before /\ Before')
         /\ Head(dialogs) \in Colours \cup Lines \cup {"select"} =>
              Open /\ ~Choosing /\ Open' /\ ~Choosing' /\ mode' = mode
         /\ Head(dialogs) \in {"network", "write"} => Open /\ ~Choosing /\ (Menu' \/ After')
         /\ Head(dialogs) \in {"dhcp", "root", "admin", "backup"} =>
              After /\ (After' \/ (mode' = "off" /\ dialogs' = <<>>))
  <1> USE ColourNames
  <1>0. /\ dialogs \in Seq(Titles) /\ Len(dialogs) \in Nat \ {0} /\ Head(dialogs) = dialogs[1]
        /\ dialogs' \in Seq(Titles) /\ Len(dialogs') = Len(dialogs) - 1
        /\ \A i \in 1 .. Len(dialogs) - 1 : dialogs'[i] = dialogs[i + 1]
        /\ Len(dialogs) > 1 => mode' = mode /\ Head(dialogs') = dialogs[2]
        /\ Len(dialogs) = 1 => mode' = "off" /\ dialogs' = <<>>
    BY Popping
  <1> USE <1>0
  <1>1. CASE Menu
    <2>1. Head(dialogs) \in Sections \cup {"menu"}
      BY <1>1 DEF Menu, Under
    <2>2. Len(dialogs) = 2 => Menu'
      BY <1>1 DEF Menu, Under
    <2> QED BY <1>1, <2>1, <2>2 DEF Menu, Under, Sections, Lines
  <1>2. CASE Network
    <2>1. Len(dialogs) = 2 => Head(dialogs) = "network" /\ Menu'
      BY <1>2 DEF Network, Menu, Under
    <2>2. Len(dialogs) = 3 =>
            /\ Head(dialogs) \in Lines \cup {"type", "select", "cards"}
            /\ Network' /\ Head(dialogs') = "network" /\ mode' = mode
      BY <1>2 DEF Network, Under
    <2>3. Len(dialogs) = 4 => Head(dialogs) \in Colours /\ Network' /\ Head(dialogs') = "select" /\ mode' = mode
      BY <1>2 DEF Network, Under
    <2> QED BY <1>2, <2>1, <2>2, <2>3 DEF Network, Open, Choosing, Sections, Lines
  <1>3. CASE Before
    <2>1. CASE Len(dialogs) = 4
      <3>1. Head(dialogs) = "networking"
        BY <1>3, <2>1 DEF Before, Under
      <3> QED BY <3>1 DEF Sections, Lines
    <2>2. CASE Len(dialogs) = 5
      <3>1. Head(dialogs) = "domain" /\ Before'
        BY <1>3, <2>2 DEF Before, Under
      <3> QED BY <1>3, <3>1 DEF Sections, Lines
    <2>3. CASE Len(dialogs) = 6
      <3>1. Head(dialogs) = "hostname" /\ Before'
        BY <1>3, <2>3 DEF Before, Under
      <3> QED BY <1>3, <3>1 DEF Sections, Lines
    <2>4. CASE Len(dialogs) = 7
      <3>1. Head(dialogs) = "keymap" /\ Before'
        BY <1>3, <2>4 DEF Before, Under
      <3> QED BY <1>3, <3>1 DEF Sections, Lines
    <2> QED BY <1>3, <2>1, <2>2, <2>3, <2>4 DEF Before
  <1>4. CASE During
    <2>1. Len(dialogs) = 5 => Head(dialogs) = "write" /\ After'
      BY <1>4 DEF During, After, Under
    <2>2. CASE Len(dialogs) > 5 /\ Head(dialogs) \notin {"type", "cards"}
      <3>1. Head(dialogs) \in Colours \cup Lines
        BY <1>4, <2>2 DEF During
      <3>2. mode' = "chroot" /\ Len(dialogs') >= 5
        BY <1>4, <2>2 DEF During
      <3>3. \A j \in 0 .. 4 : Len(dialogs') - j \in 1 .. Len(dialogs) - 1 /\ Len(dialogs') - j + 1 = Len(dialogs) - j
        BY <2>2
      <3>4. \A j \in 0 .. 4 : dialogs'[Len(dialogs') - j] = dialogs[Len(dialogs) - j]
        BY <3>3
      <3>5. /\ Under(0)' = Under(0) /\ Under(1)' = Under(1) /\ Under(2)' = Under(2)
            /\ Under(3)' = Under(3) /\ Under(4)' = Under(4)
        BY <3>4 DEF Under
      <3>6. Under(0)' = "backup" /\ Under(1)' = "admin" /\ Under(2)' = "root"
            /\ Under(3)' = "dhcp" /\ Under(4)' = "write"
        BY <1>4, <3>5 DEF During
      <3>7. \A i \in 1 .. Len(dialogs') - 5 : dialogs'[i] \in Colours \cup Lines
        BY <1>4, <2>2 DEF During
      <3>8. During'
        BY <3>2, <3>6, <3>7 DEF During
      <3>9. Head(dialogs') \notin {"type", "cards"}
        <4>1. CASE Len(dialogs) = 6
          BY <1>4, <4>1 DEF During, Under
        <4>2. CASE Len(dialogs) > 6
          BY <1>4, <2>2, <4>2 DEF During, Lines
        <4> QED BY <2>2, <4>1, <4>2
      <3> QED BY <1>4, <2>2, <3>2, <3>1, <3>8, <3>9 DEF Open, Choosing, Sections, Lines, During
    <2> QED BY <1>4, <2>1, <2>2 DEF During, Open, Choosing, Sections, Lines
  <1>5. CASE After
    <2>1. Head(dialogs) \in {"dhcp", "root", "admin", "backup"}
      BY <1>5 DEF After, Under
    <2>2. Len(dialogs) > 1 => After'
      BY <1>5 DEF After, Under
    <2> QED BY <1>5, <2>1, <2>2 DEF After, Sections, Lines
  <1> QED BY <1>1, <1>2, <1>3, <1>4, <1>5 DEF Shape

\* Which dialogs are open when d is on the screen.
LEMMA OnWhich ==
  ASSUME Shape, NEW d, On(d)
  PROVE  /\ mode # "off" /\ dialogs \in Seq(Titles) /\ Len(dialogs) \in Nat \ {0} /\ d = dialogs[1]
         /\ d = "menu" => Menu /\ Len(dialogs) = 1
         /\ d = "networking" => (Menu /\ Len(dialogs) = 2) \/ (Before /\ Len(dialogs) = 4)
         /\ d \in {"type", "cards"} => (Network /\ Len(dialogs) = 3) \/ (During /\ Len(dialogs) = 6)
         /\ d = "select" => Network /\ Len(dialogs) = 3
         /\ d = "network" => Network /\ Len(dialogs) = 2
         /\ d = "write" => During
  <1> USE ColourNames
  <1>1. mode # "off" /\ Head(dialogs) = d
    BY DEF On
  <1>2. dialogs \in Seq(Titles) /\ Len(dialogs) \in Nat
    BY DEF Shape
  <1>3. CASE Menu
    BY <1>1, <1>2, <1>3 DEF Menu, Under, Sections
  <1>4. CASE Network
    <2>1. Len(dialogs) = 2 => d = "network"
      BY <1>1, <1>2, <1>4 DEF Network, Under
    <2> QED BY <1>1, <1>2, <1>4, <2>1 DEF Network, Lines
  <1>5. CASE Before
    <2>1. Len(dialogs) = 4 => d = "networking"
      BY <1>1, <1>2, <1>5 DEF Before, Under
    <2>2. Len(dialogs) = 5 => d = "domain"
      BY <1>1, <1>2, <1>5 DEF Before, Under
    <2>3. Len(dialogs) = 6 => d = "hostname"
      BY <1>1, <1>2, <1>5 DEF Before, Under
    <2>4. Len(dialogs) = 7 => d = "keymap"
      BY <1>1, <1>2, <1>5 DEF Before, Under
    <2> QED BY <1>1, <1>2, <1>5, <2>1, <2>2, <2>3, <2>4 DEF Before
  <1>6. CASE During
    <2>1. Len(dialogs) = 5 => d = "write"
      BY <1>1, <1>2, <1>6 DEF During, Under
    <2>2. Len(dialogs) > 5 => d \in Colours \cup Lines \/ (Len(dialogs) = 6 /\ d \in {"type", "cards"})
      BY <1>1, <1>2, <1>6 DEF During
    <2>3. d \notin {"menu", "networking", "select", "network"} /\ (d \in {"type", "cards"} => Len(dialogs) = 6)
      <3>0. Len(dialogs) >= 5
        BY <1>6 DEF During
      <3>1. Len(dialogs) = 5 \/ Len(dialogs) > 5
        <4> HIDE ColourNames
        <4>1. \A n \in Nat : n >= 5 => n = 5 \/ n > 5
          OBVIOUS
        <4> QED BY <1>2, <3>0, <4>1
      <3>2. CASE Len(dialogs) = 5
        BY <2>1, <3>2
      <3>3. CASE Len(dialogs) > 5
        BY <2>2, <3>3 DEF Lines
      <3> QED BY <3>1, <3>2, <3>3
    <2>4. Len(dialogs) \in Nat \ {0}
      BY <1>2, <1>6 DEF During
    <2>5. d = dialogs[1]
      BY <1>1, <1>2, <2>4
    <2> QED BY <1>1, <1>2, <1>6, <2>3, <2>4, <2>5
  <1>7. CASE After
    <2>1. d \in {"dhcp", "root", "admin", "backup"}
      BY <1>1, <1>2, <1>7 DEF After, Under
    <2> QED BY <1>1, <1>2, <1>7, <2>1 DEF After
  <1> QED BY <1>1, <1>3, <1>4, <1>5, <1>6, <1>7 DEF Shape

\* The dialog on the screen is replaced by some others.
LEMMA Pushing ==
  ASSUME Shape, NEW d, On(d), NEW ds \in Seq(Titles), ds # <<>>, Then(ds)
  PROVE  /\ dialogs' \in Seq(Titles) /\ mode' = mode
         /\ Len(ds) \in Nat \ {0}
         /\ Len(dialogs') = Len(ds) + Len(dialogs) - 1
         /\ \A i \in 1 .. Len(ds) : dialogs'[i] = ds[i]
         /\ \A i \in 1 .. Len(dialogs) - 1 : dialogs'[Len(ds) + i] = dialogs[i + 1]
         /\ Head(dialogs') = ds[1]
  <1>1. dialogs \in Seq(Titles) /\ Len(dialogs) \in Nat \ {0}
    BY OnWhich
  <1>2. Len(ds) \in Nat \ {0}
    OBVIOUS
  <1>3. Tail(dialogs) \in Seq(Titles) /\ Len(Tail(dialogs)) = Len(dialogs) - 1
        /\ \A i \in 1 .. Len(dialogs) - 1 : Tail(dialogs)[i] = dialogs[i + 1]
    BY <1>1
  <1>4. dialogs' = ds \o Tail(dialogs)
    BY DEF Then
  <1> HIDE DEF Then
  <1>5. dialogs' \in Seq(Titles) /\ Len(dialogs') = Len(ds) + Len(dialogs) - 1
    BY <1>1, <1>2, <1>3, <1>4
  <1>6. \A i \in 1 .. Len(ds) : dialogs'[i] = ds[i]
    BY <1>1, <1>2, <1>3, <1>4
  <1>7. \A i \in 1 .. Len(dialogs) - 1 : dialogs'[Len(ds) + i] = dialogs[i + 1]
    BY <1>1, <1>2, <1>3, <1>4
  <1>8. dialogs' # <<>> /\ Head(dialogs') = ds[1]
    BY <1>1, <1>2, <1>5, <1>6
  <1> QED BY <1>2, <1>5, <1>6, <1>7, <1>8 DEF Then

\* A sequence of two elements.
LEMMA TwoElements ==
  ASSUME NEW S, NEW x \in S, NEW y \in S
  PROVE  <<x, y>> \in Seq(S)
OBVIOUS

\* Replacing it by one dialog, or by two.
LEMMA PushOne ==
  ASSUME Shape, NEW d, On(d), NEW a \in Titles, Then(<<a>>)
  PROVE  /\ dialogs' \in Seq(Titles) /\ mode' = mode
         /\ Len(dialogs') = Len(dialogs) /\ dialogs'[1] = a /\ Head(dialogs') = a
         /\ \A i \in 1 .. Len(dialogs) - 1 : dialogs'[1 + i] = dialogs[i + 1]
  <1> DEFINE ds == <<a>>
  <1>1. ds \in Seq(Titles)
    BY OneElement
  <1>2. Len(ds) = 1 /\ ds[1] = a
    OBVIOUS
  <1>3. ds # <<>>
    BY <1>2
  <1>4. Then(ds)
    OBVIOUS
  <1>5. Len(dialogs) \in Nat \ {0}
    BY OnWhich
  <1> HIDE DEF ds
  <1>6. /\ dialogs' \in Seq(Titles) /\ mode' = mode
        /\ Len(dialogs') = Len(ds) + Len(dialogs) - 1
        /\ \A i \in 1 .. Len(ds) : dialogs'[i] = ds[i]
        /\ \A i \in 1 .. Len(dialogs) - 1 : dialogs'[Len(ds) + i] = dialogs[i + 1]
        /\ Head(dialogs') = ds[1]
    BY <1>1, <1>3, <1>4, Pushing
  <1>7. dialogs'[1] = a
    <2>1. 1 \in 1 .. Len(ds)
      BY <1>2
    <2>2. \A i \in 1 .. Len(ds) : dialogs'[i] = ds[i]
      BY <1>6
    <2> QED BY <1>2, <2>1, <2>2
  <1>8. Len(dialogs') = Len(dialogs)
    BY <1>2, <1>5, <1>6
  <1> QED BY <1>2, <1>6, <1>7, <1>8

\* It stays below one that is opened over it.
LEMMA PushTwo ==
  ASSUME Shape, NEW d, On(d), NEW a \in Titles, NEW b \in Titles, Then(<<a, b>>)
  PROVE  /\ dialogs' \in Seq(Titles) /\ mode' = mode
         /\ Len(dialogs') = Len(dialogs) + 1 /\ dialogs'[1] = a /\ dialogs'[2] = b /\ Head(dialogs') = a
         /\ \A i \in 1 .. Len(dialogs) - 1 : dialogs'[2 + i] = dialogs[i + 1]
  <1> DEFINE ds == <<a, b>>
  <1>1. ds \in Seq(Titles)
    BY TwoElements
  <1>2. Len(ds) = 2 /\ ds[1] = a /\ ds[2] = b
    OBVIOUS
  <1>3. ds # <<>>
    BY <1>2
  <1>4. Then(ds)
    OBVIOUS
  <1>5. Len(dialogs) \in Nat \ {0}
    BY OnWhich
  <1> HIDE DEF ds
  <1>6. /\ dialogs' \in Seq(Titles) /\ mode' = mode
        /\ Len(dialogs') = Len(ds) + Len(dialogs) - 1
        /\ \A i \in 1 .. Len(ds) : dialogs'[i] = ds[i]
        /\ \A i \in 1 .. Len(dialogs) - 1 : dialogs'[Len(ds) + i] = dialogs[i + 1]
        /\ Head(dialogs') = ds[1]
    BY <1>1, <1>3, <1>4, Pushing
  <1>7. dialogs'[1] = a /\ dialogs'[2] = b
    <2>1. 1 \in 1 .. Len(ds) /\ 2 \in 1 .. Len(ds)
      BY <1>2
    <2>2. \A i \in 1 .. Len(ds) : dialogs'[i] = ds[i]
      BY <1>6
    <2> QED BY <1>2, <2>1, <2>2
  <1>8. Len(dialogs') = Len(dialogs) + 1
    BY <1>2, <1>5, <1>6
  <1> QED BY <1>2, <1>6, <1>7, <1>8

\* Where the dialogs that open others lead.
LEMMA MenuOpens ==
  ASSUME Shape, On("menu"), NEW d \in Sections, Then(<<d, "menu">>)
  PROVE  Menu /\ Menu' /\ dialogs' \in Seq(Titles)
  <1>1. Menu /\ Len(dialogs) = 1
    BY OnWhich
  <1>2. d \in Titles /\ "menu" \in Titles
    BY DEF Sections, Titles
  <1>3. /\ dialogs' \in Seq(Titles) /\ mode' = mode /\ Len(dialogs') = Len(dialogs) + 1
        /\ dialogs'[1] = d /\ dialogs'[2] = "menu"
    BY <1>2, PushTwo
  <1>4. Len(dialogs') = 2
    BY <1>1, <1>3
  <1> QED BY <1>1, <1>3, <1>4 DEF Menu, Under

\* handlenetworking opens its menu, or in an installation the dialogs in a row.
LEMMA NetworkOpens ==
  ASSUME Shape, On("networking")
  PROVE  /\ mode = "setup" /\ Then(<<"network">>) =>
              Menu /\ Network' /\ dialogs' \in Seq(Titles) /\ Head(dialogs') = "network"
         /\ mode = "chroot" /\ Then(<<"type", "write", "dhcp">>) =>
              Before /\ During' /\ dialogs' \in Seq(Titles) /\ Head(dialogs') = "type"
  <1>0. /\ (Menu /\ Len(dialogs) = 2) \/ (Before /\ Len(dialogs) = 4)
        /\ dialogs \in Seq(Titles)
    BY OnWhich
  <1>1. ASSUME mode = "setup", Then(<<"network">>)
        PROVE  Menu /\ Network' /\ dialogs' \in Seq(Titles) /\ Head(dialogs') = "network"
    <2>1. Menu /\ Len(dialogs) = 2
      BY <1>0, <1>1 DEF Before
    <2>2. /\ dialogs' \in Seq(Titles) /\ mode' = mode /\ Len(dialogs') = Len(dialogs)
          /\ dialogs'[1] = "network" /\ Head(dialogs') = "network"
          /\ \A i \in 1 .. Len(dialogs) - 1 : dialogs'[1 + i] = dialogs[i + 1]
      <3>1. "network" \in Titles
        BY DEF Titles
      <3> QED BY <1>1, <3>1, PushOne
    <2>3. Len(dialogs') = 2 /\ dialogs'[2] = dialogs[2]
      BY <2>1, <2>2
    <2> QED BY <2>1, <2>2, <2>3 DEF Menu, Network, Under
  <1>2. ASSUME mode = "chroot", Then(<<"type", "write", "dhcp">>)
        PROVE  Before /\ During' /\ dialogs' \in Seq(Titles) /\ Head(dialogs') = "type"
    <2>1. Before /\ Len(dialogs) = 4
      BY <1>0, <1>2 DEF Menu
    <2> DEFINE ds == <<"type", "write", "dhcp">>
    <2>2. ds \in Seq(Titles)
      <3>1. "type" \in Titles /\ "write" \in Titles /\ "dhcp" \in Titles
        BY DEF Titles
      <3> QED BY <3>1, ThreeElements
    <2>3. Len(ds) = 3 /\ ds[1] = "type" /\ ds[2] = "write" /\ ds[3] = "dhcp"
      OBVIOUS
    <2>4. Then(ds) /\ ds # <<>>
      BY <1>2, <2>3
    <2> HIDE DEF ds
    <2>5. /\ dialogs' \in Seq(Titles) /\ mode' = mode
          /\ Len(dialogs') = Len(ds) + Len(dialogs) - 1
          /\ \A i \in 1 .. Len(ds) : dialogs'[i] = ds[i]
          /\ \A i \in 1 .. Len(dialogs) - 1 : dialogs'[Len(ds) + i] = dialogs[i + 1]
          /\ Head(dialogs') = ds[1]
      BY <2>2, <2>4, Pushing
    <2>6. Len(dialogs') = 6 /\ dialogs'[1] = "type" /\ dialogs'[2] = "write" /\ dialogs'[3] = "dhcp"
      BY <2>1, <2>3, <2>5
    <2>7. dialogs'[4] = dialogs[2] /\ dialogs'[5] = dialogs[3] /\ dialogs'[6] = dialogs[4]
      BY <2>1, <2>3, <2>5
    <2> QED BY <2>1, <2>3, <2>5, <2>6, <2>7 DEF Before, During, Under
  <1> QED BY <1>1, <1>2

\* The type of RED leads to the card list.
LEMMA TypeOpens ==
  ASSUME Shape, On("type"), Then(<<"cards">>)
  PROVE  /\ (Network /\ Network') \/ (During /\ During')
         /\ dialogs' \in Seq(Titles) /\ mode' = mode /\ Head(dialogs') = "cards"
  <1>1. (Network /\ Len(dialogs) = 3) \/ (During /\ Len(dialogs) = 6)
    BY OnWhich
  <1>2. "cards" \in Titles
    BY DEF Titles
  <1>3. dialogs' \in Seq(Titles) /\ mode' = mode /\ Len(dialogs') = Len(dialogs) /\ dialogs'[1] = "cards"
        /\ Head(dialogs') = "cards"
    BY <1>2, PushOne
  <1>4. \A i \in 1 .. Len(dialogs) - 1 : dialogs'[1 + i] = dialogs[i + 1]
    BY <1>2, PushOne
  <1>5. CASE Network /\ Len(dialogs) = 3
    <2>1. dialogs'[2] = dialogs[2] /\ dialogs'[3] = dialogs[3]
      BY <1>4, <1>5
    <2> QED BY <1>3, <1>5, <2>1 DEF Network, Under
  <1>6. CASE During /\ Len(dialogs) = 6
    <2>1. dialogs'[2] = dialogs[2] /\ dialogs'[3] = dialogs[3] /\ dialogs'[4] = dialogs[4]
          /\ dialogs'[5] = dialogs[5] /\ dialogs'[6] = dialogs[6]
      BY <1>4, <1>6
    <2> QED BY <1>3, <1>6, <2>1 DEF During, Under
  <1> QED BY <1>1, <1>3, <1>5, <1>6

\* In the menu both lead back to the network menu.
LEMMA ListCloses ==
  ASSUME Shape, NEW d \in {"type", "cards"}, On(d), mode = "setup", Close
  PROVE  /\ Network /\ Network' /\ dialogs' \in Seq(Titles) /\ mode' = mode /\ Head(dialogs') = "network"
  <1>1. Network /\ Len(dialogs) = 3
    BY OnWhich DEF During
  <1>2. /\ dialogs' \in Seq(Titles) /\ Len(dialogs') = 2 /\ mode' = mode /\ Head(dialogs') = dialogs[2]
        /\ dialogs'[1] = dialogs[2] /\ dialogs'[2] = dialogs[3]
    BY <1>1, OnWhich, Popping
  <1> QED BY <1>1, <1>2 DEF Network, Under

\* In an installation the card list is followed by the forms of the colours.
LEMMA FormsOpen ==
  ASSUME Shape, On("cards"), mode = "chroot",
         NEW f \in Seq(Colours \cup Lines), f # <<>>, Then(f)
  PROVE  During /\ During' /\ dialogs' \in Seq(Titles) /\ mode' = mode /\ ~Choosing'
  <1>1. During /\ Len(dialogs) = 6
    BY OnWhich DEF Network
  <1>2. f \in Seq(Titles) /\ Len(f) \in Nat \ {0} /\ \A i \in 1 .. Len(f) : f[i] \in Colours \cup Lines
    <2>1. Colours \cup Lines \subseteq Titles
      BY ColourNames DEF Lines, AllColours, Titles
    <2>2. Len(f) \in Nat \ {0} /\ \A i \in 1 .. Len(f) : f[i] \in Colours \cup Lines
      OBVIOUS
    <2>3. f \in Seq(Titles)
      BY <2>1
    <2> QED BY <2>2, <2>3
  <1>3. /\ dialogs' \in Seq(Titles) /\ mode' = mode /\ Len(dialogs') = Len(f) + 5
        /\ \A i \in 1 .. Len(f) : dialogs'[i] \in Colours \cup Lines
        /\ \A i \in 1 .. 5 : dialogs'[Len(f) + i] = dialogs[i + 1]
        /\ Head(dialogs') \in Colours \cup Lines
    <2>1. /\ dialogs' \in Seq(Titles) /\ mode' = mode
          /\ Len(dialogs') = Len(f) + Len(dialogs) - 1
          /\ \A i \in 1 .. Len(f) : dialogs'[i] = f[i]
          /\ \A i \in 1 .. Len(dialogs) - 1 : dialogs'[Len(f) + i] = dialogs[i + 1]
          /\ Head(dialogs') = f[1]
      BY <1>2, Pushing
    <2>2. \A i \in 1 .. 5 : dialogs'[Len(f) + i] = dialogs[i + 1]
      BY <1>1, <2>1
    <2>3. Len(dialogs') = Len(f) + 5
      BY <1>1, <1>2, <2>1
    <2>4. 1 \in 1 .. Len(f)
      BY <1>2
    <2> QED BY <1>2, <2>1, <2>2, <2>3, <2>4
  <1>4. /\ dialogs'[Len(f) + 1] = dialogs[2] /\ dialogs'[Len(f) + 2] = dialogs[3] /\ dialogs'[Len(f) + 3] = dialogs[4]
        /\ dialogs'[Len(f) + 4] = dialogs[5] /\ dialogs'[Len(f) + 5] = dialogs[6]
    BY <1>3
  <1>5. dialogs[2] = "write" /\ dialogs[3] = "dhcp" /\ dialogs[4] = "root" /\ dialogs[5] = "admin" /\ dialogs[6] = "backup"
    BY <1>1 DEF During, Under
  <1>6. During'
    <2>1. Len(dialogs') >= 5 /\ Len(dialogs') - 5 = Len(f)
      BY <1>2, <1>3
    <2>2. /\ Len(dialogs') - 0 = Len(f) + 5 /\ Len(dialogs') - 1 = Len(f) + 4 /\ Len(dialogs') - 2 = Len(f) + 3
          /\ Len(dialogs') - 3 = Len(f) + 2 /\ Len(dialogs') - 4 = Len(f) + 1
      BY <1>2, <1>3
    <2>3. /\ Under(0)' = "backup" /\ Under(1)' = "admin" /\ Under(2)' = "root"
          /\ Under(3)' = "dhcp" /\ Under(4)' = "write"
      BY <1>4, <1>5, <2>2 DEF Under
    <2> QED BY <1>1, <1>3, <2>1, <2>3 DEF During
  <1> QED BY <1>1, <1>3, <1>6, ColourNames DEF Choosing, Lines

\* A colour is chosen whose address is changed.
LEMMA AddressOpens ==
  ASSUME Shape, On("select"), NEW k \in Colours, Then(<<k, "select">>)
  PROVE  Network /\ Network' /\ dialogs' \in Seq(Titles) /\ mode' = mode /\ Head(dialogs') = k
  <1>1. Network /\ Len(dialogs) = 3
    BY OnWhich
  <1>2. k \in Titles /\ "select" \in Titles
    BY ColourNames DEF AllColours, Titles
  <1>3. /\ dialogs' \in Seq(Titles) /\ mode' = mode /\ Len(dialogs') = Len(dialogs) + 1
        /\ dialogs'[1] = k /\ dialogs'[2] = "select" /\ Head(dialogs') = k
        /\ \A i \in 1 .. Len(dialogs) - 1 : dialogs'[2 + i] = dialogs[i + 1]
    BY <1>2, PushTwo
  <1>4. Len(dialogs') = 4 /\ dialogs'[3] = dialogs[2] /\ dialogs'[4] = dialogs[3]
    BY <1>1, <1>3
  <1> QED BY <1>1, <1>3, <1>4 DEF Network, Under

\* The entries of the network menu.
LEMMA NetworkMenuOpens ==
  ASSUME Shape, On("network"), NEW d \in Lines \cup {"type", "select", "cards"}, Then(<<d, "network">>)
  PROVE  Network /\ Network' /\ dialogs' \in Seq(Titles) /\ mode' = mode /\ Head(dialogs') = d
  <1>1. Network /\ Len(dialogs) = 2
    BY OnWhich
  <1>2. d \in Titles /\ "network" \in Titles
    BY DEF Lines, Titles
  <1>3. /\ dialogs' \in Seq(Titles) /\ mode' = mode /\ Len(dialogs') = Len(dialogs) + 1
        /\ dialogs'[1] = d /\ dialogs'[2] = "network" /\ Head(dialogs') = d
        /\ \A i \in 1 .. Len(dialogs) - 1 : dialogs'[2 + i] = dialogs[i + 1]
    BY <1>2, PushTwo
  <1>4. Len(dialogs') = 3 /\ dialogs'[3] = dialogs[2]
    BY <1>1, <1>3
  <1> QED BY <1>1, <1>3, <1>4 DEF Network, Under

\* Setup is in one phase.
OnePhase ==
  dialogs \in Seq(Titles) =>
    /\ Menu \/ After => Quiet /\ ~Open /\ ~NotYet
    /\ Before => NotYet /\ ~Open /\ ~Quiet
    /\ Open => ~Quiet /\ ~NotYet
    /\ mode = "off" => ~Open

\* The dialogs that are open tell the phase.
LEMMA Phases == OnePhase
  <1> SUFFICES ASSUME dialogs \in Seq(Titles)
               PROVE  /\ Menu \/ After => Quiet /\ ~Open /\ ~NotYet
                      /\ Before => NotYet /\ ~Open /\ ~Quiet
                      /\ Open => ~Quiet /\ ~NotYet
                      /\ mode = "off" => ~Open
    BY DEF OnePhase
  <1>0. Len(dialogs) \in Nat
    OBVIOUS
  <1>1. ASSUME Menu, Network PROVE FALSE
    <2>1. Len(dialogs) = 2
      BY <1>0, <1>1 DEF Menu, Network
    <2>2. dialogs[1] = "network"
      BY <1>1, <2>1 DEF Network, Under
    <2> QED BY <1>1, <2>1, <2>2 DEF Menu, Sections
  <1>2. ASSUME Before, During \/ After PROVE FALSE
    <2>1. Under(3) = "networking" /\ Len(dialogs) \in {4, 5, 6, 7}
      BY <1>2 DEF Before
    <2>2. Len(dialogs) >= 4
      <3>1. \A n \in {4, 5, 6, 7} : n >= 4
        OBVIOUS
      <3> QED BY <2>1, <3>1
    <2> QED BY <1>2, <2>1, <2>2 DEF During, After
  <1>3. ASSUME During, After PROVE FALSE
    <2>1. Len(dialogs) >= 5
      BY <1>3 DEF During
    <2>2. Len(dialogs) \in {1, 2, 3, 4}
      BY <1>3 DEF After
    <2>3. \A n \in {1, 2, 3, 4} : ~(n >= 5)
      OBVIOUS
    <2> QED BY <2>1, <2>2, <2>3
  <1>4. /\ Menu \/ Network => mode = "setup"
        /\ Before \/ During \/ After => mode = "chroot"
    BY DEF Menu, Network, Before, During, After
  <1> QED BY <1>1, <1>2, <1>3, <1>4 DEF Open, NotYet, Quiet

\* So they do after a step.
LEMMA PhasesNext == OnePhase'
BY Phases, PTL

\* The values setup begins with.
LEMMA IdleTyped == Fresh \in Settings /\ Idle \in Memory
  <1>1. Fresh \in Settings
    <2>1. [k \in Colours |-> 0] \in [Colours -> {0, 1}]
      OBVIOUS
    <2>2. [k \in Colours |-> ""] \in [Colours -> {"", "now", "own"}]
      OBVIOUS
    <2>3. [k \in Colours |-> NoAddress] \in [Colours -> {NoAddress} \cup UNION {Addresses[k] : k \in Colours}]
      OBVIOUS
    <2> QED BY <2>1, <2>2, <2>3 DEF Fresh, Settings, Kinds
  <1>2. [c \in Cards |-> "absent"] \in [Cards -> Colours \cup {"absent", "NONE"}]
    OBVIOUS
  <1> QED BY <1>1, <1>2 DEF Idle, Memory, Kinds

\* The list decides what is in it.
LEMMA SameList ==
  ASSUME proc'.list = proc.list, UNCHANGED <<eth, rules, lost>>
  PROVE  /\ \A k : Has(proc, k)' <=> Has(proc, k)
         /\ InRules(eth)' <=> InRules(eth)
         /\ InCounts(eth)' <=> InCounts(eth)
         /\ Agrees(eth)' <=> Agrees(eth)
         /\ Counted(eth)' <=> Counted(eth)
  <1>1. \A k : Has(proc, k)' <=> Has(proc, k)
    BY DEF Has
  <1> QED BY <1>1 DEF InRules, InCounts, Agrees, Counted, Named

\* The types, the colours and the place of setup are as they were.
LEMMA Framed ==
  ASSUME Whole, UNCHANGED <<eth, rules, names, plugged, lost, at, restored>>,
         proc' \in Memory, proc'.list = proc.list, proc'.scanned = proc.scanned, proc'.torn = proc.torn,
         proc'.red = proc.red, proc'.kv.type = proc.kv.type, proc'.kv.count = proc.kv.count,
         proc'.kv.dev = proc.kv.dev,
         proc'.changed \/ (proc'.changed = proc.changed /\ proc'.kv = proc.kv),
         dialogs' \in Seq(Titles),
         \/ Menu /\ Menu'
         \/ Before /\ Before'
         \/ After /\ After'
         \/ Open /\ Open' /\ mode' = mode /\ (Choosing' <=> Choosing)
  PROVE  Whole'
  <1>1. SetupTypes'
    BY DEF Whole, SetupTypes
  <1>2. CardsOnce'
    BY DEF Whole, CardsOnce, Once
  <1>3. Shape'
    <2>1. mode' = mode
      BY DEF Menu, Before, After
    <2>2. Menu' \/ Network' \/ Before' \/ During' \/ After'
      BY DEF Open
    <2>3. (mode = "setup" => at = "up") /\ (mode = "chroot" => at = "setup") /\ (at = "setup" => ~restored)
      BY DEF Whole, Shape
    <2> QED BY <2>1, <2>2, <2>3 DEF Shape
  <1>4. OnePhase /\ OnePhase' /\ dialogs \in Seq(Titles)
    BY Phases, PhasesNext DEF Whole, Shape
  <1>5. CASE (Menu /\ Menu') \/ (After /\ After')
    <2>1. Settled
      BY <1>4, <1>5 DEF Whole, Phased, OnePhase
    <2>2. Settled'
      BY <2>1, SameList DEF Settled
    <2> QED BY <1>1, <1>2, <1>3, <1>4, <1>5, <2>2 DEF Whole, Phased, OnePhase
  <1>6. CASE Before /\ Before'
    <2>1. Blank
      BY <1>4, <1>6 DEF Whole, Phased, OnePhase
    <2>2. Blank'
      BY <2>1 DEF Blank
    <2> QED BY <1>1, <1>2, <1>3, <1>4, <1>6, <2>2 DEF Whole, Phased, OnePhase
  <1>7. CASE Open /\ Open' /\ mode' = mode /\ (Choosing' <=> Choosing)
    <2>1. Edited
      BY <1>7 DEF Whole, Phased
    <2>2. /\ InRules(proc.kv)' <=> InRules(proc.kv)
          /\ InCounts(proc.kv)' <=> InCounts(proc.kv)
          /\ Agrees(proc.kv)' <=> Agrees(proc.kv)
          /\ Counted(proc.kv)' <=> Counted(proc.kv)
      BY SameList DEF InRules, InCounts, Agrees, Counted, Named
    <2>3. Edited'
      BY <1>7, <2>1, <2>2, SameList DEF Edited
    <2> QED BY <1>1, <1>2, <1>3, <1>4, <1>7, <2>3 DEF Whole, Phased, OnePhase
  <1> QED BY <1>5, <1>6, <1>7

\* Setup has ended: its memory is gone, and the settings stay.
LEMMA Ended ==
  ASSUME Whole, UNCHANGED <<eth, rules, names, plugged, lost, at, restored>>,
         Menu \/ After, mode' = "off", dialogs' = <<>>, proc' = Idle
  PROVE  Whole'
  <1>1. Idle \in Memory
    BY IdleTyped
  <1>2. SetupTypes'
    BY <1>1 DEF Whole, SetupTypes
  <1>3. proc'.list = [c \in Cards |-> "absent"] /\ ~proc'.torn
    BY DEF Idle
  <1>4. \A k \in Colours : ~Has(proc, k)'
    BY <1>3, ColourNames DEF Has
  <1>5. CardsOnce'
    BY <1>3, ColourNames DEF Whole, CardsOnce, Once
  <1>6. at \in {"up", "setup"} /\ (at = "setup" => ~restored)
    BY DEF Whole, Shape, Menu, After
  <1>7. Shape'
    BY <1>6 DEF Shape
  <1>8. ~Open' /\ ~NotYet'
    BY <1>6 DEF Open, Network, During, NotYet, Before
  <1>9. Settled
    BY Phases DEF Whole, Phased, OnePhase, Shape
  <1>10. Settled'
    <2>1. InRules(eth)' /\ InCounts(eth)'
      BY <1>4, ColourNames DEF InRules, InCounts
    <2>2. Counted(eth)' /\ Agrees(eth)'
      BY <1>9 DEF Settled, Agrees, Counted, Named
    <2> QED BY <1>3, <2>1, <2>2 DEF Settled
  <1> QED BY <1>2, <1>5, <1>7, <1>8, <1>10 DEF Whole, Phased

\* A step that leaves the settings in memory alone.
LEMMA Same ==
  ASSUME Whole, NEW p \in {proc, [proc EXCEPT !.typed = None], [proc EXCEPT !.typed = "not a domain"],
                           [proc EXCEPT !.changed = TRUE]}
  PROVE  /\ p \in Memory /\ p.list = proc.list /\ p.scanned = proc.scanned /\ p.torn = proc.torn
         /\ p.red = proc.red /\ p.kv = proc.kv
         /\ p.changed \/ p.changed = proc.changed
  <1>1. proc \in Memory
    BY DEF Whole, SetupTypes
  <1>2. CASE p = proc
    BY <1>1, <1>2
  <1>3. CASE p = [proc EXCEPT !.typed = None] \/ p = [proc EXCEPT !.typed = "not a domain"]
    BY <1>1, <1>3 DEF Memory
  <1>4. CASE p = [proc EXCEPT !.changed = TRUE]
    BY <1>1, <1>4 DEF Memory
  <1> QED BY <1>2, <1>3, <1>4

\* The dialogs of the menu and of an installation that are not about cards.
LEMMA SectionsKept ==
  ASSUME Whole, UNCHANGED ivars,
         handlekeymap \/ handletimezone \/ handlehostname \/ handledomainname \/ handlepasswords
  PROVE  Whole'
  <1>1. /\ UNCHANGED <<eth, rules, names, plugged, lost, at, restored>>
        /\ proc' \in {proc, [proc EXCEPT !.typed = None], [proc EXCEPT !.typed = "not a domain"]}
    BY DEF handlekeymap, handletimezone, handlehostname, handledomainname, handlepasswords, files, world, ivars
  <1>2. Shape /\ dialogs \in Seq(Titles)
    BY DEF Whole, Shape
  <1>3. /\ mode # "off" /\ Head(dialogs) \in Sections \ {"networking"}
        /\ Close \/ UNCHANGED <<mode, dialogs>>
    BY DEF handlekeymap, handletimezone, handlehostname, handledomainname, handlepasswords, On, Sections
  <1>4. CASE Close
    <2>1. dialogs' \in Seq(Titles) /\ ((Menu /\ Menu') \/ (Before /\ Before'))
      BY <1>2, <1>3, <1>4, Popped
    <2> QED BY <1>1, <2>1, Same, Framed
  <1>5. CASE UNCHANGED <<mode, dialogs>>
    <2>1. Menu \/ Before \/ After \/ Open
      BY <1>2, <1>3 DEF Shape, Open
    <2>2. (Menu' <=> Menu) /\ (Before' <=> Before) /\ (After' <=> After) /\ (Open' <=> Open) /\ (Choosing' <=> Choosing)
      BY <1>5 DEF Menu, Before, After, Open, Network, During, Choosing, Under
    <2> QED BY <1>1, <1>2, <1>5, <2>1, <2>2, Same, Framed
  <1> QED BY <1>3, <1>4, <1>5

\* changedhcpserver and the passwords, with which an installation ends.
LEMMA LastKept ==
  ASSUME Whole, UNCHANGED ivars, InstallPasswords \/ changedhcpserver
  PROVE  Whole'
  <1>1. /\ UNCHANGED <<eth, rules, names, plugged, lost, at, restored>>
        /\ Close /\ mode # "off" /\ Head(dialogs) \in {"dhcp", "root", "admin", "backup"}
        /\ proc' = proc \/ (mode' = "off" /\ proc' = Idle)
    BY DEF InstallPasswords, changedhcpserver, world, ivars, On, Users
  <1>2. Shape
    BY DEF Whole
  <1>3. dialogs' \in Seq(Titles) /\ After /\ (After' \/ (mode' = "off" /\ dialogs' = <<>>))
    BY <1>1, <1>2, Popped
  <1>4. CASE proc' = proc /\ After'
    BY <1>1, <1>3, <1>4, Same, Framed
  <1>5. CASE mode' = "off" /\ dialogs' = <<>>
    <2>1. proc' = Idle
      <3>1. InstallPasswords => proc' = Idle
        BY <1>5 DEF InstallPasswords
      <3>2. ASSUME Head(dialogs) = "dhcp" PROVE FALSE
        <4>1. dialogs \in Seq(Titles) /\ Head(dialogs) = dialogs[1] /\ (Len(dialogs) > 1 => mode' = mode)
          BY <1>1, <1>2, Popping
        <4>2. Len(dialogs) # 1
          BY <1>3, <3>2, <4>1 DEF After, Under
        <4>3. \A n \in {1, 2, 3, 4} : n # 1 => n > 1
          OBVIOUS
        <4>4. Len(dialogs) > 1
          BY <1>3, <4>2, <4>3 DEF After
        <4> QED BY <1>1, <1>5, <4>1, <4>4
      <3> QED BY <3>1, <3>2 DEF changedhcpserver, On
    <2> QED BY <1>1, <1>3, <1>5, <2>1, Ended
  <1> QED BY <1>1, <1>3, <1>4, <1>5 DEF After

\* The menu opens a section, or setup ends.
LEMMA SectionMenuKept ==
  ASSUME Whole, UNCHANGED ivars, SectionMenu
  PROVE  Whole'
  <1>1. UNCHANGED <<eth, rules, names, plugged, lost, at, restored>> /\ On("menu") /\ mode # "off"
    BY DEF SectionMenu, files, ivars, On
  <1>2. Shape
    BY DEF Whole
  <1>3. CASE \E d \in Sections : Then(<<d, "menu">>) /\ proc' = proc
    <2>1. Menu /\ Menu' /\ dialogs' \in Seq(Titles)
      BY <1>1, <1>2, <1>3, MenuOpens
    <2> QED BY <1>1, <1>3, <2>1, Same, Framed
  <1>4. CASE Close /\ proc' = Idle
    <2>1. Menu /\ Len(dialogs) = 1
      BY <1>1, <1>2, OnWhich
    <2>2. mode' = "off" /\ dialogs' = <<>>
      BY <1>1, <1>2, <1>4, <2>1, Popping
    <2> QED BY <1>1, <1>4, <2>1, <2>2, Ended
  <1> QED BY <1>3, <1>4 DEF SectionMenu, Sections

\* A list without cards.
LEMMA NoneListed ==
  ASSUME NEW l, l = Idle.list, NEW k \in Colours
  PROVE  ~\E c \in Cards : l[c] = k
BY ColourNames DEF Idle

\* handlenetworking reads what is written, or, in an installation, nothing.
LEMMA NetworkingKept ==
  ASSUME Whole, UNCHANGED ivars, handlenetworking, ~died'
  PROVE  Whole'
  <1>1. /\ UNCHANGED <<eth, rules, names, plugged, lost, at, restored>> /\ On("networking")
        /\ proc' = [proc EXCEPT !.kv = eth, !.red = eth.type, !.changed = FALSE]
        /\ Then(IF mode = "chroot" THEN <<"type", "write", "dhcp">> ELSE <<"network">>)
    BY DEF handlenetworking, files, world, ivars
  <1>2. Shape /\ proc \in Memory /\ eth \in Settings /\ dialogs \in Seq(Titles)
    BY DEF Whole, SetupTypes, Shape
  <1>3. /\ proc' \in Memory /\ proc'.kv = eth /\ proc'.red = eth.type /\ proc'.changed = FALSE
        /\ proc'.list = proc.list /\ proc'.torn = proc.torn
    BY <1>1, <1>2 DEF Memory, Settings
  <1>4. SetupTypes'
    BY <1>1, <1>3 DEF Whole, SetupTypes
  <1>5. CardsOnce'
    BY <1>1, <1>3 DEF Whole, CardsOnce, Once
  <1>6. mode \in {"setup", "chroot"}
    BY <1>1, <1>2 DEF Shape, On, Menu, Network, Before, During, After
  <1>7. /\ InRules(proc.kv)' <=> InRules(eth)
        /\ InCounts(proc.kv)' <=> InCounts(eth)
        /\ Agrees(proc.kv)' <=> Agrees(eth)
        /\ Counted(proc.kv)' <=> Counted(eth)
    BY <1>1, <1>3, SameList DEF InRules, InCounts, Agrees, Counted, Named
  <1>8. CASE mode = "setup"
    <2>1. Menu /\ Network' /\ dialogs' \in Seq(Titles) /\ Head(dialogs') = "network"
      BY <1>1, <1>2, <1>8, NetworkOpens
    <2>2. Settled
      BY <1>2, <2>1, Phases DEF OnePhase, Whole, Phased
    <2>3. ~Choosing'
      BY <2>1 DEF Choosing, Network
    <2>4. Edited'
      BY <1>1, <1>3, <1>7, <2>2, <2>3, SameList DEF Edited, Settled
    <2>5. Shape'
      BY <1>1, <1>2, <1>8, <2>1 DEF Shape, Network
    <2> QED BY <1>4, <1>5, <2>1, <2>4, <2>5, PhasesNext DEF Whole, Phased, OnePhase, Open
  <1>9. CASE mode = "chroot"
    <2>1. Before /\ During' /\ dialogs' \in Seq(Titles) /\ Head(dialogs') = "type"
      BY <1>1, <1>2, <1>9, NetworkOpens
    <2>2. Blank
      BY <1>2, <2>1, Phases DEF OnePhase, Whole, Phased
    <2>3. \A k \in Colours : ~Has(proc, k)
      BY <2>2, NoneListed DEF Has, Blank
    <2>4. InRules(eth) /\ InCounts(eth)
      BY <2>3, ColourNames DEF InRules, InCounts
    <2>5. Agrees(eth)
      <3>1. \A k \in Colours : Fresh.count[k] = 0
        BY DEF Fresh
      <3> QED BY <2>2, <3>1 DEF Agrees, Blank
    <2>6. Choosing' /\ mode' # "setup"
      BY <2>1 DEF Choosing, During
    <2>7. Edited'
      <3>1. proc'.kv = eth' /\ ~proc'.torn
        BY <1>1, <1>3, <2>2 DEF Blank
      <3>2. InCounts(proc.kv)' /\ Agrees(proc.kv)' /\ InRules(proc.kv)'
        BY <1>7, <2>4, <2>5
      <3> QED BY <1>3, <2>6, <3>1, <3>2 DEF Edited
    <2>8. Shape'
      BY <1>1, <1>2, <1>9, <2>1 DEF Shape, During
    <2> QED BY <1>4, <1>5, <2>1, <2>7, <2>8, PhasesNext DEF Whole, Phased, OnePhase, Open
  <1> QED BY <1>6, <1>8, <1>9

\* The dialogs of addresses and names.
LEMMA FieldsKept ==
  ASSUME Whole, UNCHANGED ivars,
         handleisdn \/ changehostname \/ changednsgateway
  PROVE  Whole'
  <1>1. /\ UNCHANGED <<eth, rules, names, plugged, lost, at, restored>>
        /\ Close /\ mode # "off" /\ Head(dialogs) \in Lines
        /\ proc' \in {proc, [proc EXCEPT !.changed = TRUE]}
    BY DEF handleisdn, changehostname, changednsgateway, files, world, ivars, On, Lines
  <1>2. Open /\ ~Choosing /\ Open' /\ ~Choosing' /\ mode' = mode /\ dialogs' \in Seq(Titles)
    BY <1>1, Popped DEF Whole
  <1> QED BY <1>1, <1>2, Same, Framed

\* changeaddress changes an address only.
LEMMA AddressKept ==
  ASSUME Whole, UNCHANGED ivars, changeaddress
  PROVE  Whole'
  <1>1. PICK k \in Colours : On(k)
    BY DEF changeaddress
  <1>2. /\ UNCHANGED <<eth, rules, names, plugged, lost, at, restored>>
        /\ Close /\ mode # "off" /\ Head(dialogs) = k
    BY <1>1 DEF changeaddress, files, world, ivars, On
  <1>3. Open /\ ~Choosing /\ Open' /\ ~Choosing' /\ mode' = mode /\ dialogs' \in Seq(Titles)
    BY <1>2, Popped DEF Whole
  <1>4. CASE proc' = proc
    BY <1>2, <1>3, <1>4, Same, Framed
  <1>5. ASSUME NEW a \in Addresses[k], proc' = [proc EXCEPT !.kv.addr[k] = a, !.changed = TRUE]
        PROVE  Whole'
    <2>1. proc \in Memory /\ proc.kv \in Settings
      BY DEF Whole, SetupTypes, Memory
    <2> DEFINE kv == [proc.kv EXCEPT !.addr[k] = a]
    <2>2. a \in {NoAddress} \cup UNION {Addresses[x] : x \in Colours}
      OBVIOUS
    <2>3. kv \in Settings /\ kv.type = proc.kv.type /\ kv.count = proc.kv.count /\ kv.dev = proc.kv.dev
      BY <2>1, <2>2 DEF Settings
    <2>4. proc' = [[proc EXCEPT !.kv = kv] EXCEPT !.changed = TRUE]
      BY <1>5, <2>1 DEF Memory
    <2> HIDE DEF kv
    <2>5. /\ proc' \in Memory /\ proc'.kv = kv /\ proc'.changed = TRUE /\ proc'.list = proc.list
          /\ proc'.scanned = proc.scanned /\ proc'.torn = proc.torn /\ proc'.red = proc.red
      BY <2>1, <2>3, <2>4 DEF Memory
    <2> QED BY <1>2, <1>3, <2>3, <2>5, Framed
  <1> QED BY <1>2, <1>4, <1>5 DEF changeaddress

\* selectchangeaddress changes nothing.
LEMMA SelectKept ==
  ASSUME Whole, UNCHANGED ivars, selectchangeaddress, ~died'
  PROVE  Whole'
  <1>1. /\ UNCHANGED <<proc, eth, rules, names, plugged, lost, at, restored>> /\ On("select") /\ mode # "off"
        /\ Close \/ \E k \in Colours : Then(<<k, "select">>)
    BY DEF selectchangeaddress, files, world, ivars, On
  <1>2. Shape
    BY DEF Whole
  <1>3. CASE Close
    <2>1. Open /\ ~Choosing /\ Open' /\ ~Choosing' /\ mode' = mode /\ dialogs' \in Seq(Titles)
      BY <1>1, <1>2, <1>3, Popped DEF On
    <2> QED BY <1>1, <2>1, Same, Framed
  <1>4. ASSUME NEW k \in Colours, Then(<<k, "select">>) PROVE Whole'
    <2>1. Network /\ Network' /\ dialogs' \in Seq(Titles) /\ mode' = mode /\ Head(dialogs') = k
      BY <1>1, <1>2, <1>4, AddressOpens
    <2>2. ~Choosing /\ ~Choosing'
      BY <1>1, <2>1, ColourNames DEF Choosing, On, Network
    <2> QED BY <1>1, <2>1, <2>2, Same, Framed DEF Open
  <1> QED BY <1>1, <1>3, <1>4

\* What a scan finds has a colour that is counted.
LEMMA Scanned ==
  ASSUME Whole, NEW p \in Memory, p.list = proc.list
  PROVE  /\ scancards(p) \in Memory
         /\ scancards(p).kv = p.kv /\ scancards(p).red = p.red
         /\ scancards(p).changed = p.changed /\ scancards(p).torn = p.torn
         /\ Once(scancards(p).list)
         /\ \A c \in Cards : scancards(p).list[c] # "absent" => c \in plugged
         /\ scancards(p).list = proc.list \/ \A c \in Cards : scancards(p).list[c] \in Colours =>
              p.kv.count[scancards(p).list[c]] = 1
  <1>1. /\ Once(names) /\ Once(proc.list) /\ \A c \in Cards : proc.list[c] # "absent" => c \in plugged
        /\ proc \in Memory
    BY DEF Whole, CardsOnce, SetupTypes
  <1>2. CASE p.scanned
    BY <1>1, <1>2 DEF scancards
  <1>3. CASE ~p.scanned
    <2> DEFINE found == [c \in Cards |->
      IF c \notin pci_scan_bus \cup usb_scan THEN "absent"
      ELSE IF mode = "setup" /\ c \notin Dead /\ names[c] \in Colours
              /\ p.kv.count[names[c]] = 1 /\ p.kv.dev[names[c]] # ""
           THEN names[c] ELSE "NONE"]
    <2>1. scancards(p) = [p EXCEPT !.scanned = TRUE, !.list = found]
      BY <1>3 DEF scancards
    <2>2. \A c \in Cards : /\ found[c] \in Colours \cup {"absent", "NONE"}
                           /\ found[c] # "absent" => c \in plugged
                           /\ found[c] \in Colours => found[c] = names[c] /\ p.kv.count[found[c]] = 1
      BY ColourNames DEF pci_scan_bus, usb_scan
    <2>3. found \in [Cards -> Colours \cup {"absent", "NONE"}]
      BY <2>2
    <2> HIDE DEF found
    <2>4. Once(found)
      BY <1>1, <2>2 DEF Once
    <2>5. /\ scancards(p) \in Memory /\ scancards(p).list = found
          /\ scancards(p).kv = p.kv /\ scancards(p).red = p.red
          /\ scancards(p).changed = p.changed /\ scancards(p).torn = p.torn
      BY <2>1, <2>3 DEF Memory
    <2> QED BY <2>2, <2>4, <2>5
  <1> QED BY <1>2, <1>3

\* The card list is opened, with settings in which every listed card is counted.
LEMMA ListOpened ==
  ASSUME Whole, UNCHANGED <<eth, rules, names, plugged, at, restored>>, lost \subseteq lost', lost' \subseteq Colours,
         Open, dialogs' \in Seq(Titles), mode' = mode, Head(dialogs') = "cards",
         (Network /\ Network') \/ (During /\ During'),
         NEW p \in Memory, p.list = proc.list, p.torn = proc.torn, proc' = scancards(p),
         p.red = p.kv.type, p.changed \/ (Agrees(p.kv) /\ InRules(p.kv)),
         \A k \in Colours \ {"RED"} : Has(proc, k) => p.kv.count[k] = 1,
         Has(proc, "RED") /\ p.kv.type \notin Modem => p.kv.count["RED"] = 1,
         Has(proc, "RED") => \/ p.kv.count["RED"] = 1
                             \/ "RED" \in lost'
                             \/ \E c \in Cards \ Dead : proc.list[c] = "RED",
         ~p.changed => p.kv = eth /\ ~p.torn
  PROVE  Whole'
  <1>1. /\ proc' \in Memory /\ proc'.kv = p.kv /\ proc'.red = p.red /\ proc'.changed = p.changed /\ proc'.torn = p.torn
        /\ Once(proc'.list) /\ \A c \in Cards : proc'.list[c] # "absent" => c \in plugged
        /\ proc'.list = proc.list \/ \A c \in Cards : proc'.list[c] \in Colours => p.kv.count[proc'.list[c]] = 1
    BY Scanned
  <1>2. SetupTypes'
    BY <1>1 DEF Whole, SetupTypes
  <1>3. CardsOnce'
    BY <1>1 DEF Whole, CardsOnce, Once
  <1>4. Shape'
    BY DEF Whole, Shape, Network, During
  <1>5. Choosing'
    BY DEF Choosing
  <1>6. \A k \in Colours : Has(proc, k)' => Has(proc, k) \/ p.kv.count[k] = 1
    BY <1>1 DEF Has
  <1>7. InCounts(proc.kv)'
    <2>1. \A k \in Colours \ {"RED"} : Has(proc, k)' => p.kv.count[k] = 1
      BY <1>6
    <2>2. Has(proc, "RED")' /\ p.kv.type \notin Modem => p.kv.count["RED"] = 1
      BY <1>6, ColourNames
    <2>3. Has(proc, "RED")' => \/ p.kv.count["RED"] = 1
                               \/ "RED" \in lost'
                               \/ \E c \in Cards \ Dead : proc'.list[c] = "RED"
      <3>1. CASE proc'.list = proc.list
        BY <3>1 DEF Has
      <3>2. CASE \A c \in Cards : proc'.list[c] \in Colours => p.kv.count[proc'.list[c]] = 1
        BY <3>2, ColourNames DEF Has
      <3> QED BY <1>1, <3>1, <3>2
    <2> QED BY <1>1, <2>1, <2>2, <2>3 DEF InCounts
  <1>8. ASSUME Agrees(p.kv), InRules(p.kv) PROVE Agrees(proc.kv)' /\ InRules(proc.kv)'
    <2>1. \A k \in Colours \ lost' : Has(proc, k)' => Named(p.kv, k)
      BY <1>6, <1>8 DEF InRules, Agrees
    <2>2. \A k : Named(proc.kv, k)' <=> Named(p.kv, k)
      BY <1>1 DEF Named
    <2> QED BY <1>1, <1>8, <2>1, <2>2 DEF InRules, Agrees
  <1>9. mode = "setup" => Counted(eth) /\ (proc.torn \/ Agrees(eth))
    BY DEF Whole, Phased, Edited
  <1>10. mode = "setup" => Counted(eth)' /\ (proc'.torn \/ Agrees(eth)')
    BY <1>1, <1>9 DEF Counted, Agrees, Named
  <1>11. Edited'
    BY <1>1, <1>5, <1>7, <1>8, <1>10 DEF Edited
  <1> QED BY <1>2, <1>3, <1>4, <1>11, PhasesNext DEF Whole, Phased, OnePhase, Open

\* The network menu opens its entries; the card list is scanned for.
LEMMA NetworkMenuKept ==
  ASSUME Whole, UNCHANGED ivars, NetworkMenu
  PROVE  Whole'
  <1>1. /\ UNCHANGED <<eth, rules, names, plugged, lost, at, restored>> /\ On("network")
        /\ \/ \E d \in Lines \cup {"type", "select"} : Then(<<d, "network">>) /\ proc' = proc
           \/ Then(<<"cards", "network">>) /\ proc' = scancards(proc)
    BY DEF NetworkMenu, files, ivars, Lines
  <1>2. Shape /\ proc \in Memory
    BY DEF Whole, SetupTypes
  <1>3. Network /\ ~Choosing /\ mode = "setup"
    BY <1>1, <1>2, OnWhich DEF Choosing, On, Network
  <1>4. ASSUME NEW d \in Lines \cup {"type", "select"}, Then(<<d, "network">>), proc' = proc PROVE Whole'
    <2>1. Network /\ Network' /\ dialogs' \in Seq(Titles) /\ mode' = mode /\ Head(dialogs') = d
      BY <1>1, <1>2, <1>4, NetworkMenuOpens
    <2>2. ~Choosing'
      BY <1>3, <2>1 DEF Choosing, Lines
    <2> QED BY <1>1, <1>3, <1>4, <2>1, <2>2, Same, Framed DEF Open
  <1>5. ASSUME Then(<<"cards", "network">>), proc' = scancards(proc) PROVE Whole'
    <2>1. Network /\ Network' /\ dialogs' \in Seq(Titles) /\ mode' = mode /\ Head(dialogs') = "cards"
      BY <1>1, <1>2, <1>5, NetworkMenuOpens
    <2>2. Edited
      BY <1>3 DEF Whole, Phased, Open
    <2>3. /\ proc.red = proc.kv.type /\ InCounts(proc.kv) /\ Agrees(proc.kv) /\ InRules(proc.kv)
          /\ ~proc.changed => proc.kv = eth /\ ~proc.torn
      BY <1>3, <2>2 DEF Edited
    <2>4. lost' \subseteq Colours
      BY <1>1 DEF Whole, SetupTypes
    <2> QED BY <1>1, <1>2, <1>5, <2>1, <2>3, <2>4, ListOpened DEF Open, InCounts
  <1> QED BY <1>1, <1>4, <1>5

\* What choosing a type of RED changes.
LEMMA RetypedIs ==
  ASSUME NEW p \in Memory, NEW t \in Kinds
  PROVE  /\ Retyped(p, t) \in Memory
         /\ Retyped(p, t).list = p.list /\ Retyped(p, t).torn = p.torn /\ Retyped(p, t).scanned = p.scanned
         /\ Retyped(p, t).red = t /\ Retyped(p, t).changed = TRUE /\ Retyped(p, t).kv.type = t
         /\ \A k \in Colours \ {"RED"} : /\ Retyped(p, t).kv.count[k] = p.kv.count[k]
                                         /\ Retyped(p, t).kv.dev[k] = p.kv.dev[k]
         /\ Retyped(p, t).kv.count["RED"] = IF t \in Modem THEN 0 ELSE 1
         /\ t \notin Modem => Retyped(p, t).kv.dev["RED"] = p.kv.dev["RED"]
  <1>1. p.kv \in Settings
    BY DEF Memory
  <1> DEFINE kv == [p.kv EXCEPT !.type = t, !.dev["RED"] = IF t \in Modem THEN "" ELSE @,
                                !.count["RED"] = IF t \in Modem THEN 0 ELSE 1]
  <1>2. /\ kv \in Settings /\ kv.type = t
        /\ kv.count = [p.kv.count EXCEPT !["RED"] = IF t \in Modem THEN 0 ELSE 1]
        /\ kv.dev = [p.kv.dev EXCEPT !["RED"] = IF t \in Modem THEN "" ELSE @]
    BY <1>1, ColourNames DEF Settings
  <1>3. Retyped(p, t) = [p EXCEPT !.kv = kv, !.red = t, !.changed = TRUE]
    BY <1>1, ColourNames DEF Retyped, Memory, Settings
  <1> HIDE DEF kv
  <1>4. /\ Retyped(p, t) \in Memory /\ Retyped(p, t).kv = kv
        /\ Retyped(p, t).list = p.list /\ Retyped(p, t).torn = p.torn /\ Retyped(p, t).scanned = p.scanned
        /\ Retyped(p, t).red = t /\ Retyped(p, t).changed = TRUE
    BY <1>2, <1>3 DEF Memory
  <1>5. p.kv.count \in [Colours -> {0, 1}] /\ p.kv.dev \in [Colours -> {"", "now", "own"}]
    BY <1>1 DEF Settings
  <1>6. /\ \A k \in Colours \ {"RED"} : kv.count[k] = p.kv.count[k]
        /\ kv.count["RED"] = IF t \in Modem THEN 0 ELSE 1
    <2> DEFINE n == IF t \in Modem THEN 0 ELSE 1
    <2>1. kv.count = [p.kv.count EXCEPT !["RED"] = n]
      BY <1>2
    <2> HIDE DEF n
    <2>2. kv.count["RED"] = n /\ \A k \in Colours \ {"RED"} : kv.count[k] = p.kv.count[k]
      BY <1>5, <2>1, ColourNames
    <2> QED BY <2>2 DEF n
  <1>7. /\ \A k \in Colours \ {"RED"} : kv.dev[k] = p.kv.dev[k]
        /\ t \notin Modem => kv.dev["RED"] = p.kv.dev["RED"]
    <2> DEFINE v == IF t \in Modem THEN "" ELSE p.kv.dev["RED"]
    <2>1. kv.dev = [p.kv.dev EXCEPT !["RED"] = v]
      BY <1>2
    <2> HIDE DEF v
    <2>2. kv.dev["RED"] = v /\ \A k \in Colours \ {"RED"} : kv.dev[k] = p.kv.dev[k]
      BY <1>5, <2>1, ColourNames
    <2> QED BY <2>2 DEF v
  <1> QED BY <1>2, <1>4, <1>6, <1>7

\* redconfigtype: a RED that becomes a modem is not counted any more.
LEMMA RedTypeKept ==
  ASSUME Whole, UNCHANGED ivars, redconfigtype
  PROVE  Whole'
  <1>1. UNCHANGED <<eth, rules, names, plugged, at, restored>> /\ On("type") /\ mode # "off" /\ Head(dialogs) = "type"
    BY DEF redconfigtype, files, world, ivars, On
  <1>2. Shape /\ proc \in Memory /\ lost \subseteq Colours
    BY DEF Whole, SetupTypes
  <1> DEFINE P(t) == IF t = proc.kv.type THEN proc ELSE Retyped(proc, t)
             L(t) == mode = "chroot" \/ (P(t).red \notin Modem /\ ~Has(P(t), "RED"))
  <1>3. PICK t \in RedTypes \cup {proc.kv.type} :
          /\ Then(IF L(t) THEN <<"cards">> ELSE <<>>)
          /\ proc' = IF L(t) THEN scancards(P(t)) ELSE P(t)
          /\ lost' = IF t # proc.kv.type /\ t \in Modem /\ Has(proc, "RED") THEN lost \cup {"RED"} ELSE lost
    BY DEF redconfigtype
  <1>4. t \in Kinds /\ proc.kv \in Settings
    BY <1>2 DEF Kinds, Memory, Settings
  <1>5. lost \subseteq lost' /\ lost' \subseteq Colours
    BY <1>2, <1>3, ColourNames
  <1>6. Open /\ ((Network /\ mode = "setup") \/ (During /\ mode = "chroot"))
    BY <1>1, <1>2, OnWhich DEF Open, Network, During
  <1>7. Edited
    BY <1>6 DEF Whole, Phased
  <1>8. mode = "setup" => Counted(proc.kv) /\ Agrees(proc.kv) /\ InRules(proc.kv)
    BY <1>1, <1>7 DEF Edited, Choosing
  <1>9. /\ proc.red = proc.kv.type /\ InCounts(proc.kv)
        /\ proc.changed \/ (Agrees(proc.kv) /\ InRules(proc.kv))
        /\ ~proc.changed => proc.kv = eth /\ ~proc.torn
    BY <1>7 DEF Edited
  <1>10. CASE t = proc.kv.type
    <2>1. P(t) = proc /\ lost' = lost
      BY <1>3, <1>10
    <2>2. CASE L(t)
      <3>1. Then(<<"cards">>) /\ proc' = scancards(proc)
        BY <1>3, <2>1, <2>2
      <3>2. /\ (Network /\ Network') \/ (During /\ During')
            /\ dialogs' \in Seq(Titles) /\ mode' = mode /\ Head(dialogs') = "cards"
        BY <1>1, <1>2, <3>1, TypeOpens
      <3> QED BY <1>1, <1>2, <1>5, <1>6, <1>9, <2>1, <3>1, <3>2, ListOpened DEF InCounts
    <2>3. CASE ~L(t)
      <3>1. Close /\ proc' = proc /\ mode = "setup"
        BY <1>3, <1>6, <2>1, <2>3 DEF Close
      <3>2. Network' /\ dialogs' \in Seq(Titles) /\ mode' = mode /\ Head(dialogs') = "network"
        BY <1>1, <1>2, <3>1, ListCloses
      <3>3. ~Choosing /\ ~Choosing'
        BY <1>1, <3>1, <3>2 DEF Choosing
      <3> QED BY <1>1, <1>6, <2>1, <3>1, <3>2, <3>3, Same, Framed DEF Open
    <2> QED BY <2>2, <2>3
  <1>11. CASE t # proc.kv.type
    <2> DEFINE p == Retyped(proc, t)
    <2>1. P(t) = p
      BY <1>11
    <2>2. /\ p \in Memory /\ p.list = proc.list /\ p.torn = proc.torn /\ p.scanned = proc.scanned
          /\ p.red = t /\ p.changed = TRUE /\ p.kv.type = t
          /\ \A k \in Colours \ {"RED"} : p.kv.count[k] = proc.kv.count[k] /\ p.kv.dev[k] = proc.kv.dev[k]
          /\ p.kv.count["RED"] = IF t \in Modem THEN 0 ELSE 1
          /\ t \notin Modem => p.kv.dev["RED"] = proc.kv.dev["RED"]
      BY <1>2, <1>4, RetypedIs
    <2> HIDE DEF p
    <2>3. /\ \A k \in Colours \ {"RED"} : Has(proc, k) => p.kv.count[k] = 1
          /\ Has(proc, "RED") /\ p.kv.type \notin Modem => p.kv.count["RED"] = 1
      BY <1>9, <2>2 DEF InCounts
    <2>4. Has(proc, "RED") => p.kv.count["RED"] = 1 \/ "RED" \in lost'
      BY <1>3, <1>11, <2>2
    <2>5. CASE L(t)
      <3>1. Then(<<"cards">>) /\ proc' = scancards(p)
        BY <1>3, <2>1, <2>5
      <3>2. /\ (Network /\ Network') \/ (During /\ During')
            /\ dialogs' \in Seq(Titles) /\ mode' = mode /\ Head(dialogs') = "cards"
        BY <1>1, <1>2, <3>1, TypeOpens
      <3> QED BY <1>1, <1>2, <1>5, <1>6, <1>9, <2>2, <2>3, <2>4, <3>1, <3>2, ListOpened
    <2>6. CASE ~L(t)
      <3>1. Close /\ proc' = p /\ mode = "setup" /\ (t \in Modem \/ Has(proc, "RED"))
        BY <1>3, <1>6, <2>1, <2>2, <2>6 DEF Close, Has
      <3>2. Network' /\ dialogs' \in Seq(Titles) /\ mode' = mode /\ Head(dialogs') = "network"
        BY <1>1, <1>2, <3>1, ListCloses
      <3>3. ~Choosing'
        BY <3>2 DEF Choosing, Network
      <3>4. \A k : Has(proc, k)' <=> Has(proc, k)
        BY <2>2, <3>1 DEF Has
      <3>5. InCounts(proc.kv)'
        BY <2>2, <2>3, <2>4, <3>1, <3>4 DEF InCounts
      <3>6. Counted(proc.kv)'
        BY <1>8, <2>2, <3>1, ColourNames DEF Counted
      <3>7. ASSUME NEW k \in Colours \ lost', p.kv.count[k] = 1 \/ Has(proc, k) PROVE Named(proc.kv, k)'
        <4>1. CASE k # "RED"
          <5>1. Named(proc.kv, k)
            BY <1>5, <1>8, <2>2, <3>1, <3>7, <4>1 DEF Agrees, InRules
          <5> QED BY <1>1, <2>2, <3>1, <4>1, <5>1 DEF Named
        <4>2. CASE k = "RED"
          <5>1. t \notin Modem /\ Has(proc, "RED")
            BY <1>3, <1>11, <2>2, <3>1, <3>7, <4>2
          <5>2. Named(proc.kv, k)
            BY <1>5, <1>8, <3>1, <4>2, <5>1 DEF InRules
          <5> QED BY <1>1, <2>2, <3>1, <4>2, <5>1, <5>2 DEF Named
        <4> QED BY <4>1, <4>2
      <3>8. Agrees(proc.kv)' /\ InRules(proc.kv)'
        BY <3>1, <3>4, <3>7 DEF Agrees, InRules
      <3>9. Counted(eth)' /\ (proc'.torn \/ Agrees(eth)')
        BY <1>1, <1>5, <1>7, <2>2, <3>1 DEF Edited, Counted, Agrees, Named
      <3>10. Edited'
        BY <2>2, <3>1, <3>3, <3>5, <3>6, <3>8, <3>9 DEF Edited
      <3>11. SetupTypes'
        BY <1>1, <1>5, <2>2, <3>1 DEF Whole, SetupTypes
      <3>12. CardsOnce'
        BY <1>1, <1>5, <2>2, <3>1 DEF Whole, CardsOnce, Once
      <3>13. Shape'
        BY <1>1, <3>1, <3>2 DEF Whole, Shape, Network
      <3> QED BY <3>2, <3>10, <3>11, <3>12, <3>13, PhasesNext DEF Whole, Phased, OnePhase, Open
    <2> QED BY <2>5, <2>6
  <1> QED BY <1>10, <1>11

\* The list stays open while it is edited.
LEMMA ListStays ==
  ASSUME Whole, On("cards"), UNCHANGED <<mode, dialogs, eth, rules, names, plugged, lost, at, restored>>,
         proc' \in Memory, proc'.torn = proc.torn, proc'.red = proc'.kv.type,
         Once(proc'.list), \A c \in Cards : proc'.list[c] # "absent" => c \in plugged,
         InCounts(proc.kv)',
         \/ proc'.changed
         \/ /\ proc'.kv = proc.kv /\ proc'.changed = proc.changed
            /\ \A k \in Colours : Has(proc, k)' => Has(proc, k)
  PROVE  Whole'
  <1>1. Shape
    BY DEF Whole
  <1>2. Open /\ mode # "off" /\ Choosing
    BY <1>1, OnWhich DEF On, Open, Choosing
  <1>3. Edited
    BY <1>2 DEF Whole, Phased
  <1>4. (Menu' <=> Menu) /\ (Before' <=> Before) /\ (After' <=> After) /\ (Network' <=> Network)
        /\ (During' <=> During) /\ (Open' <=> Open) /\ (Choosing' <=> Choosing)
    BY DEF Menu, Before, After, Open, Network, During, Choosing, Under
  <1>5. Shape' /\ dialogs' \in Seq(Titles)
    BY <1>1, <1>2, <1>4 DEF Shape
  <1>6. SetupTypes'
    BY DEF Whole, SetupTypes
  <1>7. CardsOnce'
    BY DEF Whole, CardsOnce, Once
  <1>8. proc'.changed \/ (Agrees(proc.kv)' /\ InRules(proc.kv)')
    BY <1>2, <1>3 DEF Edited, Agrees, InRules, Named
  <1>9. ~proc'.changed => proc'.kv = eth /\ ~proc'.torn
    BY <1>3 DEF Edited
  <1>10. mode = "setup" => Counted(eth)' /\ (proc'.torn \/ Agrees(eth)')
    BY <1>3 DEF Edited, Counted, Agrees, Named
  <1>11. Edited'
    BY <1>2, <1>4, <1>8, <1>9, <1>10 DEF Edited
  <1> QED BY <1>2, <1>4, <1>5, <1>6, <1>7, <1>11, PhasesNext DEF Whole, Phased, OnePhase

\* manuallist adds a card without a colour.
LEMMA ManualKept ==
  ASSUME Whole, UNCHANGED ivars, manuallist
  PROVE  Whole'
  <1>1. UNCHANGED <<mode, dialogs, eth, rules, names, plugged, lost, at, restored>> /\ On("cards")
    BY DEF manuallist, files, world, ivars
  <1>2. PICK c \in plugged : proc.list[c] = "absent" /\ proc' = [proc EXCEPT !.list[c] = "NONE"]
    BY DEF manuallist
  <1>3. proc \in Memory /\ c \in Cards /\ proc.list \in [Cards -> Colours \cup {"absent", "NONE"}]
    BY <1>2 DEF Whole, SetupTypes, Memory
  <1>4. /\ proc' \in Memory /\ proc'.list = [proc.list EXCEPT ![c] = "NONE"] /\ proc'.kv = proc.kv
        /\ proc'.red = proc.red /\ proc'.torn = proc.torn /\ proc'.changed = proc.changed
    BY <1>2, <1>3 DEF Memory
  <1>5. \A d \in Cards : proc'.list[d] \in Colours \/ proc.list[d] \in Colours => proc'.list[d] = proc.list[d]
    BY <1>2, <1>3, <1>4, ColourNames
  <1>6. \A k \in Colours : Has(proc, k)' <=> Has(proc, k)
    BY <1>5 DEF Has
  <1>7. Edited
    BY <1>1, OnWhich DEF Whole, Phased, Open
  <1>8. Once(proc'.list)
    BY <1>5 DEF Whole, CardsOnce, Once
  <1>9. \A d \in Cards : proc'.list[d] # "absent" => d \in plugged
    BY <1>2, <1>3, <1>4 DEF Whole, CardsOnce
  <1>10. InCounts(proc.kv)'
    BY <1>1, <1>4, <1>5, <1>6, <1>7, ColourNames DEF Edited, InCounts
  <1>11. proc'.red = proc'.kv.type
    BY <1>4, <1>7 DEF Edited
  <1> QED BY <1>1, <1>4, <1>6, <1>8, <1>9, <1>10, <1>11, ListStays

\* The keys of one colour change.
LEMMA KeysOf ==
  ASSUME NEW kv \in Settings, NEW colour \in Colours \cup {"NONE"}, NEW c \in Cards \cup {None}
  PROVE  /\ updatesettings(kv, colour, c) \in Settings
         /\ updatesettings(kv, colour, c).type = kv.type
         /\ \A k \in Colours \ {colour} : updatesettings(kv, colour, c).count[k] = kv.count[k]
         /\ colour \in Colours /\ c # None => updatesettings(kv, colour, c).count[colour] = 1
  <1>1. CASE colour = "NONE"
    BY <1>1, ColourNames DEF updatesettings
  <1>2. CASE colour # "NONE"
    <2> DEFINE n == IF c = None THEN 0 ELSE 1
               v == IF c = None \/ c \in Dead THEN "" ELSE "now"
    <2>1. n \in {0, 1} /\ v \in {"", "now", "own"} /\ (c # None => n = 1) /\ colour \in Colours
      BY <1>2
    <2>2. updatesettings(kv, colour, c) = [kv EXCEPT !.count[colour] = n, !.dev[colour] = v]
      BY <1>2 DEF updatesettings
    <2> HIDE DEF n, v
    <2>3. kv.count \in [Colours -> {0, 1}] /\ kv.dev \in [Colours -> {"", "now", "own"}]
      BY DEF Settings
    <2> DEFINE cs == [kv.count EXCEPT ![colour] = n]
               ds == [kv.dev EXCEPT ![colour] = v]
    <2>4. /\ cs \in [Colours -> {0, 1}] /\ ds \in [Colours -> {"", "now", "own"}]
          /\ cs[colour] = n /\ \A k \in Colours \ {colour} : cs[k] = kv.count[k]
      BY <2>1, <2>3
    <2>5. updatesettings(kv, colour, c) = [kv EXCEPT !.count = cs, !.dev = ds]
      BY <2>2 DEF Settings
    <2> HIDE DEF cs, ds
    <2>6. /\ updatesettings(kv, colour, c) \in Settings
          /\ updatesettings(kv, colour, c).type = kv.type
          /\ updatesettings(kv, colour, c).count = cs
      BY <2>4, <2>5 DEF Settings
    <2> QED BY <2>1, <2>4, <2>6
  <1> QED BY <1>1, <1>2

\* A card gets a colour no other card has, and gives up its own.
LEMMA CardKept ==
  ASSUME Whole, UNCHANGED ivars, cardconfig
  PROVE  Whole'
  <1>1. UNCHANGED <<mode, dialogs, eth, rules, names, plugged, lost, at, restored>> /\ On("cards")
    BY DEF cardconfig, files, world, ivars
  <1>2. PICK c \in Cards, k \in Offered(proc) \cup {"NONE"} :
          /\ proc.list[c] # "absent"
          /\ proc' = [proc EXCEPT !.kv = updatesettings(updatesettings(@, proc.list[c], None), k, c),
                                  !.list[c] = k, !.changed = TRUE]
    BY DEF cardconfig
  <1>3. /\ proc \in Memory /\ proc.kv \in Settings
        /\ proc.list \in [Cards -> Colours \cup {"absent", "NONE"}] /\ c # None
        /\ k \in Colours \cup {"NONE"} /\ proc.list[c] \in Colours \cup {"NONE"}
        /\ k \in Colours => \A d \in Cards : proc.list[d] # k
    BY <1>2, SetupAssumption, ColourNames DEF Whole, SetupTypes, Memory, SetupAssumption, Offered, Has
  <1> DEFINE old == updatesettings(proc.kv, proc.list[c], None)
             kv  == updatesettings(old, k, c)
  <1>4. /\ old \in Settings /\ old.type = proc.kv.type
        /\ \A x \in Colours \ {proc.list[c]} : old.count[x] = proc.kv.count[x]
    BY <1>3, KeysOf
  <1> HIDE DEF old
  <1>5. /\ kv \in Settings /\ kv.type = old.type
        /\ \A x \in Colours \ {k} : kv.count[x] = old.count[x]
        /\ k \in Colours => kv.count[k] = 1
    BY <1>3, <1>4, KeysOf
  <1>6. proc' = [proc EXCEPT !.kv = kv, !.list[c] = k, !.changed = TRUE]
    BY <1>2 DEF old
  <1> HIDE DEF kv
  <1>7. /\ proc' \in Memory /\ proc'.list = [proc.list EXCEPT ![c] = k] /\ proc'.kv = kv
        /\ proc'.red = proc.red /\ proc'.torn = proc.torn /\ proc'.changed = TRUE
    BY <1>3, <1>5, <1>6 DEF Memory
  <1>8. proc'.list[c] = k /\ \A d \in Cards \ {c} : proc'.list[d] = proc.list[d]
    BY <1>3, <1>7
  <1>9. Once(proc.list) /\ \A d \in Cards : proc.list[d] # "absent" => d \in plugged
    BY DEF Whole, CardsOnce
  <1>10. Once(proc'.list)
    BY <1>3, <1>8, <1>9 DEF Once
  <1>11. \A d \in Cards : proc'.list[d] # "absent" => d \in plugged
    BY <1>2, <1>8, <1>9
  <1>12. Edited
    BY <1>1, OnWhich DEF Whole, Phased, Open
  <1>13. proc'.red = proc'.kv.type
    BY <1>4, <1>5, <1>7, <1>12 DEF Edited
  <1>14. ASSUME NEW x \in Colours, Has(proc, x)'
         PROVE  \/ kv.count[x] = 1
                \/ /\ Has(proc, x) /\ kv.count[x] = proc.kv.count[x]
                   /\ \A d \in Cards : proc.list[d] = x => proc'.list[d] = x
    <2>1. PICK d \in Cards : proc'.list[d] = x
      BY <1>14 DEF Has
    <2>2. CASE d = c
      BY <1>5, <1>8, <2>1, <2>2
    <2>3. CASE d # c
      <3>1. proc.list[d] = x /\ proc.list[c] # x
        BY <1>8, <1>9, <2>1, <2>3 DEF Once
      <3>2. k # x
        BY <1>3, <3>1
      <3>3. kv.count[x] = proc.kv.count[x]
        BY <1>4, <1>5, <3>1, <3>2
      <3> QED BY <1>8, <3>1, <3>3 DEF Has
    <2> QED BY <2>2, <2>3
  <1>15. InCounts(proc.kv)'
    <2>1. InCounts(proc.kv)
      BY <1>12 DEF Edited
    <2>2. \A x \in Colours \ {"RED"} : Has(proc, x)' => kv.count[x] = 1
      BY <1>14, <2>1 DEF InCounts
    <2>3. Has(proc, "RED")' /\ kv.type \notin Modem => kv.count["RED"] = 1
      BY <1>4, <1>5, <1>14, <2>1, ColourNames DEF InCounts
    <2>4. Has(proc, "RED")' => \/ kv.count["RED"] = 1
                               \/ "RED" \in lost
                               \/ \E d \in Cards \ Dead : proc'.list[d] = "RED"
      BY <1>14, <2>1, ColourNames DEF InCounts
    <2> QED BY <1>1, <1>7, <2>2, <2>3, <2>4 DEF InCounts
  <1> QED BY <1>1, <1>7, <1>10, <1>11, <1>13, <1>15, ListStays

\* The dialogs that follow the card list in an installation.
LEMMA JoinedSome ==
  ASSUME NEW S, NEW s \in Seq(S), s # <<>>, NEW t \in Seq(S)
  PROVE  s \o t \in Seq(S) /\ s \o t # <<>>
  <1>1. s \o t \in Seq(S) /\ Len(s \o t) = Len(s) + Len(t) /\ Len(s) \in Nat \ {0} /\ Len(t) \in Nat
    OBVIOUS
  <1> QED BY <1>1

\* The parts of Forms.
LEMMA FormsParts ==
  ASSUME NEW red, NEW blue \in BOOLEAN, NEW orange \in BOOLEAN
  PROVE  /\ <<"GREEN">> \in Seq(Colours \cup Lines)
         /\ (CASE red = "STATIC"          -> <<"RED", "dns">>
               [] red \in {"PPPOE", "PPTP"} -> <<"RED">>
               [] red = "DHCP"            -> <<"dhcphost", "dns">>
               [] red = "ISDN"            -> <<"isdn">>
               [] OTHER                   -> <<>>) \in Seq(Colours \cup Lines)
         /\ (IF "BLUE" \in Colours /\ blue THEN <<"BLUE">> ELSE <<>>) \in Seq(Colours \cup Lines)
         /\ (IF "ORANGE" \in Colours /\ orange THEN <<"ORANGE">> ELSE <<>>) \in Seq(Colours \cup Lines)
  <1> DEFINE S == Colours \cup Lines
  <1>1. {"GREEN", "RED", "dns", "dhcphost", "isdn"} \subseteq S
    BY ColourNames DEF Lines
  <1>2. ("BLUE" \in Colours => <<"BLUE">> \in Seq(S)) /\ ("ORANGE" \in Colours => <<"ORANGE">> \in Seq(S))
    BY OneElement
  <1> HIDE DEF S
  <1>3. /\ <<"GREEN">> \in Seq(S) /\ <<"RED", "dns">> \in Seq(S) /\ <<"RED">> \in Seq(S)
        /\ <<"dhcphost", "dns">> \in Seq(S) /\ <<"isdn">> \in Seq(S) /\ <<>> \in Seq(S)
    <2>1. <<>> \in Seq(S)
      OBVIOUS
    <2> QED BY <1>1, <2>1, OneElement, TwoElements
  <1> DEFINE r == CASE red = "STATIC"          -> <<"RED", "dns">>
                    [] red \in {"PPPOE", "PPTP"} -> <<"RED">>
                    [] red = "DHCP"            -> <<"dhcphost", "dns">>
                    [] red = "ISDN"            -> <<"isdn">>
                    [] OTHER                   -> <<>>
  <1>4. r \in Seq(S)
    <2>1. CASE red = "STATIC"
      BY <1>3, <2>1
    <2>2. CASE red \in {"PPPOE", "PPTP"}
      BY <1>3, <2>2
    <2>3. CASE red = "DHCP"
      BY <1>3, <2>3
    <2>4. CASE red = "ISDN"
      BY <1>3, <2>4
    <2>5. CASE red \notin {"STATIC", "PPPOE", "PPTP", "DHCP", "ISDN"}
      BY <1>3, <2>5
    <2> QED BY <2>1, <2>2, <2>3, <2>4, <2>5
  <1>5. /\ (IF "BLUE" \in Colours /\ blue THEN <<"BLUE">> ELSE <<>>) \in Seq(S)
        /\ (IF "ORANGE" \in Colours /\ orange THEN <<"ORANGE">> ELSE <<>>) \in Seq(S)
    BY <1>2, <1>3
  <1> QED BY <1>3, <1>4, <1>5 DEF S

\* The forms are those of colours and lines.
LEMMA FormsTyped ==
  ASSUME NEW p
  PROVE  Forms(p) \in Seq(Colours \cup Lines) /\ Forms(p) # <<>>
  <1> DEFINE S == Colours \cup Lines
             g == <<"GREEN">>
             r == CASE p.red = "STATIC"          -> <<"RED", "dns">>
                    [] p.red \in {"PPPOE", "PPTP"} -> <<"RED">>
                    [] p.red = "DHCP"            -> <<"dhcphost", "dns">>
                    [] p.red = "ISDN"            -> <<"isdn">>
                    [] OTHER                     -> <<>>
             b == IF "BLUE" \in Colours /\ p.kv.count["BLUE"] # 0 THEN <<"BLUE">> ELSE <<>>
             o == IF "ORANGE" \in Colours /\ p.kv.count["ORANGE"] # 0 THEN <<"ORANGE">> ELSE <<>>
  <1>1. g \in Seq(S) /\ r \in Seq(S) /\ b \in Seq(S) /\ o \in Seq(S)
    BY FormsParts
  <1>2. g # <<>>
    OBVIOUS
  <1>3. Forms(p) = ((g \o r) \o b) \o o
    BY DEF Forms
  <1> HIDE DEF S, r, b, o, g
  <1>4. g \o r \in Seq(S) /\ g \o r # <<>>
    BY <1>1, <1>2, JoinedSome
  <1>5. (g \o r) \o b \in Seq(S) /\ (g \o r) \o b # <<>>
    BY <1>1, <1>4, JoinedSome
  <1>6. ((g \o r) \o b) \o o \in Seq(S) /\ ((g \o r) \o b) \o o # <<>>
    BY <1>1, <1>5, JoinedSome
  <1> QED BY <1>3, <1>6 DEF S

\* Where closing the card list leads.
LEMMA ListLeft ==
  ASSUME Shape, On("cards"), NEW p, Then(IF mode = "chroot" THEN Forms(p) ELSE <<>>)
  PROVE  /\ (Network /\ Network') \/ (During /\ During')
         /\ dialogs' \in Seq(Titles) /\ mode' = mode /\ ~Choosing'
  <1>1. mode \in {"setup", "chroot"}
    BY DEF Shape, On, Menu, Network, Before, During, After
  <1>2. CASE mode = "setup"
    <2>1. Close
      BY <1>2 DEF Close
    <2>2. Network /\ Network' /\ dialogs' \in Seq(Titles) /\ mode' = mode /\ Head(dialogs') = "network"
      BY <1>2, <2>1, ListCloses
    <2> QED BY <1>2, <2>2 DEF Choosing
  <1>3. CASE mode = "chroot"
    <2>1. Then(Forms(p))
      BY <1>3
    <2> QED BY <1>3, <2>1, FormsTyped, FormsOpen
  <1> QED BY <1>1, <1>2, <1>3

\* The card list is closed and its rules are written: every colour that is
\* counted or listed has a rule, or is lost.
LEMMA RulesWritten ==
  ASSUME Whole, On("cards"), UNCHANGED <<eth, names, plugged, at, restored>>, Has(proc, "GREEN"),
         NEW p \in Memory, p.list = proc.list, p.red = p.kv.type, p.changed, InCounts(p.kv),
         p.red \notin Modem => Has(proc, "RED"),
         udevconfig(p), Then(IF mode = "chroot" THEN Forms(p) ELSE <<>>)
  PROVE  Whole'
  <1>1. Shape /\ lost \subseteq Colours /\ p.kv \in Settings /\ p.list \in [Cards -> Colours \cup {"absent", "NONE"}]
    BY DEF Whole, SetupTypes, Memory
  <1>2. /\ (Network /\ Network') \/ (During /\ During')
        /\ dialogs' \in Seq(Titles) /\ mode' = mode /\ ~Choosing'
    BY <1>1, ListLeft
  <1> DEFINE named == {k \in Colours : \E c \in Cards \ Dead : p.list[c] = k}
             dev   == [k \in Colours |-> IF k \in named THEN "own" ELSE p.kv.dev[k]]
             kv    == [p.kv EXCEPT !.dev = dev]
  <1>3. /\ rules' = [c \in Cards |-> IF c \in Dead \/ p.list[c] = "absent" THEN "" ELSE p.list[c]]
        /\ lost' = (lost \cup {k \in Colours : p.kv.count[k] = 1}) \ named
        /\ proc' = [p EXCEPT !.kv.dev = dev, !.torn = TRUE]
    BY DEF udevconfig
  <1>4. proc' = [p EXCEPT !.kv = kv, !.torn = TRUE]
    BY <1>3 DEF Memory
  <1>5. dev \in [Colours -> {"", "now", "own"}] /\ \A k \in named : dev[k] = "own"
    BY <1>1 DEF Settings
  <1>6. /\ named \subseteq Colours
        /\ \A k \in named : \E c \in Cards \ Dead : p.list[c] = k
        /\ \A k \in Colours, c \in Cards \ Dead : p.list[c] = k => k \in named
    OBVIOUS
  <1> HIDE DEF named, dev
  <1>7. kv \in Settings /\ kv.type = p.kv.type /\ kv.count = p.kv.count /\ kv.dev = dev
    BY <1>1, <1>5 DEF Settings
  <1> HIDE DEF kv
  <1>8. /\ proc' \in Memory /\ proc'.kv = kv /\ proc'.list = proc.list /\ proc'.red = p.red
        /\ proc'.changed = TRUE /\ proc'.torn = TRUE
    BY <1>4, <1>7 DEF Memory
  <1>9. /\ lost' \subseteq Colours /\ lost \subseteq lost' \cup named
        /\ \A k \in Colours \ lost' : p.kv.count[k] = 1 => k \in named
    BY <1>1, <1>3
  <1>10. /\ rules' \in NetRules
         /\ \A c \in Cards : rules'[c] \in Colours => rules'[c] = proc.list[c]
         /\ \A k \in named : \E c \in Cards : rules'[c] = k
    BY <1>1, <1>3, <1>6, ColourNames DEF NetRules
  <1>11. SetupTypes'
    BY <1>8, <1>9, <1>10 DEF Whole, SetupTypes
  <1>12. CardsOnce'
    <2>1. Once(rules')
      BY <1>10 DEF Whole, CardsOnce, Once
    <2>2. \A c \in Cards : rules'[c] \in Colours => c \in plugged
      BY <1>10, ColourNames DEF Whole, CardsOnce
    <2> QED BY <1>8, <2>1, <2>2 DEF Whole, CardsOnce, Once
  <1>13. Shape'
    BY <1>1, <1>2 DEF Shape, Network, During, On
  <1>14. \A k : Has(proc, k)' <=> Has(proc, k)
    BY <1>8 DEF Has
  <1>15. /\ Counted(proc.kv)'
    BY <1>7, <1>8, ColourNames DEF Counted, InCounts
  <1>16. \A k \in named : Named(proc.kv, k)'
    BY <1>5, <1>7, <1>8, <1>10 DEF Named
  <1>17. Agrees(proc.kv)'
    BY <1>7, <1>8, <1>9, <1>16 DEF Agrees
  <1>18. \A k \in Colours \ lost' : Has(proc, k) => k \in named
    <2>1. \A k \in Colours \ (lost' \cup {"RED"}) : Has(proc, k) => k \in named
      BY <1>9 DEF InCounts
    <2>2. "RED" \notin lost' /\ Has(proc, "RED") => "RED" \in named
      BY <1>6, <1>9, ColourNames DEF InCounts
    <2> QED BY <2>1, <2>2
  <1>19. InRules(proc.kv)'
    BY <1>14, <1>16, <1>18 DEF InRules
  <1>20. InCounts(proc.kv)'
    <2>1. Has(proc, "RED") => \/ p.kv.count["RED"] = 1
                              \/ "RED" \in lost'
                              \/ \E c \in Cards \ Dead : proc.list[c] = "RED"
      BY <1>6, <1>9 DEF InCounts
    <2> QED BY <1>7, <1>8, <1>14, <2>1 DEF InCounts
  <1>21. mode = "setup" => Counted(eth)
    BY <1>2 DEF Whole, Phased, Edited, Open
  <1>22. Edited'
    BY <1>2, <1>7, <1>8, <1>15, <1>17, <1>19, <1>20, <1>21 DEF Edited, Counted
  <1> QED BY <1>2, <1>11, <1>12, <1>13, <1>22, PhasesNext DEF Whole, Phased, OnePhase, Open

\* The card list is closed and its rules cannot be written: every colour is lost.
LEMMA RulesLost ==
  ASSUME Whole, On("cards"), UNCHANGED <<eth, names, plugged, at, restored>>, Has(proc, "GREEN"),
         NEW p \in Memory, p.list = proc.list, p.red = p.kv.type, p.changed, InCounts(p.kv),
         p.red \notin Modem => Has(proc, "RED"),
         udevFails(p), Then(IF mode = "chroot" THEN Forms(p) ELSE <<>>)
  PROVE  Whole'
  <1>1. Shape /\ rules' = rules /\ proc' = p /\ lost' = Colours
    BY DEF Whole, udevFails
  <1>2. /\ (Network /\ Network') \/ (During /\ During')
        /\ dialogs' \in Seq(Titles) /\ mode' = mode /\ ~Choosing'
    BY <1>1, ListLeft
  <1>3. SetupTypes'
    BY <1>1 DEF Whole, SetupTypes
  <1>4. CardsOnce'
    BY <1>1 DEF Whole, CardsOnce, Once
  <1>5. Shape'
    BY <1>1, <1>2 DEF Shape, Network, During, On
  <1>6. \A k : Has(proc, k)' <=> Has(proc, k)
    BY <1>1 DEF Has
  <1>7. Counted(proc.kv)'
    BY <1>1, ColourNames DEF Counted, InCounts
  <1>9. Agrees(proc.kv)' /\ InRules(proc.kv)' /\ Agrees(eth)'
    BY <1>1 DEF Agrees, InRules
  <1>10. InCounts(proc.kv)'
    BY <1>1, <1>6, ColourNames DEF InCounts
  <1>11. mode = "setup" => Counted(eth)
    BY <1>2 DEF Whole, Phased, Edited, Open
  <1>12. Edited'
    BY <1>1, <1>2, <1>7, <1>9, <1>10, <1>11 DEF Edited, Counted
  <1> QED BY <1>2, <1>3, <1>4, <1>5, <1>12, PhasesNext DEF Whole, Phased, OnePhase, Open

\* cardlistDone, with a RED that is reset, with changes, and without.
LEMMA ListDoneKept ==
  ASSUME Whole, UNCHANGED ivars, cardlistDone
  PROVE  Whole'
  <1> DEFINE needed == proc.red \notin Modem /\ ~Has(proc, "RED")
             p == IF needed THEN Retyped(proc, "ANALOG") ELSE proc
  <1>1. /\ UNCHANGED <<eth, names, plugged, at, restored>> /\ On("cards") /\ Has(proc, "GREEN")
        /\ \/ p.changed /\ (udevconfig(p) \/ udevFails(p))
           \/ ~p.changed /\ UNCHANGED <<rules, proc, lost>>
        /\ Then(IF mode = "chroot" THEN Forms(p) ELSE <<>>)
    BY DEF cardlistDone, world, ivars
  <1>2. Shape /\ proc \in Memory
    BY DEF Whole, SetupTypes
  <1>3. Open /\ Choosing
    BY <1>1, <1>2, OnWhich DEF Open, Choosing, On
  <1>4. Edited
    BY <1>3 DEF Whole, Phased
  <1>5. CASE needed
    <2>1. p = Retyped(proc, "ANALOG")
      BY <1>5
    <2>2. /\ p \in Memory /\ p.list = proc.list /\ p.red = "ANALOG" /\ p.changed = TRUE /\ p.kv.type = "ANALOG"
          /\ \A k \in Colours \ {"RED"} : p.kv.count[k] = proc.kv.count[k]
      <3>1. "ANALOG" \in Kinds
        BY DEF Kinds
      <3>2. \A t \in Kinds : LET r == Retyped(proc, t) IN
              /\ r \in Memory /\ r.list = proc.list /\ r.red = t /\ r.changed = TRUE /\ r.kv.type = t
              /\ \A k \in Colours \ {"RED"} : r.kv.count[k] = proc.kv.count[k]
        <4> HIDE DEF p, needed
        <4> TAKE t \in Kinds
        <4>1. /\ Retyped(proc, t) \in Memory /\ Retyped(proc, t).list = proc.list
              /\ Retyped(proc, t).red = t /\ Retyped(proc, t).changed = TRUE /\ Retyped(proc, t).kv.type = t
          BY <1>2, RetypedIs
        <4>2. \A k \in Colours \ {"RED"} : Retyped(proc, t).kv.count[k] = proc.kv.count[k]
          <5>1. \A k \in Colours \ {"RED"} : /\ Retyped(proc, t).kv.count[k] = proc.kv.count[k]
                                           /\ Retyped(proc, t).kv.dev[k] = proc.kv.dev[k]
            BY <1>2, RetypedIs, Zenon
          <5> QED BY <5>1
        <4> QED BY <4>1, <4>2
      <3> HIDE DEF p
      <3> QED BY <2>1, <3>1, <3>2
    <2>3. InCounts(p.kv)
      BY <1>4, <1>5, <2>2 DEF Edited, InCounts
    <2>4. p.red \in Modem
      BY <2>2 DEF Modem
    <2>5. udevconfig(p) \/ udevFails(p)
      BY <1>1, <2>2
    <2>6. Then(IF mode = "chroot" THEN Forms(p) ELSE <<>>)
      BY <1>1
    <2> HIDE DEF p
    <2> QED BY <1>1, <2>2, <2>3, <2>4, <2>5, <2>6, RulesWritten, RulesLost
  <1>6. CASE ~needed /\ proc.changed
    <2>1. /\ udevconfig(proc) \/ udevFails(proc)
          /\ Then(IF mode = "chroot" THEN Forms(proc) ELSE <<>>)
          /\ proc.red \notin Modem => Has(proc, "RED")
      BY <1>1, <1>6
    <2>2. proc.red = proc.kv.type /\ InCounts(proc.kv)
      BY <1>4 DEF Edited
    <2> QED BY <1>1, <1>2, <1>6, <2>1, <2>2, RulesWritten, RulesLost
  <1>7. CASE ~needed /\ ~proc.changed
    <2>1. /\ UNCHANGED <<rules, proc, lost>> /\ Then(IF mode = "chroot" THEN Forms(proc) ELSE <<>>)
          /\ proc.red \notin Modem => Has(proc, "RED")
      BY <1>1, <1>7
    <2>2. /\ (Network /\ Network') \/ (During /\ During')
          /\ dialogs' \in Seq(Titles) /\ mode' = mode /\ ~Choosing'
      BY <1>1, <1>2, <2>1, ListLeft
    <2>3. /\ proc.red = proc.kv.type /\ InCounts(proc.kv) /\ Agrees(proc.kv) /\ InRules(proc.kv)
          /\ proc.kv = eth /\ ~proc.torn /\ (mode = "setup" => Counted(eth) /\ (proc.torn \/ Agrees(eth)))
      BY <1>3, <1>4, <1>7 DEF Edited
    <2>4. Counted(proc.kv)
      BY <1>1, <2>1, <2>3, ColourNames DEF Counted, InCounts
    <2>5. /\ InRules(proc.kv)' <=> InRules(proc.kv)
          /\ InCounts(proc.kv)' <=> InCounts(proc.kv)
          /\ Agrees(proc.kv)' <=> Agrees(proc.kv)
          /\ Counted(proc.kv)' <=> Counted(proc.kv)
      BY <2>1 DEF InRules, InCounts, Agrees, Counted, Named, Has
    <2>6. Edited'
      BY <1>1, <2>1, <2>2, <2>3, <2>4, <2>5, SameList DEF Edited
    <2>7. SetupTypes' /\ CardsOnce'
      BY <1>1, <2>1 DEF Whole, SetupTypes, CardsOnce, Once
    <2>8. Shape'
      BY <1>1, <1>2, <2>2 DEF Shape, Network, During
    <2> QED BY <2>2, <2>6, <2>7, <2>8, PhasesNext DEF Whole, Phased, OnePhase, Open
  <1> QED BY <1>5, <1>6, <1>7

\* Leaving the network menu writes what is in memory, and rc.net names the
\* devices by the rules.
LEMMA WriteKept ==
  ASSUME Whole, UNCHANGED ivars, WriteSettings
  PROVE  Whole'
  <1>1. /\ UNCHANGED <<rules, plugged, lost, at, restored>>
        /\ mode # "off" /\ Head(dialogs) \in {"network", "write"} /\ Close
        /\ proc' = [proc EXCEPT !.torn = FALSE, !.kv = Fresh]
        /\ names' = rules \/ names' = names
    BY DEF WriteSettings, world, ivars, On
  <1>2. Shape /\ proc \in Memory
    BY DEF Whole, SetupTypes
  <1>3. dialogs' \in Seq(Titles) /\ Open /\ ~Choosing /\ (Menu' \/ After')
    BY <1>1, <1>2, Popped
  <1>4. /\ proc.red = proc.kv.type /\ InCounts(proc.kv) /\ Counted(proc.kv) /\ Agrees(proc.kv) /\ InRules(proc.kv)
        /\ ~proc.changed => proc.kv = eth
    BY <1>3 DEF Whole, Phased, Edited
  <1>5. eth' = proc.kv
    BY <1>4 DEF WriteSettings
  <1>6. proc' \in Memory /\ proc'.list = proc.list /\ ~proc'.torn
    BY <1>1, <1>2, IdleTyped DEF Memory
  <1>7. Settled'
    <2>1. \A k : Has(proc, k)' <=> Has(proc, k)
      BY <1>6 DEF Has
    <2>2. InRules(eth)' /\ InCounts(eth)' /\ Agrees(eth)' /\ Counted(eth)'
      BY <1>1, <1>4, <1>5, <1>6, <2>1 DEF InRules, InCounts, Agrees, Counted, Named
    <2> QED BY <1>6, <2>2 DEF Settled
  <1>8. SetupTypes'
    <2>1. eth' \in Settings
      BY <1>2, <1>5 DEF Memory
    <2> QED BY <1>1, <1>6, <2>1 DEF Whole, SetupTypes
  <1>9. CardsOnce'
    BY <1>1, <1>6 DEF Whole, CardsOnce, Once
  <1>10. Shape'
    <2>1. mode' = mode
      <3>1. Menu' => mode' = "setup"
        BY DEF Menu
      <3>2. After' => mode' = "chroot"
        BY DEF After
      <3>3. mode' \in {"off", mode}
        BY <1>1 DEF Close, Then
      <3> QED BY <1>3, <3>1, <3>2, <3>3
    <2> QED BY <1>1, <1>2, <1>3, <2>1 DEF Shape
  <1> QED BY <1>3, <1>7, <1>8, <1>9, <1>10, PhasesNext DEF Whole, Phased, OnePhase

-----------------------------------------------------------------------------
\* Nothing setup knows of changes, and the installer stays on its side of it.
LEMMA Idled ==
  ASSUME Whole, UNCHANGED vars, at' # "setup" \/ ~restored',
         \/ at \notin {"setup", "done", "up"} /\ at' \notin {"setup", "done", "up"}
         \/ UNCHANGED <<at, restored>>
         \/ at = "setup" /\ mode = "off" /\ at' = "done" /\ restored' = restored
  PROVE  Whole'
  <1>1. UNCHANGED <<mode, dialogs, proc, eth, rules, names, plugged, lost>>
    BY DEF vars
  <1>2. (Menu' <=> Menu) /\ (Before' <=> Before) /\ (After' <=> After) /\ (Network' <=> Network)
        /\ (During' <=> During) /\ (Open' <=> Open) /\ (Choosing' <=> Choosing)
    BY <1>1 DEF Menu, Before, After, Open, Network, During, Choosing, Under
  <1>3. /\ mode = "off" \/ mode = "setup" \/ mode = "chroot"
        /\ mode = "setup" => at = "up"
        /\ mode = "chroot" => at = "setup"
        /\ at = "setup" => ~restored
    BY DEF Whole, Shape, Menu, Network, Before, During, After
  <1>4. SetupTypes' /\ CardsOnce'
    BY <1>1 DEF Whole, SetupTypes, CardsOnce, Once
  <1>5. Shape'
    BY <1>1, <1>2, <1>3 DEF Whole, Shape
  <1>6. (NotYet' => NotYet) /\ (Quiet' => Quiet)
    BY <1>1, <1>2, <1>3 DEF NotYet, Quiet
  <1>7. /\ InRules(proc.kv)' <=> InRules(proc.kv)
        /\ InCounts(proc.kv)' <=> InCounts(proc.kv)
        /\ Agrees(proc.kv)' <=> Agrees(proc.kv)
        /\ Counted(proc.kv)' <=> Counted(proc.kv)
    BY <1>1 DEF InRules, InCounts, Agrees, Counted, Named, Has
  <1>8. (Blank' <=> Blank) /\ (Settled' <=> Settled)
    BY <1>1, SameList DEF Blank, Settled
  <1>9. Edited' <=> Edited
    BY <1>1, <1>2, <1>7, SameList DEF Edited
  <1>10. Phased'
    BY <1>2, <1>6, <1>8, <1>9 DEF Whole, Phased
  <1> QED BY <1>4, <1>5, <1>10 DEF Whole

\* Steps of the installer that neither start setup nor end it.
LEMMA InstallerSteps ==
  ASSUME \/ Welcome \/ scan_hardware \/ Rescan \/ findsource \/ source_network
         \/ selectdestination \/ selecttarget \/ MakeStep \/ MakeDone
         \/ handlerestore \/ SkipRestore
  PROVE  UNCHANGED vars /\ at \notin {"setup", "done", "up"} /\ at' \notin {"setup", "done", "up"}
  <1>1. UNCHANGED vars
    BY DEF Welcome, scan_hardware, Rescan, findsource, source_network, selectdestination, selecttarget,
           MakeStep, MakeDone, handlerestore, SkipRestore
  <1>2. at \notin {"setup", "done", "up"} /\ at' \notin {"setup", "done", "up"}
    <2>1. CASE Welcome \/ scan_hardware \/ Rescan
      BY <2>1 DEF Welcome, scan_hardware, Rescan
    <2>2. CASE findsource \/ source_network
      BY <2>2 DEF findsource, source_network
    <2>3. CASE selectdestination
      BY <2>3 DEF selectdestination, Choose
    <2>4. CASE selecttarget \/ MakeStep \/ MakeDone \/ handlerestore \/ SkipRestore
      BY <2>4 DEF selecttarget, MakeStep, MakeDone, handlerestore, SkipRestore
    <2> QED BY <2>1, <2>2, <2>3, <2>4
  <1> QED BY <1>1, <1>2

\* They change nothing setup knows of.
LEMMA InstallerIdles ==
  ASSUME Whole,
         \/ Welcome \/ scan_hardware \/ Rescan \/ findsource \/ source_network
         \/ selectdestination \/ selecttarget \/ MakeStep \/ MakeDone
         \/ handlerestore \/ SkipRestore
  PROVE  Whole'
BY InstallerSteps, Idled

\* The installer starts setup, if it can be run.
LEMMA RunSetupKept ==
  ASSUME Whole, RunSetup, ~died'
  PROVE  Whole'
  <1>1. UNCHANGED <<proc, eth, rules, names, plugged, lost, restored>> /\ at = "congratulations"
    BY DEF RunSetup, files
  <1>2. mode = "off" /\ dialogs = <<>> /\ proc = Idle
    BY <1>1 DEF Whole, Shape, Menu, Network, Before, During, After
  <1>3. Blank
    BY <1>1, <1>2 DEF Whole, Phased, NotYet
  <1>4. Blank' /\ SetupTypes' /\ CardsOnce'
    BY <1>1, <1>3 DEF Whole, Blank, SetupTypes, CardsOnce, Once
  <1>5. CASE restored
    <2>1. at' = "done" /\ UNCHANGED <<mode, dialogs>>
      BY <1>5 DEF RunSetup
    <2>2. Shape'
      BY <1>1, <1>2, <2>1 DEF Whole, Shape
    <2>3. NotYet' /\ ~Open' /\ ~Quiet'
      BY <1>1, <1>2, <1>5, <2>1 DEF NotYet, Open, Quiet, Network, During, Menu, After
    <2> QED BY <1>4, <2>2, <2>3 DEF Whole, Phased
  <1>6. CASE ~restored
    <2> DEFINE ds == <<"keymap", "hostname", "domain", "networking", "root", "admin", "backup">>
    <2>1. at' = "setup" /\ mode' = "chroot" /\ dialogs' = ds
      BY <1>6 DEF RunSetup
    <2>2. /\ Len(ds) = 7 /\ ds[1] = "keymap" /\ ds[2] = "hostname" /\ ds[3] = "domain" /\ ds[4] = "networking"
          /\ ds[5] = "root" /\ ds[6] = "admin" /\ ds[7] = "backup"
      OBVIOUS
    <2>3. ds \in Seq(Titles)
      BY DEF Titles, Sections
    <2> HIDE DEF ds
    <2>4. Before'
      BY <2>1, <2>2 DEF Before, Under
    <2>5. Shape'
      BY <1>1, <1>6, <2>1, <2>3, <2>4 DEF Shape
    <2> QED BY <1>4, <2>1, <2>3, <2>4, <2>5, PhasesNext DEF Whole, Phased, OnePhase
  <1> QED BY <1>5, <1>6

\* The installer goes on when setup has ended.
LEMMA SetupEndedKept ==
  ASSUME Whole, SetupEnded
  PROVE  Whole'
  <1>1. UNCHANGED vars /\ at = "setup" /\ mode = "off" /\ at' = "done" /\ restored' = restored
    BY DEF SetupEnded
  <1> QED BY <1>1, Idled

\* Setup starts, or the machine is off: the memory is new, and the settings
\* agree with the rules but for what is lost.
LEMMA OffKept ==
  ASSUME Whole, Counted(eth), at' = "up", UNCHANGED <<eth, rules, restored>>,
         proc' = Idle, names' \in NetRules, Once(names'), plugged' \subseteq Cards, lost' \subseteq Colours,
         \A k \in Colours \ lost' : eth.count[k] = 1 => Named(eth, k),
         \A c \in Cards : rules[c] \in Colours \ lost' => c \in plugged',
         \/ mode' = "off" /\ dialogs' = <<>>
         \/ mode' = "setup" /\ dialogs' = <<"menu">>
  PROVE  Whole'
  <1>1. Idle \in Memory /\ proc'.list = [c \in Cards |-> "absent"] /\ ~proc'.torn
    BY IdleTyped DEF Idle
  <1>2. \A k \in Colours : ~Has(proc, k)'
    BY <1>1, ColourNames DEF Has
  <1>3. SetupTypes'
    BY <1>1 DEF Whole, SetupTypes
  <1>4. CardsOnce'
    BY <1>1, ColourNames DEF Whole, CardsOnce, Once
  <1>5. Settled'
    <2>1. InRules(eth)' /\ InCounts(eth)'
      BY <1>2, ColourNames DEF InRules, InCounts
    <2>2. Counted(eth)' /\ Agrees(eth)'
      BY DEF Agrees, Counted, Named
    <2> QED BY <1>1, <2>1, <2>2 DEF Settled
  <1>6. CASE mode' = "off" /\ dialogs' = <<>>
    <2>1. Shape'
      BY <1>6 DEF Shape
    <2>2. ~Open' /\ ~NotYet'
      BY <1>6 DEF Open, Network, During, NotYet, Before
    <2> QED BY <1>3, <1>4, <1>5, <2>1, <2>2 DEF Whole, Phased
  <1>7. CASE mode' = "setup" /\ dialogs' = <<"menu">>
    <2> DEFINE ds == <<"menu">>
    <2>1. dialogs' = ds /\ Len(ds) = 1 /\ ds[1] = "menu"
      BY <1>7
    <2>2. ds \in Seq(Titles)
      BY OneElement DEF Titles
    <2> HIDE DEF ds
    <2>3. Menu'
      BY <1>7, <2>1 DEF Menu, Under
    <2>4. Shape'
      BY <1>7, <2>1, <2>2, <2>3 DEF Shape
    <2> QED BY <1>3, <1>4, <1>5, <2>1, <2>2, <2>3, <2>4, PhasesNext DEF Whole, Phased, OnePhase
  <1> QED BY <1>6, <1>7

\* What is installed boots, and setup is started on it, or cards are changed
\* while it is off.
LEMMA WorldKept ==
  ASSUME Whole, Boot \/ (at = "up" /\ (StartSetup \/ SwapCard) /\ UNCHANGED ivars)
  PROVE  Whole'
  <1>1. mode = "off" /\ (at = "up" \/ (at = "done" /\ ~restored))
    BY DEF Boot, StartSetup, SwapCard, Whole, Shape, Menu, Network, Before, During, After
  <1>2. proc = Idle /\ dialogs = <<>>
    BY <1>1 DEF Whole, Shape, Menu, Network, Before, During, After
  <1>3. Counted(eth) /\ Agrees(eth)
    BY <1>1 DEF Whole, Phased, Settled, Quiet, NotYet, Before
  <1>4. /\ names \in NetRules /\ rules \in NetRules /\ Once(names) /\ Once(rules)
        /\ lost \subseteq Colours /\ plugged \subseteq Cards
        /\ \A c \in Cards : rules[c] \in Colours \ lost => c \in plugged
    BY DEF Whole, SetupTypes, CardsOnce
  <1>5. CASE Boot
    <2>1. at' = "up" /\ names' = rules /\ UNCHANGED <<mode, dialogs, proc, eth, rules, restored, plugged, lost>>
      BY <1>5 DEF Boot
    <2> QED BY <1>1, <1>2, <1>3, <1>4, <2>1, OffKept DEF Agrees
  <1>6. CASE at = "up" /\ StartSetup /\ UNCHANGED ivars
    <2>1. /\ at' = "up" /\ mode' = "setup" /\ dialogs' = <<"menu">> /\ proc' = Idle
          /\ UNCHANGED <<eth, rules, names, restored, plugged, lost>>
      BY <1>6 DEF StartSetup, files, ivars
    <2> QED BY <1>3, <1>4, <2>1, OffKept DEF Agrees
  <1>7. CASE at = "up" /\ SwapCard /\ UNCHANGED ivars
    <2>1. at' = "up" /\ UNCHANGED <<mode, dialogs, proc, eth, rules, restored>>
      BY <1>7 DEF SwapCard, ivars
    <2>2. PICK c \in Cards :
            /\ plugged' = IF c \in plugged THEN plugged \ {c} ELSE plugged \cup {c}
            /\ lost' = IF c \in plugged THEN lost \cup ({rules[c]} \cap Colours) ELSE lost
            /\ names' = [rules EXCEPT ![c] = IF c \in plugged THEN "" ELSE @]
      BY <1>7 DEF SwapCard
    <2>3. plugged' \subseteq Cards /\ lost' \subseteq Colours /\ lost \subseteq lost'
      BY <1>4, <2>2
    <2>4. names' \in NetRules /\ Once(names')
      <3>1. CASE c \in plugged
        <4>1. names' = [rules EXCEPT ![c] = ""]
          BY <2>2, <3>1
        <4> QED BY <1>4, <4>1, ColourNames DEF NetRules, Once
      <3>2. CASE c \notin plugged
        BY <1>4, <2>2, <3>2 DEF NetRules
      <3> QED BY <3>1, <3>2
    <2>5. \A d \in Cards : rules[d] \in Colours \ lost' => d \in plugged'
      BY <1>4, <2>2
    <2> QED BY <1>1, <1>2, <1>3, <2>1, <2>3, <2>4, <2>5, OffKept DEF Agrees
  <1> QED BY <1>5, <1>6, <1>7

\* Power fails while setup is running: what was not written is gone, and if
\* only the rules were written every colour is lost.
LEMMA PowerCutKept ==
  ASSUME Whole, at = "up", PowerCut, UNCHANGED ivars
  PROVE  Whole'
  <1>1. /\ at' = "up" /\ mode' = "off" /\ dialogs' = <<>> /\ proc' = Idle /\ names' = rules /\ mode = "setup"
        /\ UNCHANGED <<eth, rules, restored, plugged>>
        /\ lost' = IF proc.torn THEN Colours ELSE lost
    BY DEF PowerCut, Killed, ivars
  <1>2. Menu \/ Network
    BY <1>1 DEF Whole, Shape, Before, During, After
  <1>3. Counted(eth) /\ (proc.torn \/ Agrees(eth))
    <2>1. CASE Menu
      BY <2>1, Phases DEF Whole, Shape, Phased, OnePhase, Settled
    <2>2. CASE Network
      BY <1>1, <2>2 DEF Whole, Phased, Open, Edited
    <2> QED BY <1>2, <2>1, <2>2
  <1>4. /\ rules \in NetRules /\ Once(rules) /\ lost \subseteq Colours /\ plugged \subseteq Cards
        /\ \A c \in Cards : rules[c] \in Colours \ lost => c \in plugged
    BY DEF Whole, SetupTypes, CardsOnce
  <1>5. /\ lost' \subseteq Colours
        /\ \A k \in Colours \ lost' : eth.count[k] = 1 => Named(eth, k)
        /\ \A c \in Cards : rules[c] \in Colours \ lost' => c \in plugged
    BY <1>1, <1>3, <1>4 DEF Agrees
  <1> QED BY <1>1, <1>3, <1>4, <1>5, OffKept

\* Every dialog keeps the invariant, unless setup dies in it.
LEMMA DialogKept ==
  ASSUME Whole, Dialog, UNCHANGED ivars, ~died'
  PROVE  Whole'
BY SectionMenuKept, SectionsKept, LastKept, NetworkingKept, RedTypeKept, ManualKept, CardKept, ListDoneKept,
   SelectKept, AddressKept, FieldsKept, NetworkMenuKept, WriteKept DEF Dialog

\* Before the installation nothing is written.
LEMMA CardsInit == Init => CardInv
  <1> SUFFICES ASSUME Init PROVE Whole
    BY DEF CardInv
  <1>1. /\ mode = "off" /\ dialogs = <<>> /\ proc = Idle /\ eth = Fresh /\ rules = [c \in Cards |-> ""]
        /\ names = rules /\ lost = {} /\ at = "welcome" /\ restored = FALSE /\ plugged = machine.cards
    BY DEF Init, SetupInit
  <1>2. plugged \subseteq Cards
    BY <1>1, InstallAssumption DEF Init, InstallAssumption, MachineOK
  <1>3. Idle \in Memory /\ Fresh \in Settings
    BY IdleTyped
  <1>4. rules \in NetRules
    BY <1>1 DEF NetRules
  <1>5. SetupTypes
    BY <1>1, <1>2, <1>3, <1>4 DEF SetupTypes
  <1>6. CardsOnce
    BY <1>1, ColourNames DEF CardsOnce, Once, Idle
  <1>7. Shape
    <2>1. <<>> \in Seq(Titles)
      OBVIOUS
    <2> QED BY <1>1, <2>1 DEF Shape
  <1>8. NotYet /\ ~Quiet /\ ~Open
    BY <1>1 DEF NotYet, Quiet, Open, Menu, After, Network, During
  <1>9. Blank
    BY <1>1 DEF Blank, Idle
  <1> QED BY <1>5, <1>6, <1>7, <1>8, <1>9 DEF Whole, Phased

\* Setup stays dead.
LEMMA DeadStays ==
  ASSUME [Next]_<<vars, ivars>>, died
  PROVE  died'
  <1>1. CASE UNCHANGED <<vars, ivars>>
    BY <1>1 DEF vars
  <1>2. CASE Next
    BY <1>2 DEF Next, Welcome, scan_hardware, Rescan, findsource, source_network, selectdestination, selecttarget,
         MakeStep, MakeDone, handlerestore, SkipRestore, RunSetup, SetupEnded, Boot, Dialog, StartSetup, PowerCut,
         SwapCard, SectionMenu, handlekeymap, handletimezone, InstallPasswords, handlepasswords, handlehostname,
         handledomainname, handlenetworking, redconfigtype, manuallist, cardconfig, cardlistDone,
         selectchangeaddress, changeaddress, changehostname, changednsgateway, handleisdn, NetworkMenu,
         WriteSettings, changedhcpserver, vars
  <1> QED BY <1>1, <1>2

\* The invariant is inductive; after a death of setup nothing is claimed.
LEMMA CardsNext == CardInv /\ [Next]_<<vars, ivars>> => CardInv'
  <1> SUFFICES ASSUME CardInv, [Next]_<<vars, ivars>> PROVE CardInv'
    OBVIOUS
  <1>1. died => died'
    BY DeadStays
  <1>2. SUFFICES ASSUME Whole, ~died' PROVE Whole'
    BY <1>1 DEF CardInv
  <1>3. CASE UNCHANGED <<vars, ivars>>
    <2>1. UNCHANGED vars /\ UNCHANGED <<at, restored>> /\ (at = "setup" => ~restored)
      BY <1>2, <1>3 DEF ivars, Whole, Shape
    <2> QED BY <1>2, <2>1, Idled
  <1>4. CASE \/ Welcome \/ scan_hardware \/ Rescan \/ findsource \/ source_network
             \/ selectdestination \/ selecttarget \/ MakeStep \/ MakeDone
             \/ handlerestore \/ SkipRestore
    BY <1>2, <1>4, InstallerIdles
  <1>5. CASE RunSetup \/ SetupEnded
    BY <1>2, <1>5, RunSetupKept, SetupEndedKept
  <1>6. CASE Boot
    BY <1>2, <1>6, WorldKept
  <1>7. CASE Dialog /\ UNCHANGED ivars
    BY <1>2, <1>7, DialogKept
  <1>8. CASE at = "up" /\ (StartSetup \/ PowerCut \/ SwapCard) /\ UNCHANGED ivars
    BY <1>2, <1>8, WorldKept, PowerCutKept
  <1> QED BY <1>3, <1>4, <1>5, <1>6, <1>7, <1>8 DEF Next

\* A colour of the rules is the name of one card that is in the machine.
LEMMA CardsSafe == CardInv => ColoursHaveCards
  <1> SUFFICES ASSUME Whole, mode = "off", eth # Fresh
               PROVE  /\ eth.count["GREEN"] = 1
                      /\ eth.type \notin Modem => eth.count["RED"] = 1
                      /\ \A k \in Colours \ lost : eth.count[k] = 1 =>
                           eth.dev[k] = "own" /\ Cardinality({c \in plugged : rules[c] = k}) = 1
    BY DEF CardInv, ColoursHaveCards
  <1>1. Settled
    BY DEF Whole, Phased, Quiet, Blank
  <1>2. Counted(eth) /\ Agrees(eth)
    BY <1>1 DEF Settled
  <1>3. ASSUME NEW k \in Colours \ lost, eth.count[k] = 1
        PROVE  eth.dev[k] = "own" /\ Cardinality({c \in plugged : rules[c] = k}) = 1
    <2>1. PICK c \in Cards : eth.dev[k] = "own" /\ rules[c] = k
      BY <1>2, <1>3 DEF Agrees, Named
    <2>2. {d \in plugged : rules[d] = k} = {c}
      BY <2>1 DEF Whole, CardsOnce, Once, SetupTypes
    <2> QED BY <2>1, <2>2, FS_Singleton
  <1> QED BY <1>2, <1>3 DEF Counted

\* Whenever setup is not running, the settings of the network and the rules of
\* udev agree on the colours (networking.c:624, 1230), whatever the cards, the
\* dialogs chosen and the power failures.
THEOREM ColoursAgree == Spec => []ColoursHaveCards
  <1>1. Init => CardInv
    BY CardsInit
  <1>2. CardInv /\ [Next]_<<vars, ivars>> => CardInv'
    BY CardsNext
  <1>3. CardInv => ColoursHaveCards
    BY CardsSafe
  <1> QED BY <1>1, <1>2, <1>3, PTL DEF Spec

-----------------------------------------------------------------------------
(* The configuration *)

\* Dialog d is on the screen or still to come.
Within(x, s) == \E i \in 1 .. Len(s) : s[i] = x
Pending(d)   == \E i \in 1 .. Len(dialogs) : dialogs[i] = d

\* Colour k needs an address in settings kv.
Addressable(kv, k) == IF k = "RED" THEN kv.type \in Addressed ELSE kv.count[k] = 1

\* The installation of which setup is a part, before setup and in it.
Starting == at \notin {"setup", "done", "up"}
Going    == at = "setup" \/ (at = "done" /\ ~restored)

\* What an installation still has to do is still to be asked for; a form that
\* was left with F12 excuses the addresses.
Bounded ==
  /\ left = [setups |-> left.setups, choices |-> left.choices, events |-> left.events, faults |-> left.faults,
             skips |-> left.skips]
  /\ left.faults \in Int /\ left.faults <= MaxFaults /\ left.skips \in Int /\ left.skips <= MaxSkips

Ready ==
  /\ Bounded
  /\ main = [host |-> main.host, domain |-> main.domain]
  /\ unset \subseteq Users
  /\ Starting \/ Before \/ During => dhcp.state # "proposed"
  /\ Going =>
       /\ left.faults < MaxFaults \/ \A u \in unset : Pending(u)
       /\ Pending("domain") \/ (hosts.host = main.host /\ hosts.domain \in {main.domain, "not a domain"})
       /\ During /\ ~Choosing =>
            \/ left.skips < MaxSkips
            \/ \A k \in Colours : Addressable(proc.kv, k) => proc.kv.addr[k] # NoAddress \/ Pending(k)
       /\ Quiet => /\ left.skips < MaxSkips \/ \A k \in Colours : Addressable(eth, k) => eth.addr[k] # NoAddress
                   /\ dhcp.state = "proposed" => dhcp.range = DhcpRange(eth.addr["GREEN"])

ConfInv == died \/ at = "up" \/ Ready

\* What is left of the other bounds does not count.
LEMMA BoundsKept ==
  ASSUME Bounded, left' = left \/ left' = [left EXCEPT !.events = @ - 1]
  PROVE  Bounded' /\ left'.faults = left.faults /\ left'.skips = left.skips
  <1>1. CASE left' = left
    BY <1>1 DEF Bounded
  <1>2. CASE left' = [left EXCEPT !.events = @ - 1]
    <2>1. left' = [setups |-> left.setups, choices |-> left.choices, events |-> left.events - 1,
                   faults |-> left.faults, skips |-> left.skips]
      BY <1>2 DEF Bounded
    <2>2. /\ left'.setups = left.setups /\ left'.choices = left.choices /\ left'.events = left.events - 1
          /\ left'.faults = left.faults /\ left'.skips = left.skips
      BY <2>1
    <2> QED BY <2>1, <2>2 DEF Bounded
  <1> QED BY <1>1, <1>2

\* What is still to come stays so until it is on the screen.
LEMMA StaysPending ==
  ASSUME Shape, mode # "off", Close
  PROVE  \A x : Pending(x) /\ Head(dialogs) # x => Pending(x)'
  <1> SUFFICES ASSUME NEW x, Pending(x), Head(dialogs) # x PROVE Pending(x)'
    OBVIOUS
  <1>1. /\ Len(dialogs) \in Nat \ {0} /\ Head(dialogs) = dialogs[1] /\ Len(dialogs') = Len(dialogs) - 1
        /\ \A i \in 1 .. Len(dialogs) - 1 : dialogs'[i] = dialogs[i + 1]
    BY Popping
  <1>2. PICK i \in 1 .. Len(dialogs) : dialogs[i] = x
    BY DEF Pending
  <1>3. i - 1 \in 1 .. Len(dialogs) - 1 /\ (i - 1) + 1 = i
    BY <1>1, <1>2
  <1>4. dialogs'[i - 1] = x /\ i - 1 \in 1 .. Len(dialogs')
    BY <1>1, <1>2, <1>3
  <1> QED BY <1>4 DEF Pending

\* Nor is it lost when others are opened, which are then to come.
LEMMA PushedPending ==
  ASSUME Shape, NEW d, On(d), NEW ds \in Seq(Titles), ds # <<>>, Then(ds)
  PROVE  /\ \A x : Pending(x) /\ d # x => Pending(x)'
         /\ \A x : Within(x, ds) => Pending(x)'
  <1>1. Len(dialogs) \in Nat \ {0} /\ d = dialogs[1]
    BY OnWhich
  <1>2. /\ Len(ds) \in Nat \ {0} /\ Len(dialogs') = Len(ds) + Len(dialogs) - 1
        /\ \A i \in 1 .. Len(ds) : dialogs'[i] = ds[i]
        /\ \A i \in 1 .. Len(dialogs) - 1 : dialogs'[Len(ds) + i] = dialogs[i + 1]
    BY Pushing
  <1>3. ASSUME NEW x, Pending(x), d # x PROVE Pending(x)'
    <2>1. PICK i \in 1 .. Len(dialogs) : dialogs[i] = x
      BY <1>3 DEF Pending
    <2>2. i - 1 \in 1 .. Len(dialogs) - 1 /\ (i - 1) + 1 = i
      BY <1>1, <1>3, <2>1
    <2>3. dialogs'[Len(ds) + (i - 1)] = x /\ Len(ds) + (i - 1) \in 1 .. Len(dialogs')
      BY <1>1, <1>2, <2>1, <2>2
    <2> QED BY <2>3 DEF Pending
  <1>4. ASSUME NEW x, Within(x, ds) PROVE Pending(x)'
    <2>1. PICK j \in 1 .. Len(ds) : ds[j] = x
      BY <1>4 DEF Within
    <2>2. j \in 1 .. Len(dialogs') /\ dialogs'[j] = x
      BY <1>1, <1>2, <2>1
    <2> QED BY <2>2 DEF Pending
  <1> QED BY <1>3, <1>4

\* What an installation shows in its three parts.
LEMMA OnScreen ==
  ASSUME Shape, mode = "chroot"
  PROVE  /\ Before \/ During \/ After
         /\ Before => /\ Head(dialogs) \in {"networking", "domain", "hostname", "keymap"}
                      /\ Head(dialogs) = "hostname" => Pending("domain")
         /\ During => /\ Head(dialogs) \in Colours \cup Lines \cup {"type", "cards", "write"}
                      /\ Head(dialogs) = "write" => \A k \in Colours : ~Pending(k)
         /\ After => Head(dialogs) \in {"dhcp", "root", "admin", "backup"}
  <1>1. dialogs \in Seq(Titles) /\ Len(dialogs) \in Nat
    BY DEF Shape
  <1>2. Before \/ During \/ After
    BY DEF Shape, Menu, Network
  <1>3. ASSUME Before PROVE /\ Head(dialogs) \in {"networking", "domain", "hostname", "keymap"}
                            /\ Head(dialogs) = "hostname" => Pending("domain")
    <2>1. CASE Len(dialogs) = 4
      BY <1>1, <1>3, <2>1 DEF Before, Under
    <2>2. CASE Len(dialogs) = 5
      BY <1>1, <1>3, <2>2 DEF Before, Under
    <2>3. CASE Len(dialogs) = 6
      <3>1. Head(dialogs) = "hostname" /\ dialogs[2] = "domain"
        BY <1>1, <1>3, <2>3 DEF Before, Under
      <3> QED BY <2>3, <3>1 DEF Pending
    <2>4. CASE Len(dialogs) = 7
      BY <1>1, <1>3, <2>4 DEF Before, Under
    <2> QED BY <1>3, <2>1, <2>2, <2>3, <2>4 DEF Before
  <1>4. ASSUME During PROVE /\ Head(dialogs) \in Colours \cup Lines \cup {"type", "cards", "write"}
                            /\ Head(dialogs) = "write" => \A k \in Colours : ~Pending(k)
    <2>1. Len(dialogs) = 5 \/ Len(dialogs) > 5
      <3>1. \A n \in Nat : n >= 5 => n = 5 \/ n > 5
        OBVIOUS
      <3> QED BY <1>1, <1>4, <3>1 DEF During
    <2>2. CASE Len(dialogs) = 5
      <3>1. /\ dialogs[1] = "write" /\ dialogs[2] = "dhcp" /\ dialogs[3] = "root" /\ dialogs[4] = "admin"
            /\ dialogs[5] = "backup"
        BY <1>1, <1>4, <2>2 DEF During, Under
      <3>2. \A i \in 1 .. 5 : i = 1 \/ i = 2 \/ i = 3 \/ i = 4 \/ i = 5
        OBVIOUS
      <3>3. \A k \in Colours : ~Pending(k)
        BY <2>2, <3>1, <3>2, ColourNames DEF Pending
      <3>4. Head(dialogs) = "write"
        BY <1>1, <2>2, <3>1
      <3> QED BY <3>3, <3>4
    <2>3. CASE Len(dialogs) > 5
      <3>1. Head(dialogs) \in Colours \cup Lines \cup {"type", "cards"}
        BY <1>1, <1>4, <2>3 DEF During
      <3> QED BY <3>1, ColourNames DEF Lines
    <2> QED BY <2>1, <2>2, <2>3
  <1>5. ASSUME After PROVE Head(dialogs) \in {"dhcp", "root", "admin", "backup"}
    BY <1>1, <1>5 DEF After, Under
  <1> QED BY <1>2, <1>3, <1>4, <1>5

\* A step before the forms of the colours: the rest is still to come.
LEMMA EarlyReady ==
  ASSUME Whole, Whole', Ready, at = "setup", UNCHANGED <<at, restored, left, dhcp>>,
         Before \/ During, Before' \/ (During' /\ Choosing'),
         main' = [host |-> main'.host, domain |-> main'.domain], unset' \subseteq unset,
         \A u \in Users : Pending(u) => Pending(u)',
         \/ Pending("domain")'
         \/ hosts'.host = main'.host /\ hosts'.domain \in {main'.domain, "not a domain"}
  PROVE  Ready'
  <1>1. OnePhase' /\ dialogs' \in Seq(Titles)
    BY PhasesNext DEF Whole, Shape
  <1>2. ~Quiet' /\ ~(During' /\ ~Choosing')
    BY <1>1 DEF OnePhase, Open
  <1>3. /\ left.faults < MaxFaults \/ \A u \in unset : Pending(u)
        /\ unset \subseteq Users /\ dhcp.state # "proposed"
    BY DEF Ready, Going
  <1>4. left.faults < MaxFaults \/ \A u \in unset' : Pending(u)'
    BY <1>3
  <1>5. Bounded'
    BY BoundsKept DEF Ready
  <1> QED BY <1>2, <1>3, <1>4, <1>5 DEF Ready, Going

\* The dialogs before the network.
LEMMA SectionsReady ==
  ASSUME Whole, Whole', Ready, at = "setup", UNCHANGED ivars,
         handlekeymap \/ handletimezone \/ handlehostname \/ handledomainname \/ handlepasswords
  PROVE  Ready'
  <1>1. /\ UNCHANGED <<at, restored, left, dhcp>> /\ unset' \subseteq unset
        /\ mode # "off" /\ Head(dialogs) \in Sections \ {"networking"}
        /\ Close \/ (UNCHANGED <<mode, dialogs>> /\ UNCHANGED <<main, hosts>>)
    BY DEF handlekeymap, handletimezone, handlehostname, handledomainname, handlepasswords, password,
           files, world, ivars, On, Sections
  <1>2. Shape /\ mode = "chroot"
    BY <1>1 DEF Whole, Shape, Menu, Network, Before, During, After
  <1>3. Before
    BY <1>1, <1>2, OnScreen, ColourNames DEF Sections, Lines
  <1>4. Head(dialogs) \in {"domain", "hostname", "keymap"} /\ (Head(dialogs) = "hostname" => Pending("domain"))
    BY <1>1, <1>2, <1>3, OnScreen
  <1>5. /\ main = [host |-> main.host, domain |-> main.domain]
        /\ Pending("domain") \/ (hosts.host = main.host /\ hosts.domain \in {main.domain, "not a domain"})
    BY DEF Ready, Going
  <1>6. CASE UNCHANGED <<mode, dialogs>> /\ UNCHANGED <<main, hosts>>
    <2>1. (Before' <=> Before) /\ \A x : Pending(x)' <=> Pending(x)
      BY <1>6 DEF Before, Under, Pending
    <2> QED BY <1>1, <1>3, <1>5, <1>6, <2>1, EarlyReady
  <1>7. CASE Close
    <2>1. Before'
      BY <1>1, <1>2, <1>3, <1>7, Popped DEF Menu
    <2>2. \A x : Pending(x) /\ Head(dialogs) # x => Pending(x)'
      BY <1>1, <1>2, <1>7, StaysPending
    <2>3. \A u \in Users : Pending(u) => Pending(u)'
      BY <1>4, <2>2 DEF Users
    <2>4. CASE Head(dialogs) = "keymap"
      <3>1. UNCHANGED <<main, hosts>>
        BY <2>4 DEF handlekeymap, handletimezone, handlehostname, handledomainname, handlepasswords, On, files
      <3> QED BY <1>1, <1>3, <1>5, <2>1, <2>2, <2>3, <2>4, <3>1, EarlyReady
    <2>5. CASE Head(dialogs) = "hostname"
      <3>1. main' = main \/ \E h \in Hostnames : main' = [main EXCEPT !.host = h]
        BY <2>5 DEF handlekeymap, handletimezone, handlehostname, handledomainname, handlepasswords, On, files
      <3>2. main' = [host |-> main'.host, domain |-> main'.domain]
        BY <1>5, <3>1
      <3>3. Pending("domain")'
        BY <1>4, <2>2, <2>5
      <3> QED BY <1>1, <1>3, <2>1, <2>3, <3>2, <3>3, EarlyReady
    <2>6. CASE Head(dialogs) = "domain"
      <3>1. handledomainname
        BY <2>6 DEF handlekeymap, handletimezone, handlehostname, handlepasswords, On
      <3>2. proc.typed \in {None, "not a domain"}
        BY DEF Whole, SetupTypes, Memory
      <3>3. ASSUME NEW d \in Domains, main' = [main EXCEPT !.domain = d], writehostsfiles(main.host, d)
            PROVE  Ready'
        <4>1. main' = [host |-> main.host, domain |-> d] /\ hosts' = [host |-> main.host, domain |-> d]
          BY <1>5, <3>3 DEF writehostsfiles
        <4>2. main'.host = main.host /\ main'.domain = d /\ hosts'.host = main.host /\ hosts'.domain = d
          BY <4>1
        <4> QED BY <1>1, <1>3, <2>1, <2>3, <4>1, <4>2, EarlyReady
      <3>4. ASSUME main' = main,
                   writehostsfiles(main.host, IF proc.typed = None THEN main.domain ELSE proc.typed)
            PROVE  Ready'
        <4>1. hosts'.host = main.host /\ hosts'.domain \in {main.domain, "not a domain"}
          BY <3>2, <3>4 DEF writehostsfiles
        <4> QED BY <1>1, <1>3, <1>5, <2>1, <2>3, <3>4, <4>1, EarlyReady
      <3>5. dialogs' # dialogs
        <4>1. Len(dialogs) \in Nat \ {0} /\ Len(dialogs') = Len(dialogs) - 1
          BY <1>1, <1>2, <1>7, Popping
        <4> QED BY <4>1
      <3> QED BY <1>2, <3>1, <3>3, <3>4, <3>5 DEF handledomainname
    <2> QED BY <1>4, <2>4, <2>5, <2>6
  <1> QED BY <1>1, <1>6, <1>7

\* From there to the card list, and while it is edited.
LEMMA NetworkReady ==
  ASSUME Whole, Whole', Ready, at = "setup", UNCHANGED ivars, ~died',
         handlenetworking \/ redconfigtype \/ manuallist \/ cardconfig
  PROVE  Ready'
  <1>1. /\ UNCHANGED <<at, restored, left, dhcp, main, hosts, unset>> /\ mode # "off"
        /\ Head(dialogs) \in {"networking", "type", "cards"}
    BY DEF handlenetworking, redconfigtype, manuallist, cardconfig, files, world, ivars, On
  <1>2. Shape /\ mode = "chroot"
    BY <1>1 DEF Whole, Shape, Menu, Network, Before, During, After
  <1>3. /\ main = [host |-> main.host, domain |-> main.domain]
        /\ Pending("domain") \/ (hosts.host = main.host /\ hosts.domain \in {main.domain, "not a domain"})
    BY DEF Ready, Going
  <1>4. CASE handlenetworking
    <2> DEFINE ds == <<"type", "write", "dhcp">>
    <2>1. On("networking") /\ Then(ds)
      BY <1>2, <1>4 DEF handlenetworking
    <2>2. Before /\ During' /\ Head(dialogs') = "type"
      BY <1>2, <2>1, NetworkOpens
    <2>3. ds \in Seq(Titles)
      <3>1. "type" \in Titles /\ "write" \in Titles /\ "dhcp" \in Titles
        BY DEF Titles
      <3> QED BY <3>1, ThreeElements
    <2>4. ds # <<>>
      OBVIOUS
    <2> HIDE DEF ds
    <2>5. \A x : Pending(x) /\ "networking" # x => Pending(x)'
      BY <1>2, <2>1, <2>3, <2>4, PushedPending
    <2>6. Choosing'
      BY <2>2 DEF Choosing, During
    <2> QED BY <1>1, <1>3, <2>2, <2>5, <2>6, EarlyReady DEF Users
  <1>5. CASE redconfigtype
    <2> DEFINE ds == <<"cards">>
    <2>1. On("type") /\ Then(ds)
      BY <1>2, <1>5 DEF redconfigtype
    <2>2. During /\ During' /\ Head(dialogs') = "cards"
      BY <1>2, <2>1, TypeOpens DEF Network
    <2>3. ds \in Seq(Titles)
      BY OneElement DEF Titles
    <2>4. ds # <<>>
      OBVIOUS
    <2> HIDE DEF ds
    <2>5. \A x : Pending(x) /\ "type" # x => Pending(x)'
      BY <1>2, <2>1, <2>3, <2>4, PushedPending
    <2>6. Choosing'
      BY <2>2 DEF Choosing
    <2> QED BY <1>1, <1>3, <2>2, <2>5, <2>6, EarlyReady DEF Users
  <1>6. CASE manuallist \/ cardconfig
    <2>1. UNCHANGED <<mode, dialogs>> /\ On("cards")
      BY <1>6 DEF manuallist, cardconfig
    <2>2. During /\ Choosing
      BY <1>2, <2>1, OnWhich DEF Network, Choosing, On
    <2>3. During' /\ Choosing' /\ \A x : Pending(x)' <=> Pending(x)
      BY <2>1, <2>2 DEF During, Choosing, Under, Pending
    <2> QED BY <1>1, <1>3, <2>2, <2>3, EarlyReady
  <1> QED BY <1>4, <1>5, <1>6

\* What is in one of two sequences is in their concatenation.
LEMMA InJoined ==
  ASSUME NEW S, NEW s \in Seq(S), NEW t \in Seq(S), NEW x, Within(x, s) \/ Within(x, t)
  PROVE  Within(x, s \o t)
  <1>1. Len(s) \in Nat /\ Len(t) \in Nat /\ Len(s \o t) = Len(s) + Len(t)
    OBVIOUS
  <1>2. CASE Within(x, s)
    <2>1. PICK i \in 1 .. Len(s) : s[i] = x
      BY <1>2 DEF Within
    <2>2. i \in 1 .. Len(s \o t) /\ (s \o t)[i] = x
      BY <1>1, <2>1
    <2> QED BY <2>2 DEF Within
  <1>3. CASE Within(x, t)
    <2>1. PICK i \in 1 .. Len(t) : t[i] = x
      BY <1>3 DEF Within
    <2>2. Len(s) + i \in 1 .. Len(s \o t) /\ (s \o t)[Len(s) + i] = x
      BY <1>1, <2>1
    <2> QED BY <2>2 DEF Within
  <1> QED BY <1>2, <1>3

\* The forms ask for every address that is needed.
LEMMA FormsAsk ==
  ASSUME NEW p \in Memory, p.red = p.kv.type, NEW k \in Colours, Addressable(p.kv, k)
  PROVE  Within(k, Forms(p))
  <1> DEFINE S == Colours \cup Lines
             r == CASE p.red = "STATIC"          -> <<"RED", "dns">>
                    [] p.red \in {"PPPOE", "PPTP"} -> <<"RED">>
                    [] p.red = "DHCP"            -> <<"dhcphost", "dns">>
                    [] p.red = "ISDN"            -> <<"isdn">>
                    [] OTHER                     -> <<>>
             b == IF "BLUE" \in Colours /\ p.kv.count["BLUE"] # 0 THEN <<"BLUE">> ELSE <<>>
             o == IF "ORANGE" \in Colours /\ p.kv.count["ORANGE"] # 0 THEN <<"ORANGE">> ELSE <<>>
             g == <<"GREEN">>
  <1>1. g \in Seq(S) /\ r \in Seq(S) /\ b \in Seq(S) /\ o \in Seq(S)
    BY FormsParts
  <1>2. Forms(p) = ((g \o r) \o b) \o o
    BY DEF Forms
  <1>3. k = "GREEN" => Within(k, g)
    BY DEF Within
  <1>4. k = "RED" => Within(k, r)
    <2>1. ASSUME k = "RED" PROVE r = <<"RED", "dns">> \/ r = <<"RED">>
      BY <2>1 DEF Addressable, Addressed
    <2>2. k = "RED" => (Within(k, <<"RED", "dns">>) /\ Within(k, <<"RED">>))
      BY DEF Within
    <2> HIDE DEF r
    <2> QED BY <2>1, <2>2
  <1>5. k = "BLUE" => Within(k, b)
    BY DEF Addressable, Within
  <1>6. k = "ORANGE" => Within(k, o)
    BY DEF Addressable, Within
  <1> HIDE DEF S, r, b, o, g
  <1>7. g \o r \in Seq(S) /\ (g \o r) \o b \in Seq(S)
    BY <1>1
  <1>8. Within(k, g) \/ Within(k, r) => Within(k, g \o r)
    BY <1>1, InJoined
  <1>9. Within(k, g \o r) \/ Within(k, b) => Within(k, (g \o r) \o b)
    BY <1>1, <1>7, InJoined
  <1>10. Within(k, (g \o r) \o b) \/ Within(k, o) => Within(k, ((g \o r) \o b) \o o)
    BY <1>1, <1>7, InJoined
  <1> QED BY <1>2, <1>3, <1>4, <1>5, <1>6, <1>8, <1>9, <1>10, ColourNames

\* Written or not, the rules change no count and no address.
LEMMA UdevKeeps ==
  ASSUME NEW p \in Memory, udevconfig(p) \/ udevFails(p)
  PROVE  proc'.kv.type = p.kv.type /\ proc'.kv.count = p.kv.count /\ proc'.kv.addr = p.kv.addr
  <1> DEFINE named == {k \in Colours : \E c \in Cards \ Dead : p.list[c] = k}
             dev   == [k \in Colours |-> IF k \in named THEN "own" ELSE p.kv.dev[k]]
  <1>0. CASE udevFails(p)
    BY <1>0 DEF udevFails
  <1>4. SUFFICES ASSUME udevconfig(p) PROVE proc'.kv.type = p.kv.type /\ proc'.kv.count = p.kv.count /\ proc'.kv.addr = p.kv.addr
    BY <1>0
  <1>1. proc' = [p EXCEPT !.kv.dev = dev, !.torn = TRUE]
    BY <1>4 DEF udevconfig
  <1> HIDE DEF dev
  <1>2. proc' = [p EXCEPT !.kv = [p.kv EXCEPT !.dev = dev], !.torn = TRUE]
    BY <1>1 DEF Memory
  <1>3. p.kv \in Settings /\ proc'.kv = [p.kv EXCEPT !.dev = dev]
    BY <1>2 DEF Memory
  <1> QED BY <1>3 DEF Settings

\* The card list is left: the forms are still to come.
LEMMA ListDoneReady ==
  ASSUME Whole, Whole', Ready, at = "setup", UNCHANGED ivars, cardlistDone
  PROVE  Ready'
  <1> DEFINE needed == proc.red \notin Modem /\ ~Has(proc, "RED")
             p == IF needed THEN Retyped(proc, "ANALOG") ELSE proc
  <1>1. /\ UNCHANGED <<eth, main, hosts, unset, dhcp, at, restored>> /\ On("cards") /\ mode # "off"
        /\ \/ p.changed /\ (udevconfig(p) \/ udevFails(p))
           \/ ~p.changed /\ UNCHANGED <<rules, proc, lost>>
        /\ left' = left \/ left' = [left EXCEPT !.events = @ - 1]
        /\ Then(IF mode = "chroot" THEN Forms(p) ELSE <<>>)
    BY DEF cardlistDone, udevFails, ivars, On
  <1>2. Shape /\ mode = "chroot" /\ proc \in Memory
    BY <1>1 DEF Whole, SetupTypes, Shape, Menu, Network, Before, During, After
  <1>3. /\ During /\ During' /\ ~Choosing'
    BY <1>1, <1>2, ListLeft DEF Network
  <1>4. proc.red = proc.kv.type
    BY <1>3 DEF Whole, Phased, Open, Edited
  <1>5. p \in Memory /\ p.red = p.kv.type
    <2>1. "ANALOG" \in Kinds
      BY DEF Kinds
    <2>2. Retyped(proc, "ANALOG") \in Memory /\ Retyped(proc, "ANALOG").red = Retyped(proc, "ANALOG").kv.type
      <3>1. /\ Retyped(proc, "ANALOG") \in Memory /\ Retyped(proc, "ANALOG").red = "ANALOG"
            /\ Retyped(proc, "ANALOG").kv.type = "ANALOG"
        BY <1>2, <2>1, RetypedIs
      <3> QED BY <3>1
    <2> QED BY <1>2, <1>4, <2>2
  <1>6. Then(Forms(p)) /\ (udevconfig(p) \/ udevFails(p) \/ (~p.changed /\ proc' = proc))
    BY <1>1, <1>2
  <1>7. ~p.changed => p = proc
    <2>1. "ANALOG" \in Kinds
      BY DEF Kinds
    <2>2. Retyped(proc, "ANALOG").changed = TRUE
      BY <1>2, <2>1, RetypedIs
    <2> QED BY <2>2
  <1> HIDE DEF p
  <1>8. proc'.kv.type = p.kv.type /\ proc'.kv.count = p.kv.count
    BY <1>5, <1>6, <1>7, UdevKeeps
  <1>9. Forms(p) \in Seq(Titles) /\ Forms(p) # <<>>
    <2>1. Colours \cup Lines \subseteq Titles
      BY ColourNames DEF Lines, AllColours, Titles
    <2>2. Forms(p) \in Seq(Colours \cup Lines) /\ Forms(p) # <<>>
      BY FormsTyped
    <2> QED BY <2>1, <2>2
  <1>10. /\ \A x : Pending(x) /\ "cards" # x => Pending(x)'
         /\ \A x : Within(x, Forms(p)) => Pending(x)'
    BY <1>1, <1>2, <1>6, <1>9, PushedPending
  <1>11. \A k \in Colours : Addressable(proc.kv, k)' => Pending(k)'
    <2> SUFFICES ASSUME NEW k \in Colours, Addressable(proc.kv, k)' PROVE Pending(k)'
      OBVIOUS
    <2>1. Addressable(p.kv, k)
      BY <1>8 DEF Addressable
    <2>2. Within(k, Forms(p))
      BY <1>5, <2>1, FormsAsk
    <2> QED BY <1>10, <2>2
  <1>12. ~Quiet'
    BY <1>3, PhasesNext DEF OnePhase, Open, Whole, Shape
  <1>14. Bounded' /\ left'.faults = left.faults
    BY <1>1, BoundsKept DEF Ready
  <1>13. /\ left'.faults < MaxFaults \/ \A u \in unset' : Pending(u)'
         /\ Pending("domain")' \/ (hosts'.host = main'.host /\ hosts'.domain \in {main'.domain, "not a domain"})
    BY <1>1, <1>10, <1>14 DEF Ready, Going, Users
  <1> QED BY <1>1, <1>3, <1>11, <1>12, <1>13, <1>14 DEF Ready, Going

\* A form is left: an address was given, or none was asked for, or it was left
\* with F12.
LEMMA FormReady ==
  ASSUME Whole, Whole', Ready, at = "setup", UNCHANGED ivars,
         changeaddress \/ changehostname \/ changednsgateway \/ handleisdn
  PROVE  Ready'
  <1>1. /\ UNCHANGED <<eth, main, hosts, unset, dhcp, at, restored>> /\ mode # "off" /\ Close
        /\ left' = left \/ left' = [left EXCEPT !.skips = @ - 1]
        /\ Head(dialogs) \in Colours \cup Lines
    BY DEF changeaddress, changehostname, changednsgateway, handleisdn, files, world, ivars, On, Lines
  <1>2. Shape /\ mode = "chroot" /\ proc \in Memory /\ proc.kv \in Settings
    BY <1>1 DEF Whole, SetupTypes, Memory, Shape, Menu, Network, Before, During, After
  <1>3. Open /\ ~Choosing /\ Open' /\ ~Choosing' /\ mode' = mode
    BY <1>1, <1>2, Popped
  <1>4. During /\ During'
    BY <1>2, <1>3 DEF Open, Network
  <1>5. \A x : Pending(x) /\ Head(dialogs) # x => Pending(x)'
    BY <1>1, <1>2, StaysPending
  <1>6. \/ left.skips < MaxSkips
        \/ \A k \in Colours : Addressable(proc.kv, k) => proc.kv.addr[k] # NoAddress \/ Pending(k)
    BY <1>3, <1>4 DEF Ready, Going
  <1>11. /\ Bounded' /\ left'.faults = left.faults
         /\ left' = left \/ left'.skips < MaxSkips
    <2>1. Bounded
      BY DEF Ready
    <2>2. CASE left' = left
      BY <2>1, <2>2, BoundsKept
    <2>3. CASE left' = [left EXCEPT !.skips = @ - 1]
      <3>1. left' = [setups |-> left.setups, choices |-> left.choices, events |-> left.events,
                     faults |-> left.faults, skips |-> left.skips - 1]
        BY <2>1, <2>3 DEF Bounded
      <3>2. /\ left'.setups = left.setups /\ left'.choices = left.choices /\ left'.events = left.events
            /\ left'.faults = left.faults /\ left'.skips = left.skips - 1
        BY <3>1
      <3>3. left.skips \in Int /\ left.skips <= MaxSkips /\ MaxSkips \in Int
        BY <2>1, SetupAssumption DEF Bounded, SetupAssumption
      <3>4. left'.skips \in Int /\ left'.skips <= MaxSkips /\ left'.skips < MaxSkips
        BY <3>2, <3>3
      <3> QED BY <2>1, <3>1, <3>2, <3>4 DEF Bounded
    <2> QED BY <1>1, <2>2, <2>3
  <1>7. \/ left'.skips < MaxSkips
        \/ \A k \in Colours : Addressable(proc.kv, k)' => proc'.kv.addr[k] # NoAddress \/ Pending(k)'
    <2> SUFFICES ASSUME left' = left, ~(left.skips < MaxSkips)
                 PROVE  \A k \in Colours : Addressable(proc.kv, k)' => proc'.kv.addr[k] # NoAddress \/ Pending(k)'
      BY <1>11
    <2>1. CASE Head(dialogs) \in Lines
      <3>1. proc' \in {proc, [proc EXCEPT !.changed = TRUE]}
        BY <2>1, ColourNames DEF changeaddress, changehostname, changednsgateway, handleisdn, On, Lines
      <3>2. proc'.kv = proc.kv
        BY <1>2, <3>1 DEF Memory
      <3>3. \A k \in Colours : Head(dialogs) # k
        BY <2>1, ColourNames DEF Lines
      <3>4. \A k \in Colours : Addressable(proc.kv, k)' <=> Addressable(proc.kv, k)
        BY <3>2 DEF Addressable
      <3> QED BY <1>5, <1>6, <3>2, <3>3, <3>4
    <2>2. CASE Head(dialogs) \in Colours
      <3> DEFINE h == Head(dialogs)
      <3>9. left' # [left EXCEPT !.skips = @ - 1]
        <4> DEFINE less == [left EXCEPT !.skips = @ - 1]
        <4>1. Bounded
          BY DEF Ready
        <4>2. left.skips \in Int /\ less.skips = left.skips - 1
          BY <4>1 DEF Bounded
        <4> HIDE DEF less
        <4>3. left # less
          BY <4>2
        <4> QED BY <4>3 DEF less
      <3>1. PICK a \in Addresses[h] : proc' = [proc EXCEPT !.kv.addr[h] = a, !.changed = TRUE]
        BY <1>2, <3>9, <2>2, ColourNames DEF changeaddress, changehostname, changednsgateway, handleisdn, On, Lines
      <3>2. a # NoAddress
        <4>1. a \in [host: Nat, block: Nat \ {0}]
          BY <2>2, SetupAssumption DEF SetupAssumption
        <4>2. a.block # 0 /\ NoAddress.block = 0
          BY <4>1 DEF NoAddress
        <4> QED BY <4>2
      <3> HIDE DEF h
      <3>3. proc' = [[proc EXCEPT !.kv = [proc.kv EXCEPT !.addr = [proc.kv.addr EXCEPT ![h] = a]]] EXCEPT !.changed = TRUE]
        BY <1>2, <3>1 DEF Memory, Settings
      <3>4. proc'.kv = [proc.kv EXCEPT !.addr = [proc.kv.addr EXCEPT ![h] = a]]
        BY <1>2, <3>3 DEF Memory
      <3>5. /\ proc'.kv.type = proc.kv.type /\ proc'.kv.count = proc.kv.count
            /\ proc'.kv.addr = [proc.kv.addr EXCEPT ![h] = a]
        BY <1>2, <3>4 DEF Settings
      <3>6. proc'.kv.addr[h] = a /\ \A k \in Colours \ {h} : proc'.kv.addr[k] = proc.kv.addr[k]
        <4>1. DOMAIN proc.kv.addr = Colours /\ h \in Colours
          BY <1>2, <2>2 DEF Settings, h
        <4> QED BY <3>5, <4>1
      <3>7. \A k \in Colours : Addressable(proc.kv, k)' <=> Addressable(proc.kv, k)
        BY <3>5 DEF Addressable
      <3>8. \A x : Pending(x) /\ h # x => Pending(x)'
        BY <1>5 DEF h
      <3> QED BY <1>6, <3>2, <3>6, <3>7, <3>8
    <2> QED BY <1>1, <2>1, <2>2
  <1>8. ~Quiet'
    BY <1>4, PhasesNext DEF OnePhase, Open, Whole, Shape
  <1>9. "domain" # Head(dialogs) /\ \A u \in Users : u # Head(dialogs)
    BY <1>1, ColourNames DEF Lines, Users
  <1>10. /\ left'.faults < MaxFaults \/ \A u \in unset' : Pending(u)'
         /\ Pending("domain")' \/ (hosts'.host = main'.host /\ hosts'.domain \in {main'.domain, "not a domain"})
    BY <1>1, <1>5, <1>9, <1>11 DEF Ready, Going
  <1> QED BY <1>1, <1>4, <1>7, <1>8, <1>10, <1>11 DEF Ready, Going

\* The settings are written: no form is still to come.
LEMMA WriteReady ==
  ASSUME Whole, Whole', Ready, at = "setup", UNCHANGED ivars, WriteSettings
  PROVE  Ready'
  <1>1. /\ UNCHANGED <<main, hosts, unset, dhcp, left, at, restored>> /\ mode # "off" /\ Close
        /\ Head(dialogs) \in {"network", "write"}
    BY DEF WriteSettings, world, ivars, On
  <1>2. Shape /\ mode = "chroot"
    BY <1>1 DEF Whole, Shape, Menu, Network, Before, During, After
  <1>3. Open /\ ~Choosing /\ (Menu' \/ After')
    BY <1>1, <1>2, Popped
  <1>4. mode' \in {"off", mode}
    BY DEF WriteSettings, Close, Then
  <1>5. During /\ After'
    BY <1>2, <1>3, <1>4 DEF Open, Network, Menu
  <1>6. Head(dialogs) = "write"
    BY <1>1, <1>2, <1>5, OnScreen, ColourNames DEF Lines
  <1>7. left.skips < MaxSkips \/ \A k \in Colours : Addressable(proc.kv, k) => proc.kv.addr[k] # NoAddress
    BY <1>2, <1>3, <1>5, <1>6, OnScreen DEF Ready, Going
  <1>8. eth' = proc.kv
    BY <1>2 DEF WriteSettings
  <1>9. left.skips < MaxSkips \/ \A k \in Colours : Addressable(eth, k)' => eth'.addr[k] # NoAddress
    BY <1>7, <1>8 DEF Addressable
  <1>10. ~During' /\ ~Before'
    BY <1>5, PhasesNext DEF OnePhase, Open, NotYet, Whole, Shape
  <1>11. dhcp.state # "proposed"
    BY <1>5 DEF Ready
  <1>12. \A x : Pending(x) /\ Head(dialogs) # x => Pending(x)'
    BY <1>1, <1>2, StaysPending
  <1>13. /\ left.faults < MaxFaults \/ \A u \in unset' : Pending(u)'
         /\ Pending("domain")' \/ (hosts'.host = main'.host /\ hosts'.domain \in {main'.domain, "not a domain"})
    BY <1>1, <1>6, <1>12 DEF Ready, Going, Users
  <1>14. Bounded'
    BY <1>1, BoundsKept DEF Ready
  <1> QED BY <1>1, <1>9, <1>10, <1>11, <1>13, <1>14 DEF Ready, Going

\* The range for the DHCP server is made from the settings that were written,
\* and a user who was asked has a password.
LEMMA LastReady ==
  ASSUME Whole, Whole', Ready, at = "setup", UNCHANGED ivars, InstallPasswords \/ changedhcpserver
  PROVE  Ready'
  <1>1. /\ UNCHANGED <<eth, main, hosts, at, restored>> /\ mode # "off" /\ Close
        /\ Head(dialogs) \in {"dhcp", "root", "admin", "backup"}
    BY DEF InstallPasswords, changedhcpserver, world, ivars, On, Users
  <1>2. Shape /\ mode = "chroot"
    BY <1>1 DEF Whole, Shape, Menu, Network, Before, During, After
  <1>3. After /\ (After' \/ mode' = "off")
    BY <1>1, <1>2, Popped
  <1>4. ~Before' /\ ~During'
    <2>1. CASE After'
      BY <2>1, PhasesNext DEF OnePhase, Open, NotYet, Whole, Shape
    <2>2. CASE mode' = "off"
      BY <2>2 DEF Before, During
    <2> QED BY <1>3, <2>1, <2>2
  <1>5. /\ left.skips < MaxSkips \/ \A k \in Colours : Addressable(eth, k) => eth.addr[k] # NoAddress
        /\ dhcp.state = "proposed" => dhcp.range = DhcpRange(eth.addr["GREEN"])
    BY <1>2, <1>3 DEF Ready, Going, Quiet
  <1>6. left.skips < MaxSkips \/ \A k \in Colours : Addressable(eth, k)' => eth'.addr[k] # NoAddress
    BY <1>1, <1>5 DEF Addressable
  <1>7. \A x : Pending(x) /\ Head(dialogs) # x => Pending(x)'
    BY <1>1, <1>2, StaysPending
  <1>8. Pending("domain")' \/ (hosts'.host = main'.host /\ hosts'.domain \in {main'.domain, "not a domain"})
    BY <1>1, <1>7 DEF Ready, Going
  <1>9. /\ Bounded /\ unset \subseteq Users
        /\ left.faults < MaxFaults \/ \A u \in unset : Pending(u)
        /\ main = [host |-> main.host, domain |-> main.domain]
    BY DEF Ready, Going
  <1>10. CASE changedhcpserver
    <2>1. Head(dialogs) = "dhcp" /\ UNCHANGED <<unset, left>>
      BY <1>10 DEF changedhcpserver, On, world
    <2>2. left.faults < MaxFaults \/ \A u \in unset' : Pending(u)'
      BY <1>7, <1>9, <2>1 DEF Users
    <2>3. dhcp'.state = "proposed" => dhcp'.range = DhcpRange(eth'.addr["GREEN"])
      <3>1. CASE Readable(eth)
        <4>1. dhcp' \in [state: {"off", "proposed", "typed"}, range: {DhcpRange(eth.addr["GREEN"])}]
          BY <1>10, <3>1 DEF changedhcpserver
        <4> HIDE DEF DhcpRange
        <4> QED BY <1>1, <4>1
      <3>2. CASE ~Readable(eth)
        BY <1>1, <1>5, <1>10, <3>2 DEF changedhcpserver
      <3> QED BY <3>1, <3>2
    <2>4. Bounded'
      BY <1>9, <2>1, BoundsKept
    <2> QED BY <1>1, <1>4, <1>6, <1>8, <1>9, <2>1, <2>2, <2>3, <2>4 DEF Ready, Going, Starting
  <1>11. CASE InstallPasswords
    <2>1. PICK u \in Users, set \in BOOLEAN :
            /\ On(u) /\ password(u, set)
            /\ set \/ left.faults > 0
            /\ left' = [left EXCEPT !.faults = IF set THEN @ ELSE @ - 1]
      BY <1>11 DEF InstallPasswords
    <2>2. UNCHANGED dhcp /\ Head(dialogs) = u /\ unset' = IF set THEN unset \ {u} ELSE unset
      BY <1>11, <2>1 DEF InstallPasswords, On, password
    <2>3. CASE set
      <3>1. left' = left
        BY <1>9, <2>1, <2>3 DEF Bounded
      <3>2. left'.faults < MaxFaults \/ \A x \in unset' : Pending(x)'
        BY <1>7, <1>9, <2>2, <2>3, <3>1
      <3>3. unset' \subseteq Users
        BY <1>9, <2>2
      <3>4. Bounded'
        BY <1>9, <3>1, BoundsKept
      <3> QED BY <1>1, <1>4, <1>5, <1>6, <1>8, <1>9, <2>2, <3>1, <3>2, <3>3, <3>4 DEF Ready, Going, Starting
    <2>4. CASE ~set
      <3>1. left' = [setups |-> left.setups, choices |-> left.choices, events |-> left.events,
                     faults |-> left.faults - 1, skips |-> left.skips]
        BY <1>9, <2>1, <2>4 DEF Bounded
      <3>2. /\ left'.setups = left.setups /\ left'.choices = left.choices /\ left'.events = left.events
            /\ left'.faults = left.faults - 1 /\ left'.skips = left.skips
        BY <3>1
      <3>3. Bounded' /\ left'.faults < MaxFaults
        BY <1>9, <3>1, <3>2, SetupAssumption DEF Bounded, SetupAssumption
      <3>4. unset' \subseteq Users
        BY <1>9, <2>2
      <3> QED BY <1>1, <1>4, <1>5, <1>6, <1>8, <1>9, <2>2, <3>2, <3>3, <3>4 DEF Ready, Going, Starting
    <2> QED BY <2>3, <2>4
  <1> QED BY <1>10, <1>11

\* Every dialog of an installation; those of the menu are not in it.
LEMMA DialogReady ==
  ASSUME Whole, Whole', Ready, at = "setup", UNCHANGED ivars, Dialog, ~died'
  PROVE  Ready'
  <1>1. Shape
    BY DEF Whole
  <1>2. ASSUME SectionMenu \/ selectchangeaddress \/ NetworkMenu PROVE FALSE
    <2>1. Menu \/ Network
      BY <1>1, <1>2, OnWhich DEF SectionMenu, selectchangeaddress, NetworkMenu
    <2> QED BY <1>1, <2>1 DEF Shape, Menu, Network
  <1> QED BY <1>2, SectionsReady, NetworkReady, ListDoneReady, FormReady, WriteReady, LastReady DEF Dialog

\* The installer has not asked for anything yet.
LEMMA ReadyInit == Init => ConfInv
  <1> SUFFICES ASSUME Init PROVE Ready
    BY DEF ConfInv
  <1>1. /\ left = [setups |-> MaxSetups, choices |-> MaxChoices, events |-> MaxEvents, faults |-> MaxFaults,
                    skips |-> MaxSkips]
        /\ main = [host |-> "ipcop", domain |-> "localdomain"] /\ unset = Users /\ dhcp = NoDhcp /\ at = "welcome"
    BY DEF Init, SetupInit
  <1>2. Bounded
    BY <1>1, SetupAssumption DEF Bounded, SetupAssumption
  <1>3. dhcp.state # "proposed"
    BY <1>1 DEF NoDhcp
  <1> QED BY <1>1, <1>2, <1>3 DEF Ready, Going

\* Setup is left alone.
LEMMA ReadyIdle ==
  ASSUME Whole, Ready, UNCHANGED vars,
         \/ Starting /\ Starting'
         \/ UNCHANGED <<at, restored>>
         \/ at = "setup" /\ mode = "off" /\ at' = "done" /\ restored' = restored
  PROVE  Ready'
  <1>1. UNCHANGED <<mode, dialogs, proc, eth, main, hosts, unset, dhcp, left>>
    BY DEF vars
  <1>2. /\ (Menu' <=> Menu) /\ (Before' <=> Before) /\ (After' <=> After) /\ (During' <=> During)
        /\ (Choosing' <=> Choosing)
    BY <1>1 DEF Menu, Before, After, During, Choosing, Under
  <1>3. \A x : Pending(x)' <=> Pending(x)
    BY <1>1 DEF Pending
  <1>4. \A k : (Addressable(eth, k)' <=> Addressable(eth, k)) /\ (Addressable(proc.kv, k)' <=> Addressable(proc.kv, k))
    BY <1>1 DEF Addressable
  <1>5. /\ Bounded /\ Bounded'
        /\ main = [host |-> main.host, domain |-> main.domain] /\ unset \subseteq Users
    BY <1>1, BoundsKept DEF Ready
  <1>6. at = "setup" => ~restored
    BY DEF Whole, Shape
  <1>7. CASE Starting /\ Starting'
    <2>1. dhcp'.state # "proposed" /\ ~Going'
      BY <1>1, <1>7 DEF Ready, Starting, Going
    <2> QED BY <1>1, <1>5, <2>1 DEF Ready
  <1>8. CASE ~Starting
    <2>1. (Going' <=> Going) /\ (Starting' <=> Starting)
      BY <1>6, <1>8 DEF Going, Starting
    <2>2. Going /\ Quiet' => Quiet
      BY <1>1, <1>2, <1>6, <1>8 DEF Quiet, NotYet, Going
    <2>3. Starting \/ Before \/ During => dhcp.state # "proposed"
      BY DEF Ready
    <2>4. Going =>
            /\ left.faults < MaxFaults \/ \A u \in unset : Pending(u)
            /\ Pending("domain") \/ (hosts.host = main.host /\ hosts.domain \in {main.domain, "not a domain"})
            /\ During /\ ~Choosing =>
                 \/ left.skips < MaxSkips
                 \/ \A k \in Colours : Addressable(proc.kv, k) => proc.kv.addr[k] # NoAddress \/ Pending(k)
            /\ Quiet => /\ left.skips < MaxSkips \/ \A k \in Colours : Addressable(eth, k) => eth.addr[k] # NoAddress
                        /\ dhcp.state = "proposed" => dhcp.range = DhcpRange(eth.addr["GREEN"])
      BY DEF Ready
    <2> QED BY <1>1, <1>2, <1>3, <1>4, <1>5, <2>1, <2>2, <2>3, <2>4 DEF Ready
  <1>9. CASE Starting /\ ~Starting'
    BY <1>9 DEF Starting
  <1> QED BY <1>7, <1>8, <1>9

\* Everything is still to come when setup starts.
LEMMA RunSetupReady ==
  ASSUME Whole, Whole', Ready, RunSetup, ~died'
  PROVE  Ready'
  <1>1. UNCHANGED <<main, hosts, unset, dhcp, left, restored>> /\ at = "congratulations"
    BY DEF RunSetup, files
  <1>2. mode = "off"
    BY <1>1 DEF Whole, Shape, Menu, Network, Before, During, After
  <1>3. dhcp.state # "proposed" /\ unset \subseteq Users
    BY <1>1 DEF Ready, Starting
  <1>6. Bounded'
    BY <1>1, BoundsKept DEF Ready
  <1>4. CASE restored
    <2>1. ~Going' /\ dhcp'.state # "proposed"
      BY <1>1, <1>3, <1>4 DEF RunSetup, Going
    <2> QED BY <1>1, <1>6, <2>1 DEF Ready
  <1>5. CASE ~restored
    <2> DEFINE ds == <<"keymap", "hostname", "domain", "networking", "root", "admin", "backup">>
    <2>1. at' = "setup" /\ mode' = "chroot" /\ dialogs' = ds
      BY <1>5 DEF RunSetup
    <2>2. Len(ds) = 7 /\ ds[3] = "domain" /\ ds[4] = "networking" /\ ds[5] = "root" /\ ds[6] = "admin" /\ ds[7] = "backup"
      OBVIOUS
    <2> HIDE DEF ds
    <2>3. Pending("domain")' /\ \A u \in Users : Pending(u)'
      BY <2>1, <2>2 DEF Pending, Users
    <2>4. ~During' /\ ~Quiet'
      <3>1. Under(3)' = "networking"
        BY <2>1, <2>2 DEF Under
      <3>2. ~During' /\ ~After'
        <4>1. ~During'
          BY <3>1 DEF During
        <4>2. ~After'
          BY <2>1, <2>2 DEF After
        <4> QED BY <4>1, <4>2
      <3> QED BY <2>1, <3>2 DEF Quiet, Menu
    <2> QED BY <1>1, <1>3, <1>6, <2>1, <2>3, <2>4 DEF Ready
  <1> QED BY <1>4, <1>5

\* What is to come stays so in every step, until the machine runs what was installed.
LEMMA ReadyNext ==
  ASSUME CardInv, CardInv', ConfInv, [Next]_<<vars, ivars>>
  PROVE  ConfInv'
  <1>1. died => died'
    BY DeadStays
  <1>2. at = "up" => at' = "up"
    BY DEF Next, Welcome, scan_hardware, Rescan, findsource, source_network, selectdestination, selecttarget,
           MakeStep, MakeDone, handlerestore, SkipRestore, RunSetup, SetupEnded, Boot, ivars
  <1> SUFFICES ASSUME Whole, Whole', Ready, ~died', at # "up", at' # "up" PROVE Ready'
    BY <1>1, <1>2 DEF ConfInv, CardInv
  <1>3. CASE UNCHANGED <<vars, ivars>>
    <2>1. UNCHANGED vars /\ UNCHANGED <<at, restored>>
      BY <1>3 DEF ivars
    <2> QED BY <2>1, ReadyIdle
  <1>4. CASE \/ Welcome \/ scan_hardware \/ Rescan \/ findsource \/ source_network
             \/ selectdestination \/ selecttarget \/ MakeStep \/ MakeDone
             \/ handlerestore \/ SkipRestore
    <2>1. UNCHANGED vars /\ Starting /\ Starting'
      BY <1>4, InstallerSteps DEF Starting
    <2> QED BY <2>1, ReadyIdle
  <1>5. CASE RunSetup
    BY <1>5, RunSetupReady
  <1>6. CASE SetupEnded
    <2>1. UNCHANGED vars /\ at = "setup" /\ mode = "off" /\ at' = "done" /\ restored' = restored
      BY <1>6 DEF SetupEnded
    <2> QED BY <2>1, ReadyIdle
  <1>7. CASE Boot
    BY <1>7 DEF Boot
  <1>8. CASE at \in {"setup", "up"} /\ Dialog /\ UNCHANGED ivars
    BY <1>8, DialogReady
  <1> QED BY <1>3, <1>4, <1>5, <1>6, <1>7, <1>8 DEF Next

\* The range DhcpRange makes of an address in a network of at least four is not
\* empty and does not hold the address, but for the first of a network of four.
LEMMA RangeIsFree ==
  ASSUME NEW h \in Nat, NEW b \in Nat \ {0}, b >= 4, ~(b = 4 /\ h % 4 \in {0, 1})
  PROVE  LET r == DhcpRange([host |-> h, block |-> b]) IN r.from <= r.to /\ h \notin r.from .. r.to
  <1> DEFINE m == h % b
  <1>1. m \in 0 .. b - 1
    OBVIOUS
  <1>2. b = 4 => m >= 2
    <2>1. ASSUME b = 4 PROVE m = h % 4 /\ m \notin {0, 1}
      BY <2>1
    <2> HIDE DEF m
    <2> QED BY <1>1, <2>1
  <1> DEFINE r == DhcpRange([host |-> h, block |-> b])
  <1>3. r = IF h + 2 < h - m + b - 1 THEN [from |-> h + 1, to |-> h - m + b - 1 - 1]
                                     ELSE [from |-> h - m + 1, to |-> h - 1]
    BY DEF DhcpRange
  <1> HIDE DEF m, r
  <1>4. CASE h + 2 < h - m + b - 1
    <2>1. r.from = h + 1 /\ r.to = h - m + b - 1 - 1
      BY <1>3, <1>4
    <2> QED BY <1>1, <1>4, <2>1 DEF r
  <1>5. CASE ~(h + 2 < h - m + b - 1)
    <2>1. r.from = h - m + 1 /\ r.to = h - 1
      BY <1>3, <1>5
    <2>2. m >= 2
      BY <1>1, <1>2, <1>5
    <2> QED BY <1>1, <2>1, <2>2 DEF r
  <1> QED BY <1>4, <1>5

\* With setup at its end nothing is to come.
LEMMA ReadySafe ==
  ASSUME CardInv, ConfInv, at = "done", ~restored, ~died
  PROVE  Configured
  <1>1. Whole /\ Ready /\ Going
    BY DEF CardInv, ConfInv, Going
  <1>2. mode = "off" /\ dialogs = <<>>
    BY <1>1 DEF Whole, Shape, Menu, Network, Before, During, After
  <1>3. Quiet
    BY <1>2 DEF Quiet, NotYet, Before
  <1>4. Counted(eth) /\ eth \in Settings
    BY <1>1, <1>3 DEF Whole, Phased, Settled, SetupTypes
  <1>5. \A x : ~Pending(x)
    BY <1>2 DEF Pending
  <1>6. /\ unset = {} \/ left.faults < MaxFaults
        /\ hosts.host = main.host /\ hosts.domain \in {main.domain, "not a domain"}
    BY <1>1, <1>5 DEF Ready
  <1>7. /\ left.skips < MaxSkips \/ \A k \in Colours : Addressable(eth, k) => eth.addr[k] # NoAddress
        /\ dhcp.state = "proposed" => dhcp.range = DhcpRange(eth.addr["GREEN"])
    BY <1>1, <1>3 DEF Ready
  <1>8. \/ left.skips < MaxSkips
        \/ Readable(eth) /\ (eth.type \in Addressed => eth.addr["RED"] # NoAddress)
    BY <1>7, ColourNames DEF Readable, Addressable
  <1>9. eth.count["GREEN"] = 1 /\ (eth.type \notin Modem => eth.count["RED"] = 1)
    BY <1>4 DEF Counted
  <1> DEFINE a == eth.addr["GREEN"]
  <1>10. ASSUME dhcp.state = "proposed", a.block >= 4, ~(a.block = 4 /\ a.host % 4 \in {0, 1})
         PROVE  dhcp.range.from <= dhcp.range.to /\ a.host \notin dhcp.range.from .. dhcp.range.to
    <2>1. a # NoAddress
      BY <1>10 DEF NoAddress
    <2>2. a \in UNION {Addresses[k] : k \in Colours}
      BY <1>4, <2>1, ColourNames DEF Settings
    <2>3. a \in [host: Nat, block: Nat \ {0}]
      BY <2>2, SetupAssumption DEF SetupAssumption
    <2> HIDE DEF a
    <2>4. a.host \in Nat /\ a.block \in Nat \ {0} /\ a = [host |-> a.host, block |-> a.block]
      BY <2>3
    <2>5. LET r == DhcpRange([host |-> a.host, block |-> a.block]) IN r.from <= r.to /\ a.host \notin r.from .. r.to
      BY <1>10, <2>4, RangeIsFree
    <2>6. dhcp.range = DhcpRange(a)
      BY <1>7, <1>10 DEF a
    <2>7. DhcpRange(a) = DhcpRange([host |-> a.host, block |-> a.block])
      BY <2>4
    <2> HIDE DEF DhcpRange
    <2> QED BY <2>5, <2>6, <2>7
  <1> QED BY <1>6, <1>8, <1>9, <1>10 DEF Configured

\* When the installer congratulates, the disks can be booted and, unless a
\* backup was restored, setup could not be run (installer.c:1097) or was killed
\* by the parameters of DHCP (networking.c:1122), the configuration is complete,
\* but for the addresses of forms that were left with F12: for all machines,
\* options, cards, addresses, and whatever the user answers in which order.
THEOREM InstallIsComplete == Spec => []Installed
  <1>1. Init => CardInv /\ ConfInv
    BY CardsInit, ReadyInit
  <1>2. CardInv /\ ConfInv /\ [Next]_<<vars, ivars>> => CardInv' /\ ConfInv'
    BY CardsNext, ReadyNext
  <1>3. CardInv /\ ConfInv /\ (at = "done" => Bootable) => Installed
    BY ReadySafe DEF Installed
  <1>4. Spec => [](at = "done" => Bootable)
    BY DisksBootable
  <1> QED BY <1>1, <1>2, <1>3, <1>4, PTL DEF Spec
=============================================================================
