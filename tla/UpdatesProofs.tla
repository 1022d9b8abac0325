--------------------------- MODULE UpdatesProofs ---------------------------
(***************************************************************************)
(* Theorems about the releases: the list of installed updates is the way   *)
(* the system has come, and the backups, whose test depends on the release *)
(* an update leaves behind, implement Vault.  Both rest on the invariants  *)
(* of BackupProofs, and hold while requests come one at a time.            *)
(***************************************************************************)
EXTENDS BackupProofs

-----------------------------------------------------------------------------
(* The way to a release.                                                   *)

\* The way to a release holds it, ...
LEMMA PathEnds ==
  ASSUME NEW v \in Updatable
  PROVE  v \in Path(v)
  BY DEF Path, ClosedUnder

\* ... is closed itself, ...
LEMMA PathCloses ==
  ASSUME NEW v
  PROVE  Path(v) \in SUBSET Updatable /\ ClosedUnder(v, Path(v))
  BY DEF Path, ClosedUnder

\* ... and is the way to the release before it with one step more.
LEMMA PathStep ==
  ASSUME NEW v \in Updatable
  PROVE  Path(v) = Path(Previous[v]) \cup {v}
  <1> DEFINE u == Previous[v]
  <1>1. Path(v) \subseteq Path(u) \cup {v}
    <2> DEFINE S == Path(u) \cup {v}
    <2>1. S \in SUBSET Updatable
      BY PathCloses
    <2>2. ClosedUnder(v, S)
      <3>1. ClosedUnder(u, Path(u))
        BY PathCloses
      <3> QED BY <3>1 DEF ClosedUnder
    <2> QED BY <2>1, <2>2 DEF Path
  <1>2. ASSUME NEW w \in Path(u) PROVE w \in Path(v)
    <2> SUFFICES ASSUME NEW S \in SUBSET Updatable, ClosedUnder(v, S) PROVE w \in S
      BY <1>2 DEF Path
    <2>1. ClosedUnder(u, S)
      BY DEF ClosedUnder
    <2> QED BY <1>2, <2>1 DEF Path
  <1> QED BY <1>1, <1>2, PathEnds

\* No update leads to the release first installed.
LEMMA PathBegins == Path(FirstRelease) = {}
  <1>1. ClosedUnder(FirstRelease, {})
    BY Constants DEF ClosedUnder
  <1> QED BY <1>1 DEF Path

-----------------------------------------------------------------------------
(* The list of installed updates.                                          *)

\* The list is the way to the running release, but for the moment between the
\* setup of a package and the rewritten list, when its own entry is missing.
Listed ==
  /\ (\A p \in Procs : pc[p] \notin {"read", "list"}) => installed = Path(release)
  /\ \A p \in Procs :
       /\ pc[p] \in {"read", "list"} => release = for[p] /\ Path(release) = installed \cup {for[p]}
       /\ pc[p] = "list" => seen[p] = installed

\* Everything that is not an install leaves release and list alone.
LEMMA ListedElse ==
  ASSUME Listed, UNCHANGED <<release, installed>>,
         \A q \in Procs : /\ pc'[q] \in {"read", "list"} =>
                               pc'[q] = pc[q] /\ for'[q] = for[q] /\ seen'[q] = seen[q]
                          /\ pc[q] \in {"read", "list"} => pc'[q] = pc[q]
  PROVE  Listed'
  BY DEF Listed

LEMMA ListedKept ==
  ASSUME Shape, Alone, Listed, [UNext]_allvars, ~tangled', cuts' = 0
  PROVE  Listed'
  <1>1. ASSUME NEW p \in Procs,
               \/ Page(p) /\ UNCHANGED uvars
               \/ \E v \in Updatable : Upload(p, v) \/ Apply(p, v)
        PROVE  Listed'
    <2>1. Begins(p)
      BY <1>1, BeginKind
    <2>2. UNCHANGED <<release, installed, seen>> /\ \A q \in Procs \ {p} : for'[q] = for[q]
      <3>1. CASE Page(p) /\ UNCHANGED uvars
        BY <3>1 DEF Page, Write, Floppy, Import, Restore, system, uvars, patches
      <3>2. CASE \E v \in Updatable : Upload(p, v) \/ Apply(p, v)
        BY <3>2 DEF Upload, Apply, patches, Shape, LocalOK
      <3> QED BY <1>1, <3>1, <3>2
    <2> QED BY <2>1, <2>2, ListedElse DEF Begins, Shape, PlaceOK
  <1>2. ASSUME NEW p \in Procs, NEW next \in Points, Continues(p, next),
               UNCHANGED <<release, installed>>,
               next \notin {"read", "list"}, pc[p] \notin {"read", "list"},
               \A q \in Procs \ {p} : for'[q] = for[q] /\ seen'[q] = seen[q]
        PROVE  Listed'
    BY <1>2, ListedElse DEF Continues, Shape, PlaceOK
  <1>3. ASSUME NEW p \in Procs, Program(p), UNCHANGED uvars PROVE Listed'
    <2>1. UNCHANGED <<installed, for, seen>>
      BY <1>3 DEF uvars, patches
    <2>2. UNCHANGED release
      BY <1>3 DEF Program, TarArchive, TarFails, Encrypt, EncryptFails, TagArchive, Decrypt, DecryptFails,
             Test, TestFails, TestRefuses, DateImport, MoveImport, Gunzip, Untar, UntarFails, SetPorts,
             VerifyFloppy, exitWrite, exitRestore, system
    <2>3. pc[p] \notin Updating /\ pc'[p] \notin Updating
      BY <1>3 DEF Program, TarArchive, TarFails, Encrypt, EncryptFails, TagArchive, Decrypt, DecryptFails,
             Test, TestFails, TestRefuses, DateImport, MoveImport, Gunzip, Untar, UntarFails, SetPorts,
             VerifyFloppy, exitWrite, exitRestore, Exit, Go, Shape, PlaceOK, Updating
    <2>4. PICK next \in Points : Continues(p, next)
      BY <1>3, ProgramKind
    <2>5. pc'[p] = next
      BY <2>4 DEF Continues, Shape, PlaceOK
    <2> QED BY <1>2, <2>1, <2>2, <2>3, <2>4, <2>5 DEF Updating
  <1>4. ASSUME NEW p \in Procs, Gpg(p) PROVE Listed'
    <2>1. PICK next \in {"setup", "merge"} : Go(p, next)
      BY <1>4 DEF Gpg
    <2>2. pc[p] = "gpg" /\ UNCHANGED <<release, installed, for, seen>>
      BY <1>4 DEF Gpg
    <2> QED BY <1>2, <2>1, <2>2, GoKind DEF Points, Updating
  <1>5. ASSUME NEW p \in Procs, GpgFails(p) \/ Merge(p) \/ SetupFails(p) PROVE Listed'
    <2>1. pc[p] \in {"gpg", "merge", "setup"} /\ UNCHANGED <<release, installed>>
      BY <1>5 DEF GpgFails, Merge, SetupFails, patches
    <2>2. PICK answer : Done(p, answer)
      BY <1>5 DEF GpgFails, Merge, SetupFails
    <2>3. Continues(p, "idle")
      BY <2>1, <2>2, ExitKind DEF Done
    <2>4. \A q \in Procs \ {p} : for'[q] = for[q] /\ seen'[q] = seen[q]
      BY <2>2 DEF Done, Shape, LocalOK
    <2> QED BY <1>2, <2>1, <2>3, <2>4 DEF Points
  <1>6. ASSUME NEW p \in Procs, Setup(p) PROVE Listed'
    <2>1. /\ pc[p] = "setup" /\ release \in {Previous[for[p]], for[p]} /\ release' = for[p]
          /\ pc' = [pc EXCEPT ![p] = "read"] /\ UNCHANGED <<installed, for, seen>>
      BY <1>6 DEF Setup, Go, patches
    <2>2. pc'[p] = "read" /\ \A q \in Procs \ {p} : pc'[q] = "idle" /\ pc[q] = "idle"
      BY <2>1, OthersIdle DEF Shape, PlaceOK
    <2>3. for[p] \in Updatable
      BY <2>1 DEF Shape, AimOK, Updating
    <2>4. installed = Path(release)
      BY <2>1, <2>2 DEF Listed
    <2>5. Path(release') = installed \cup {for[p]}
      BY <2>1, <2>3, <2>4, PathStep, PathEnds
    <2>6. Path(release)' = Path(release')
      BY DEF Path, ClosedUnder
    <2> QED BY <2>1, <2>2, <2>5, <2>6 DEF Listed
  <1>7. ASSUME NEW p \in Procs, ReadList(p) PROVE Listed'
    <2>1. /\ pc[p] = "read" /\ pc' = [pc EXCEPT ![p] = "list"] /\ UNCHANGED <<installed, for, release>>
          /\ seen' = [seen EXCEPT ![p] = installed]
      BY <1>7 DEF ReadList, Go, patches
    <2>2. pc'[p] = "list" /\ \A q \in Procs \ {p} : pc'[q] = "idle"
      BY <2>1, OthersIdle DEF Shape, PlaceOK
    <2>3. seen'[p] = installed
      BY <2>1 DEF Shape, LocalOK
    <2> QED BY <2>1, <2>2, <2>3 DEF Listed
  <1>8. ASSUME NEW p \in Procs, WriteList(p) PROVE Listed'
    <2>1. /\ pc[p] = "list" /\ pc' = [pc EXCEPT ![p] = "idle"] /\ UNCHANGED release
          /\ installed' = seen[p] \cup {for[p]}
      BY <1>8 DEF WriteList, Done, Exit
    <2>2. \A q \in Procs : pc'[q] = "idle"
      BY <2>1, OthersIdle DEF Shape, PlaceOK
    <2>3. installed' = Path(release)
      BY <2>1 DEF Listed
    <2> QED BY <2>1, <2>2, <2>3 DEF Listed
  <1>9. CASE \/ (\E s \in Stamps : Remove(s)) /\ UNCHANGED uvars
             \/ (\E m \in Media : Mount(m)) /\ UNCHANGED uvars
             \/ \E v \in Updatable : DeletePackage(v)
             \/ (Edit \/ Tick) /\ UNCHANGED uvars
             \/ UNCHANGED allvars
    <2>1. UNCHANGED <<release, installed, pc, for, seen>>
      BY <1>9 DEF Remove, Mount, DeletePackage, Edit, Tick, allvars, vars, uvars, patches, system
    <2> QED BY <2>1, ListedElse
  <1>10. CASE UPowerFail
    BY <1>10 DEF UPowerFail, PowerFail, Shape, SystemOK
  <1>11. ASSUME NEW p \in Procs, Installpackage(p) PROVE Listed'
    BY <1>4, <1>5, <1>6, <1>7, <1>8, <1>11 DEF Installpackage
  <1> QED BY <1>1, <1>3, <1>9, <1>10, <1>11 DEF UNext

\* While requests come one at a time and the power does not fail, installed.xml
\* lists exactly the updates between the release first installed and the one
\* that runs, whatever failed and was tried again, for all chains of releases.
THEOREM ListIsComplete == USpec => []InstalledIsListed
  <1> DEFINE I == Shape /\ (~tangled => Orderly) /\ (~tangled /\ cuts = 0 => Listed)
  <1>1. UInit => I
    <2> SUFFICES ASSUME UInit PROVE Listed
      BY InitShape, InitOrderly
    <2> QED BY PathBegins DEF UInit, Init, Listed
  <1>2. I /\ [UNext]_allvars => I'
    <2> SUFFICES ASSUME I, [UNext]_allvars PROVE I'
      OBVIOUS
    <2>1. Shape' /\ (~tangled' => ~tangled /\ Orderly')
      BY ShapeKept, OrderlyKept
    <2>2. ~tangled' /\ cuts' = 0 => Listed'
      BY <2>1, CutsGrow, ListedKept DEF Orderly
    <2> QED BY <2>1, <2>2
  <1>3. I => InstalledIsListed
    BY DEF InstalledIsListed, Running, Listed
  <1> QED BY <1>1, <1>2, <1>3, PTL DEF USpec

-----------------------------------------------------------------------------
(* The backups implement Vault.                                            *)

\* The store of Vault: the complete archives.
Complete == [m \in Media |-> [s \in Stamps |-> IF Whole(dat[m][s]) THEN dat[m][s] ELSE None]]

\* A file is written or removed.
LEMMA CompletePut ==
  ASSUME Shape, NEW m \in Media, NEW s \in Stamps, NEW a, dat' = [dat EXCEPT ![m][s] = a]
  PROVE  /\ Complete' = [Complete EXCEPT ![m][s] = IF Whole(a) THEN a ELSE None]
         /\ Complete'[m][s] = IF Whole(a) THEN a ELSE None
  <1> DEFINE b == IF Whole(a) THEN a ELSE None
  <1>1. /\ dat'[m][s] = a
        /\ \A n \in Media, t \in Stamps : (n # m \/ t # s) => dat'[n][t] = dat[n][t]
    BY DEF Shape, FilesOK
  <1>2. Complete'[m][s] = b
    BY <1>1 DEF Complete
  <1>3. \A n \in Media, t \in Stamps : (n # m \/ t # s) => Complete'[n][t] = Complete[n][t]
    BY <1>1 DEF Complete
  <1>4. /\ Complete' = [n \in Media |-> [t \in Stamps |-> Complete'[n][t]]]
        /\ Complete = [n \in Media |-> [t \in Stamps |-> Complete[n][t]]]
    BY DEF Complete
  <1> HIDE DEF b
  <1>5. Complete' = [Complete EXCEPT ![m][s] = b]
    BY <1>2, <1>3, <1>4
  <1> QED BY <1>2, <1>5 DEF b

\* What leaves archives, settings and release alone is no step of Vault.
LEMMA VaultSame ==
  ASSUME UNCHANGED <<dat, config, hardware, release>>
  PROVE  UNCHANGED V!vaultvars
  BY DEF V!vaultvars

\* A torn or removed file is no archive.
LEMMA VaultDrop ==
  ASSUME Shape, NEW m \in Media, NEW s \in Stamps, NEW a, ~Whole(a),
         dat' = [dat EXCEPT ![m][s] = a], UNCHANGED <<config, hardware, release>>
  PROVE  V!Steps
  <1>1. V!Drop(m, s)
    BY CompletePut DEF V!Drop, V!Put, Complete
  <1> QED BY <1>1 DEF V!Steps

\* An accepted archive is unpacked over the settings, wholly or not.
LEMMA VaultPutBack ==
  ASSUME Shape, NEW p \in Procs, tar = dat[medium][stamp[p]], Accepts(tar),
         config' \in {tar.config, Torn}, hardware' \in {hardware, tar.hardware},
         UNCHANGED <<dat, release>>
  PROVE  V!Steps
  <1>1. medium \in Media /\ stamp[p] \in Stamps
    BY DEF Shape, FilesOK, LocalOK
  <1>2. Complete[medium][stamp[p]] = tar /\ tar # None
    BY <1>1, Constants DEF Complete, Accepts, Whole
  <1>3. V!PutBack(medium, stamp[p])
    BY <1>2 DEF V!PutBack, Complete, Accepts
  <1> QED BY <1>1, <1>3 DEF V!Steps

LEMMA VaultProgram ==
  ASSUME Shape, Orderly, NEW p \in Procs, Program(p)
  PROVE  V!Steps \/ UNCHANGED V!vaultvars
  <1>0. medium \in Media /\ stamp[p] \in Stamps /\ Writing(p) /\ Restoring(p)
    BY DEF Shape, FilesOK, LocalOK, Orderly
  <1>1. CASE Encrypt(p)
    <2>1. /\ pc[p] = "encrypt" /\ dat' = [dat EXCEPT ![medium][stamp[p]] = mine[p]]
          /\ UNCHANGED <<config, hardware, release>>
      BY <1>1 DEF Encrypt, system
    <2>2. /\ mine[p] \in Archives /\ Whole(mine[p]) /\ mine[p] # None
          /\ mine[p].stamp = stamp[p] /\ mine[p].release = release
      BY <1>0, <2>1, Constants DEF Writing, Whole
    <2>3. /\ Complete' = [Complete EXCEPT ![medium][stamp[p]] = mine[p]]
          /\ Complete'[medium][stamp[p]] = mine[p]
      BY <1>0, <2>1, <2>2, CompletePut
    <2>4. PICK m \in Media, s \in Stamps : m = medium /\ s = stamp[p]
      BY <1>0
    <2>5. V!Create(m, s)
      BY <2>1, <2>2, <2>3, <2>4 DEF V!Create, V!New, V!Put, Complete
    <2> QED BY <2>5 DEF V!Steps
  <1>2. CASE EncryptFails(p)
    <2>1. ~Whole(Torn)
      BY DEF Whole
    <2>2. dat' = [dat EXCEPT ![medium][stamp[p]] = Torn] /\ UNCHANGED <<config, hardware, release>>
      BY <1>2 DEF EncryptFails, system
    <2> QED BY <1>0, <2>1, <2>2, VaultDrop
  <1>3. CASE MoveImport(p)
    <2> DEFINE a == upload[medium]
    <2>1. pc[p] = "move" /\ UNCHANGED <<config, hardware, release>>
      BY <1>3 DEF MoveImport, system
    <2>2. a \in Archives /\ V!Accepted(a.release, release)
      BY <1>0, <2>1 DEF Restoring, Accepts
    <2>3. a \in Uploads /\ a # None /\ Whole(a)
      BY <1>0, <2>2, Constants DEF Whole, Shape, FilesOK
    <2>4. dat' = [dat EXCEPT ![medium][stamp[p]] = a]
      BY <1>3, <2>3 DEF MoveImport
    <2> HIDE DEF a
    <2>5. /\ Complete' = [Complete EXCEPT ![medium][stamp[p]] = a]
          /\ Complete'[medium][stamp[p]] = a
      BY <1>0, <2>3, <2>4, CompletePut
    <2>6. PICK m \in Media, s \in Stamps : m = medium /\ s = stamp[p]
      BY <1>0
    <2>7. V!Import(m, s)
      BY <2>1, <2>2, <2>3, <2>5, <2>6 DEF V!Import, V!New, V!Put, Complete
    <2> QED BY <2>7 DEF V!Steps
  <1>4. CASE Untar(p)
    <2>1. tar = dat[medium][stamp[p]] /\ Accepts(tar)
      BY <1>0, <1>4 DEF Untar, Restoring
    <2>2. /\ config' \in {tar.config, Torn} /\ hardware' \in {hardware, tar.hardware}
          /\ UNCHANGED <<dat, release>>
      BY <1>4 DEF Untar, files
    <2> QED BY <2>1, <2>2, VaultPutBack
  <1>5. CASE UntarFails(p)
    <2>1. tar = dat[medium][stamp[p]] /\ Accepts(tar)
      BY <1>0, <1>5 DEF UntarFails, Restoring
    <2>2. config' \in {config, Torn} /\ UNCHANGED <<dat, hardware, release>>
      BY <1>5 DEF UntarFails, HalfUntarred
    <2>3. CASE config' = config
      BY <2>2, <2>3, VaultSame
    <2>4. CASE config' = Torn
      BY <2>1, <2>2, <2>4, VaultPutBack
    <2> QED BY <2>2, <2>3, <2>4
  <1>6. CASE \/ TarArchive(p) \/ TarFails(p) \/ TagArchive(p) \/ Decrypt(p) \/ DecryptFails(p)
             \/ Test(p) \/ TestFails(p) \/ TestRefuses(p) \/ DateImport(p) \/ Gunzip(p)
             \/ SetPorts(p) \/ VerifyFloppy(p)
    <2>1. UNCHANGED <<dat, config, hardware, release>>
      BY <1>6 DEF TarArchive, TarFails, TagArchive, Decrypt, DecryptFails, Test, TestFails, TestRefuses,
             DateImport, Gunzip, SetPorts, VerifyFloppy, exitWrite, exitRestore, files, system
    <2> QED BY <2>1, VaultSame
  <1> QED BY <1>1, <1>2, <1>3, <1>4, <1>5, <1>6 DEF Program

LEMMA VaultInstall ==
  ASSUME Shape, NEW p \in Procs, Installpackage(p)
  PROVE  V!Steps \/ UNCHANGED V!vaultvars
  <1>1. UNCHANGED <<dat, config, hardware>>
    BY DEF Installpackage, Gpg, GpgFails, Merge, Setup, SetupFails, ReadList, WriteList, Done, idle, files
  <1>2. CASE Setup(p)
    <2>1. pc[p] = "setup" /\ release \in {Previous[for[p]], for[p]} /\ release' = for[p]
      BY <1>2 DEF Setup
    <2>2. for[p] \in Updatable
      BY <2>1 DEF Shape, AimOK, Updating
    <2>3. CASE release = for[p]
      BY <1>1, <2>1, <2>3, VaultSame
    <2>4. CASE release = Previous[for[p]]
      <3>1. V!Earlier(release, release')
        BY <2>1, <2>2, <2>4, UpdatesAssumption
      <3>2. V!Upgrade
        BY <1>1, <3>1 DEF V!Upgrade
      <3> QED BY <3>2 DEF V!Steps
    <2> QED BY <2>1, <2>3, <2>4
  <1>3. CASE ~Setup(p)
    <2>1. UNCHANGED release
      BY <1>3 DEF Installpackage, Gpg, GpgFails, Merge, SetupFails, ReadList, WriteList
    <2> QED BY <1>1, <2>1, VaultSame
  <1> QED BY <1>2, <1>3

LEMMA VaultWorld ==
  ASSUME Shape, Orderly,
         \/ \E s \in Stamps : Remove(s)
         \/ \E m \in Media : Mount(m)
         \/ \E v \in Updatable : DeletePackage(v)
         \/ Edit \/ Tick
         \/ UPowerFail
         \/ UNCHANGED allvars
  PROVE  V!Steps \/ UNCHANGED V!vaultvars
  <1>0. medium \in Media
    BY DEF Shape, FilesOK
  <1>1. ASSUME NEW s \in Stamps, Remove(s) PROVE V!Steps
    <2>1. ~Whole(None)
      BY DEF Whole
    <2> QED BY <1>0, <1>1, <2>1, VaultDrop DEF Remove, system
  <1>2. CASE \/ \E m \in Media : Mount(m)
             \/ \E v \in Updatable : DeletePackage(v)
             \/ Tick
             \/ UNCHANGED allvars
    <2>1. UNCHANGED <<dat, config, hardware, release>>
      BY <1>2 DEF Mount, DeletePackage, Tick, allvars, vars, files, system, idle
    <2> QED BY <2>1, VaultSame
  <1>3. CASE Edit
    <2>1. /\ config # Torn /\ config' \in Configs /\ config' # config
          /\ UNCHANGED <<dat, hardware, release>>
      BY <1>3 DEF Edit, files
    <2>2. V!EditConfig
      BY <2>1, Constants DEF V!EditConfig
    <2> QED BY <2>2 DEF V!Steps
  <1>4. CASE UPowerFail
    <2>1. UNCHANGED <<hardware, release>>
      BY <1>4 DEF UPowerFail, PowerFail
    <2>2. \/ dat' = dat
          \/ \E p \in Procs : pc[p] = "encrypt" /\ dat' = [dat EXCEPT ![medium][stamp[p]] = Torn]
      BY <1>4 DEF UPowerFail, PowerFail
    <2>3. config' = config \/ (config' = Torn /\ \E p \in Procs : pc[p] = "untar")
      BY <1>4 DEF UPowerFail, PowerFail, HalfUntarred
    <2>4. ASSUME NEW p \in Procs, pc[p] = "encrypt", dat' = [dat EXCEPT ![medium][stamp[p]] = Torn]
          PROVE  V!Steps
      <3>1. config' = config
        BY <2>3, <2>4, OthersIdle DEF Orderly
      <3>2. ~Whole(Torn) /\ stamp[p] \in Stamps
        BY DEF Whole, Shape, LocalOK
      <3> QED BY <1>0, <2>1, <2>4, <3>1, <3>2, VaultDrop
    <2>5. ASSUME NEW p \in Procs, pc[p] = "untar", config' = Torn, dat' = dat
          PROVE  V!Steps
      <3>1. tar = dat[medium][stamp[p]] /\ Accepts(tar)
        BY <2>5 DEF Orderly, Restoring
      <3> QED BY <2>1, <2>5, <3>1, VaultPutBack
    <2> QED BY <2>1, <2>2, <2>3, <2>4, <2>5, VaultSame
  <1> QED BY <1>1, <1>2, <1>3, <1>4

\* The chains of commands, with every failure of one of them and every power
\* failure in between, implement Vault while requests come one at a time: what
\* happens to the complete archives, the settings and the release happens in
\* one step, and only what the comment of testbackupversion accepts is imported
\* or put back.
THEOREM BackupIsVault == USpec => Implements
  <1>1. UInit => Shape /\ (~tangled => Orderly)
    BY InitShape, InitOrderly
  <1>2. Shape /\ (~tangled => Orderly) /\ [UNext]_allvars => Shape' /\ (~tangled' => Orderly')
    BY ShapeKept, OrderlyKept
  <1>3. Shape /\ (~tangled => Orderly) /\ [UNext]_allvars => [V!Steps \/ tangled']_<<V!vaultvars>>
    <2> SUFFICES ASSUME Shape, ~tangled => Orderly, [UNext]_allvars, ~tangled'
                 PROVE  V!Steps \/ UNCHANGED V!vaultvars
      OBVIOUS
    <2>0. Orderly
      BY ShapeKept, OrderlyKept
    <2>1. ASSUME NEW p \in Procs, Page(p) \/ \E v \in Updatable : Upload(p, v) \/ Apply(p, v)
          PROVE  UNCHANGED V!vaultvars
      <3>1. UNCHANGED <<dat, config, hardware, release>>
        BY <2>1 DEF Page, Write, Floppy, Import, Restore, Upload, Apply, idle, files, system
      <3> QED BY <3>1, VaultSame
    <2>2. ASSUME NEW p \in Procs, Program(p) \/ Installpackage(p)
          PROVE  V!Steps \/ UNCHANGED V!vaultvars
      BY <2>0, <2>2, VaultProgram, VaultInstall
    <2>3. CASE \/ \E s \in Stamps : Remove(s)
               \/ \E m \in Media : Mount(m)
               \/ \E v \in Updatable : DeletePackage(v)
               \/ Edit \/ Tick
               \/ UPowerFail
               \/ UNCHANGED allvars
      BY <2>0, <2>3, VaultWorld
    <2> QED BY <2>1, <2>2, <2>3 DEF UNext
  <1> QED BY <1>1, <1>2, <1>3, PTL DEF USpec, Implements
=============================================================================
