---------------------------- MODULE BackupProofs ----------------------------
(***************************************************************************)
(* Theorems about Backup and Updates: for any number of programs, media,   *)
(* configurations, releases and archives.                                  *)
(*                                                                         *)
(* Cleaned holds in every interleaving.  Its invariant: as long as one of  *)
(* the two decrypted files is there, some ipcoprestore is past openssl and *)
(* before its exit handler.  Which one does not matter, and need not be    *)
(* the one that made the file.                                             *)
(*                                                                         *)
(* ListedIsTrue and PortFollows hold while requests come one at a time, so *)
(* that at most one program runs.  Their invariants say what each command  *)
(* of that program may rely on: what the commands before it have left on   *)
(* the disk, whatever was edited, mounted or cut off meanwhile.            *)
(***************************************************************************)
EXTENDS Updates, TLAPS

-----------------------------------------------------------------------------
(* Shapes.                                                                 *)

\* The points of ipcoprestore between openssl and the exit handler.
Holding == {"test", "date", "move", "gunzip", "untar", "ports"}

\* The points of installpackage.
Updating == {"gpg", "merge", "setup", "read", "list"}

\* All points of all programs, and what a program may be asked to do.
Points == {"idle", "tar", "encrypt", "tag", "decrypt", "verify"} \cup Holding \cup Updating
Ops    == {"none", "write", "import", "restore", "restorehw", "floppy", "test", "install"}

Maybe == Archives \cup {None, Torn}

PlaceOK == pc \in [Procs -> Points] /\ op \in [Procs -> Ops]
LocalOK ==
  /\ stamp \in [Procs -> Stamps] /\ mine \in [Procs -> Maybe]
  /\ port = [p \in Procs |-> port[p]] /\ for = [p \in Procs |-> for[p]]
  /\ seen = [p \in Procs |-> seen[p]]

\* What a program does at its point is what it was asked to do.
AimOK ==
  \A p \in Procs :
    /\ pc[p] \in Updating => for[p] \in Updatable
    /\ pc[p] \in {"date", "move"} => op[p] = "import" /\ mine[p] \in Archives
    /\ pc[p] \in {"gunzip", "untar", "ports"} => op[p] # "import"
FilesOK ==
  /\ medium \in Media /\ dat \in [Media -> [Stamps -> Maybe]]
  /\ tag \in [Media -> [Stamps -> BOOLEAN]] /\ upload \in [Media -> Uploads \cup {None}]
TempsOK == inner \in Stamps \cup {None} /\ tgz \in Maybe /\ tar \in Maybe
SystemOK ==
  /\ config \in Configs \cup {Torn} /\ hardware \in Hardware /\ release \in Releases
  /\ now \in Stamps /\ now >= Start /\ cuts \in Nat

Shape == PlaceOK /\ LocalOK /\ AimOK /\ FilesOK /\ TempsOK /\ SystemOK

\* The assumptions one by one.
LEMMA Constants ==
  /\ Local \in Media /\ FirstConfig \in Configs /\ FirstHardware \in Hardware
  /\ FirstRelease \in Releases /\ MaxTime \in Nat /\ Start \in Stamps
  /\ \A s \in Stamps : s \in Nat /\ s >= 1 /\ s <= MaxTime
  /\ None \notin Archives /\ Torn \notin Archives /\ None # Torn /\ Torn \notin Configs
  /\ \A a \in Uploads : a = Torn \/ (a \in Archives /\ a.stamp < Start /\ a.tag \in {None, a.stamp})
  /\ \A c \in Configs : PortOf[c] # None
  /\ Updatable \subseteq Releases /\ FirstRelease \notin Updatable
  BY BackupAssumption, UpdatesAssumption DEF Stamps

\* What a group of variables that stays the same keeps.
LEMMA Same ==
  ASSUME Shape
  PROVE  /\ UNCHANGED <<pc, op>> => PlaceOK'
         /\ UNCHANGED <<local, for, seen>> => LocalOK'
         /\ UNCHANGED <<pc, op, for, mine>> => AimOK'
         /\ UNCHANGED <<files, medium>> => FilesOK'
         /\ UNCHANGED temps => TempsOK'
         /\ UNCHANGED <<config, hardware, release, now, cuts>> => SystemOK'
  <1>1. UNCHANGED <<pc, op>> => PlaceOK'
    BY DEF Shape, PlaceOK
  <1>2. UNCHANGED <<local, for, seen>> => LocalOK'
    BY DEF Shape, LocalOK, local
  <1>3. UNCHANGED <<pc, op, for, mine>> => AimOK'
    BY DEF Shape, AimOK
  <1>4. UNCHANGED <<files, medium>> => FilesOK'
    BY DEF Shape, FilesOK, files
  <1>5. UNCHANGED temps => TempsOK'
    BY DEF Shape, TempsOK, temps
  <1>6. UNCHANGED <<config, hardware, release, now, cuts>> => SystemOK'
    BY DEF Shape, SystemOK
  <1> QED BY <1>1, <1>2, <1>3, <1>4, <1>5, <1>6

\* An archive of this machine.
LEMMA IncludedType ==
  ASSUME Shape, NEW date \in Stamps
  PROVE  Included(date) \in Archives
  BY DEF Shape, TempsOK, SystemOK, Included, Archives

\* A request begins a program at its first point.
LEMMA BeginShape ==
  ASSUME Shape, NEW p \in Procs, NEW o \in Ops, NEW first \in Points, Begin(p, o, first),
         first \notin {"date", "move", "gunzip", "untar", "ports"},
         \A q \in Procs \ {p} : for'[q] = for[q] /\ mine'[q] = mine[q],
         first \in Updating => for'[p] \in Updatable
  PROVE  PlaceOK' /\ AimOK' /\ UNCHANGED cuts
  <1>1. pc' = [pc EXCEPT ![p] = first] /\ op' = [op EXCEPT ![p] = o] /\ UNCHANGED cuts
    BY DEF Begin, Request
  <1>2. PlaceOK'
    BY <1>1 DEF Shape, PlaceOK
  <1>3. AimOK'
    <2> SUFFICES ASSUME NEW q \in Procs
                 PROVE  /\ pc'[q] \in Updating => for'[q] \in Updatable
                        /\ pc'[q] \in {"date", "move"} => op'[q] = "import" /\ mine'[q] \in Archives
                        /\ pc'[q] \in {"gunzip", "untar", "ports"} => op'[q] # "import"
      BY DEF AimOK
    <2>1. CASE q = p
      BY <1>1, <2>1 DEF Shape, PlaceOK
    <2>2. CASE q # p
      BY <1>1, <2>2 DEF Shape, PlaceOK, AimOK
    <2> QED BY <2>1, <2>2
  <1> QED BY <1>1, <1>2, <1>3

\* The exit of a program.
LEMMA ExitShape ==
  ASSUME Shape, NEW p \in Procs, NEW answer, Exit(p, answer),
         \A q \in Procs \ {p} : for'[q] = for[q],
         for' = [q \in Procs |-> for'[q]], seen' = [q \in Procs |-> seen'[q]]
  PROVE  PlaceOK' /\ LocalOK' /\ AimOK' /\ UNCHANGED cuts
  <1>1. pc' = [pc EXCEPT ![p] = "idle"] /\ op' = [op EXCEPT ![p] = "none"] /\ UNCHANGED cuts
    BY DEF Exit, counts
  <1>2. PlaceOK'
    BY <1>1 DEF Shape, PlaceOK, Points, Ops
  <1>3. LocalOK'
    <2>1. 1 \in Stamps
      BY Constants DEF Stamps
    <2> QED BY <2>1 DEF Shape, LocalOK, Exit, Maybe
  <1>4. AimOK'
    <2> SUFFICES ASSUME NEW q \in Procs
                 PROVE  /\ pc'[q] \in Updating => for'[q] \in Updatable
                        /\ pc'[q] \in {"date", "move"} => op'[q] = "import" /\ mine'[q] \in Archives
                        /\ pc'[q] \in {"gunzip", "untar", "ports"} => op'[q] # "import"
      BY DEF AimOK
    <2>1. CASE q = p
      BY <1>1, <2>1 DEF Shape, PlaceOK, Updating
    <2>2. CASE q # p
      <3>1. mine'[q] = mine[q]
        BY <2>2 DEF Exit, Shape, LocalOK
      <3> QED BY <1>1, <2>2, <3>1 DEF Shape, PlaceOK, AimOK
    <2> QED BY <2>1, <2>2
  <1> QED BY <1>1, <1>2, <1>3, <1>4

\* The step of a program to another point.
LEMMA GoShape ==
  ASSUME Shape, NEW p \in Procs, NEW next \in Points, Go(p, next), UNCHANGED for,
         \A q \in Procs \ {p} : mine'[q] = mine[q],
         next \in Updating => pc[p] \in Updating,
         next \in {"date", "move"} => op[p] = "import" /\ mine'[p] \in Archives,
         next \in {"gunzip", "untar", "ports"} => op[p] # "import"
  PROVE  PlaceOK' /\ AimOK' /\ UNCHANGED cuts
  <1>1. pc' = [pc EXCEPT ![p] = next] /\ UNCHANGED <<op, cuts>>
    BY DEF Go, counts
  <1>2. PlaceOK'
    BY <1>1 DEF Shape, PlaceOK
  <1>3. AimOK'
    BY <1>1 DEF Shape, PlaceOK, AimOK
  <1> QED BY <1>1, <1>2, <1>3

LEMMA PageShape ==
  ASSUME Shape, NEW p \in Procs, Page(p), UNCHANGED uvars
  PROVE  Shape'
  <1> USE DEF Points, Ops, Holding, Updating
  <1>u. UNCHANGED <<for, seen>>
    BY DEF uvars
  <1>1. CASE Write(p)
    <2>1. PlaceOK' /\ AimOK' /\ UNCHANGED cuts
      BY <1>1, <1>u, BeginShape DEF Write
    <2>2. stamp' = [stamp EXCEPT ![p] = now] /\ UNCHANGED <<mine, port>>
      BY <1>1 DEF Write
    <2>3. LocalOK'
      BY <1>u, <2>2 DEF Shape, LocalOK, SystemOK
    <2>4. TempsOK'
      <3>1. inner' \in Stamps /\ UNCHANGED <<tgz, tar>>
        BY <1>1, <2>2 DEF Write, writetagfile, Shape, LocalOK, SystemOK
      <3> QED BY <3>1 DEF Shape, TempsOK
    <2> QED BY <1>1, <2>1, <2>3, <2>4, Same DEF Write, Shape, system, rest
  <1>2. CASE Floppy(p)
    <2>1. PlaceOK' /\ AimOK' /\ UNCHANGED cuts
      BY <1>2, <1>u, BeginShape DEF Floppy, Shape, LocalOK
    <2>2. mine' = [mine EXCEPT ![p] = Included(now)] /\ UNCHANGED <<stamp, port>>
      BY <1>2 DEF Floppy
    <2>3. LocalOK'
      BY <1>u, <2>2, IncludedType DEF Shape, LocalOK, SystemOK, Maybe
    <2> QED BY <1>2, <2>1, <2>3, Same DEF Floppy, Shape, system
  <1>3. ASSUME NEW a \in Uploads, Import(p, a) PROVE Shape'
    <2>1. PlaceOK' /\ AimOK' /\ UNCHANGED cuts
      BY <1>3, <1>u, BeginShape DEF Import, local
    <2>2. FilesOK'
      <3>1. upload' = [upload EXCEPT ![medium] = a] /\ UNCHANGED <<dat, tag, medium>>
        BY <1>3 DEF Import, rest
      <3> QED BY <3>1 DEF Shape, FilesOK
    <2> QED BY <1>3, <1>u, <2>1, <2>2, Same DEF Import, Shape, system, rest
  <1>4. ASSUME NEW s \in Stamps, NEW o \in {"restore", "restorehw"}, Restore(p, s, o) PROVE Shape'
    <2>1. PlaceOK' /\ AimOK' /\ UNCHANGED cuts
      BY <1>4, <1>u, BeginShape DEF Restore
    <2>2. stamp' = [stamp EXCEPT ![p] = s] /\ UNCHANGED <<mine, port>>
      BY <1>4 DEF Restore
    <2>3. LocalOK'
      BY <1>u, <2>2 DEF Shape, LocalOK
    <2> QED BY <1>4, <2>1, <2>3, Same DEF Restore, Shape, system, rest
  <1> QED BY <1>1, <1>2, <1>3, <1>4 DEF Page

\* The exit handler of ipcoprestore leaves the files as they should be.
LEMMA HandlerShape ==
  ASSUME Shape, exithandler, UNCHANGED <<dat, tag, inner, medium>>
  PROVE  FilesOK' /\ TempsOK'
  BY DEF exithandler, Shape, FilesOK, TempsOK, Maybe

LEMMA ProgramShape ==
  ASSUME Shape, NEW p \in Procs, Program(p), UNCHANGED uvars
  PROVE  Shape'
  <1> USE DEF Points, Ops, Holding, Updating
  <1>u. /\ UNCHANGED <<for, seen>> /\ for' = [q \in Procs |-> for'[q]]
        /\ seen' = [q \in Procs |-> seen'[q]]
    BY DEF uvars, Shape, LocalOK
  <1>e. ASSUME NEW answer, Exit(p, answer)
        PROVE  PlaceOK' /\ LocalOK' /\ AimOK' /\ UNCHANGED cuts
    BY <1>e, <1>u, ExitShape
  <1>1. CASE TarArchive(p)
    <2>1. PlaceOK' /\ AimOK' /\ UNCHANGED cuts
      BY <1>1, <1>u, GoShape DEF TarArchive, Shape, LocalOK
    <2>2. mine' = [mine EXCEPT ![p] = Included(stamp[p])] /\ UNCHANGED <<stamp, port>>
      BY <1>1 DEF TarArchive
    <2>3. LocalOK'
      BY <1>u, <2>2, IncludedType DEF Shape, LocalOK, Maybe
    <2> QED BY <1>1, <2>1, <2>3, Same DEF TarArchive, Shape, system, rest
  <1>2. CASE TarFails(p)
    <2>1. exitWrite(p, "error")
      BY <1>2 DEF TarFails
    <2>2. TempsOK'
      BY <2>1 DEF exitWrite, Shape, TempsOK
    <2> QED BY <1>e, <2>1, <2>2, Same DEF exitWrite, Shape, system, rest
  <1>3. CASE Encrypt(p)
    <2>1. PlaceOK' /\ AimOK' /\ UNCHANGED cuts
      BY <1>3, <1>u, GoShape DEF Encrypt, local
    <2>2. dat' = [dat EXCEPT ![medium][stamp[p]] = mine[p]] /\ UNCHANGED <<tag, upload, medium>>
      BY <1>3 DEF Encrypt, rest
    <2>3. FilesOK'
      BY <2>2 DEF Shape, FilesOK, LocalOK
    <2> QED BY <1>3, <1>u, <2>1, <2>3, Same DEF Encrypt, Shape, system, rest
  <1>4. CASE EncryptFails(p)
    <2>1. dat' = [dat EXCEPT ![medium][stamp[p]] = Torn] /\ UNCHANGED <<tag, upload, medium>>
      BY <1>4 DEF EncryptFails, rest
    <2>2. FilesOK'
      BY <2>1 DEF Shape, FilesOK, LocalOK, Maybe
    <2>3. TempsOK'
      BY <1>4 DEF EncryptFails, Shape, TempsOK
    <2> QED BY <1>4, <1>e, <2>2, <2>3, Same DEF EncryptFails, Shape, system, rest
  <1>5. CASE TagArchive(p)
    <2>1. tag' = [tag EXCEPT ![medium][stamp[p]] = TRUE] /\ UNCHANGED <<dat, upload, medium>>
      BY <1>5 DEF TagArchive, rest
    <2>2. FilesOK'
      BY <2>1 DEF Shape, FilesOK, LocalOK
    <2>3. TempsOK'
      BY <1>5 DEF TagArchive, Shape, TempsOK
    <2> QED BY <1>5, <1>e, <2>2, <2>3, Same DEF TagArchive, Shape, system, rest
  <1>6. CASE Decrypt(p)
    <2>1. PlaceOK' /\ AimOK' /\ UNCHANGED cuts
      BY <1>6, <1>u, GoShape DEF Decrypt, local
    <2>2. Chosen(p) \in Maybe
      BY Constants DEF Chosen, Shape, FilesOK, LocalOK, Maybe
    <2>3. TempsOK'
      BY <1>6, <2>2 DEF Decrypt, Shape, TempsOK
    <2> QED BY <1>6, <1>u, <2>1, <2>3, Same DEF Decrypt, Shape, system, rest
  <1>7. CASE DecryptFails(p) \/ TestFails(p)
    <2>1. exitRestore(p, "error")
      BY <1>7 DEF DecryptFails, TestFails
    <2> QED BY <1>e, <2>1, HandlerShape, Same DEF exitRestore, Shape, system, rest
  <1>8. CASE Test(p)
    <2>1. mine' = [mine EXCEPT ![p] = tgz] /\ UNCHANGED <<stamp, port>>
      BY <1>8 DEF Test
    <2>2. tgz \in Archives
      BY <1>8 DEF Test, Whole, Shape, TempsOK, Maybe
    <2>m. mine'[p] = tgz /\ \A q \in Procs \ {p} : mine'[q] = mine[q]
      BY <2>1 DEF Shape, LocalOK
    <2>p. PlaceOK' /\ AimOK' /\ UNCHANGED cuts
      <3>1. CASE op[p] = "import"
        BY <1>8, <1>u, <2>2, <2>m, <3>1, GoShape DEF Test
      <3>2. CASE op[p] # "import"
        BY <1>8, <1>u, <2>m, <3>2, GoShape DEF Test
      <3> QED BY <3>1, <3>2
    <2>3. LocalOK'
      BY <1>u, <2>1, <2>2 DEF Shape, LocalOK, Maybe
    <2> QED BY <1>8, <2>p, <2>3, Same DEF Test, Shape, system, rest
  <1>9. CASE TestRefuses(p)
    <2>1. /\ pc' = [pc EXCEPT ![p] = "idle"] /\ op' = [op EXCEPT ![p] = "none"]
          /\ stamp' = [stamp EXCEPT ![p] = 1] /\ UNCHANGED <<mine, port, cuts>>
      BY <1>9 DEF TestRefuses, counts
    <2>2. PlaceOK' /\ AimOK'
      BY <1>u, <2>1 DEF Shape, PlaceOK, AimOK
    <2>3. LocalOK'
      <3>1. 1 \in Stamps
        BY Constants DEF Stamps
      <3> QED BY <1>u, <2>1, <3>1 DEF Shape, LocalOK
    <2> QED BY <1>9, <2>1, <2>2, <2>3, Same DEF TestRefuses, Shape, system, rest
  <1>10. CASE DateImport(p)
    <2>1. PICK s : /\ s = IF mine[p].tag = None THEN mine[p].stamp ELSE mine[p].tag
                   /\ tag' = [tag EXCEPT ![medium][s] = TRUE] /\ stamp' = [stamp EXCEPT ![p] = s]
      BY <1>10 DEF DateImport
    <2>2. pc[p] = "date" /\ Go(p, "move") /\ UNCHANGED <<dat, upload, temps, system, mine, port, rest>>
      BY <1>10 DEF DateImport
    <2>3. op[p] = "import" /\ mine[p] \in Archives
      BY <2>2 DEF Shape, AimOK
    <2>4. s \in Stamps
      BY <2>1, <2>3 DEF Archives
    <2>5. PlaceOK' /\ AimOK' /\ UNCHANGED cuts
      BY <1>u, <2>2, <2>3, GoShape
    <2>6. LocalOK'
      BY <1>u, <2>1, <2>2, <2>4 DEF Shape, LocalOK
    <2>7. FilesOK'
      BY <2>1, <2>2, <2>4 DEF Shape, FilesOK, rest
    <2> QED BY <2>2, <2>5, <2>6, <2>7, Same DEF Shape, system, rest
  <1>11. CASE MoveImport(p)
    <2>1. exithandler /\ UNCHANGED <<tag, inner, medium>>
      BY <1>11 DEF MoveImport, rest
    <2>2. TempsOK' /\ tag' \in [Media -> [Stamps -> BOOLEAN]] /\ medium' \in Media
      BY <2>1 DEF exithandler, Shape, TempsOK, FilesOK, Maybe
    <2>3. upload' \in [Media -> Uploads \cup {None}]
      BY <2>1 DEF exithandler, Shape, FilesOK
    <2>4. upload[medium] = None \/ upload[medium] \in Maybe
      BY Constants DEF Shape, FilesOK, Maybe
    <2>5. dat' \in [Media -> [Stamps -> Maybe]]
      <3>1. CASE upload[medium] = None
        BY <1>11, <3>1 DEF MoveImport, Shape, FilesOK
      <3>2. CASE upload[medium] # None
        BY <1>11, <2>4, <3>2 DEF MoveImport, Shape, FilesOK, LocalOK
      <3> QED BY <3>1, <3>2
    <2>6. FilesOK'
      BY <2>2, <2>3, <2>5 DEF FilesOK
    <2> QED BY <1>11, <1>e, <2>2, <2>6, Same DEF MoveImport, Shape, system, rest
  <1>12. CASE Gunzip(p)
    <2>1. Go(p, "untar") /\ UNCHANGED <<files, inner, system, stamp, mine, rest>> /\ pc[p] = "gunzip"
      BY <1>12 DEF Gunzip
    <2>2. PlaceOK' /\ AimOK' /\ UNCHANGED cuts
      BY <1>u, <2>1, GoShape DEF Shape, AimOK
    <2>3. TempsOK'
      BY <1>12 DEF Gunzip, Shape, TempsOK, Maybe
    <2>4. port' = [q \in Procs |-> port'[q]]
      BY <1>12 DEF Gunzip, Shape, LocalOK
    <2>5. LocalOK'
      BY <1>u, <2>1, <2>4 DEF Shape, LocalOK
    <2> QED BY <2>1, <2>2, <2>3, <2>5, Same DEF Shape, system, rest
  <1>13. CASE Untar(p)
    <2>1. /\ Go(p, "ports") /\ pc[p] = "untar" /\ tar \in Archives
          /\ UNCHANGED <<files, tgz, tar, release, local, rest>>
      BY <1>13 DEF Untar, Whole, Shape, TempsOK, Maybe
    <2>2. PlaceOK' /\ AimOK' /\ UNCHANGED cuts
      BY <1>u, <2>1, GoShape DEF Shape, AimOK, local
    <2>3. TempsOK'
      BY <1>13, <2>1 DEF Untar, Shape, TempsOK, Archives
    <2>4. SystemOK'
      BY <1>13, <2>1, <2>2 DEF Untar, Shape, SystemOK, Archives, rest
    <2> QED BY <1>u, <2>1, <2>2, <2>3, <2>4, Same DEF Shape, rest
  <1>14. CASE UntarFails(p)
    <2>1. SystemOK'
      BY <1>14 DEF UntarFails, HalfUntarred, Exit, Shape, SystemOK, rest, counts
    <2> QED BY <1>14, <1>e, <2>1, HandlerShape DEF UntarFails, Shape, rest
  <1>15. CASE SetPorts(p)
    BY <1>15, <1>e, HandlerShape, Same DEF SetPorts, Shape, rest
  <1>16. CASE VerifyFloppy(p)
    BY <1>16, <1>e, Same DEF VerifyFloppy, Shape, system, rest
  <1> QED BY <1>1, <1>2, <1>3, <1>4, <1>5, <1>6, <1>7, <1>8, <1>9, <1>10, <1>11, <1>12, <1>13,
             <1>14, <1>15, <1>16 DEF Program

\* Updates leave the files and settings of the backups alone.
LEMMA InstallShape ==
  ASSUME Shape, NEW p \in Procs,
         Installpackage(p) \/ \E v \in Updatable : Upload(p, v) \/ Apply(p, v)
  PROVE  Shape'
  <1> USE DEF Points, Ops, Holding, Updating
  <1>i. /\ UNCHANGED idle => FilesOK' /\ TempsOK' /\ UNCHANGED <<config, hardware, now, mine>>
        /\ UNCHANGED <<idle, for, seen>> => LocalOK'
    BY Same DEF idle, rest, local
  <1>s. release' \in Releases /\ UNCHANGED <<config, hardware, now, cuts>> => SystemOK'
    BY DEF Shape, SystemOK
  <1>r. release \in Releases
    BY DEF Shape, SystemOK
  <1>1. ASSUME NEW v \in Updatable, Upload(p, v) \/ Apply(p, v) PROVE Shape'
    <2>1. for' = [for EXCEPT ![p] = v] /\ UNCHANGED <<seen, release, idle>>
      BY <1>1 DEF Upload, Apply
    <2>2. PICK o \in Ops : Begin(p, o, "gpg")
      BY <1>1 DEF Upload, Apply
    <2>3. LocalOK' /\ for'[p] = v /\ \A q \in Procs \ {p} : for'[q] = for[q]
      BY <2>1, <1>i DEF Shape, LocalOK, idle, local
    <2>4. PlaceOK' /\ AimOK' /\ UNCHANGED cuts
      BY <1>i, <2>1, <2>2, <2>3, BeginShape
    <2> QED BY <1>i, <1>s, <1>r, <2>1, <2>3, <2>4 DEF Shape
  <1>2. ASSUME NEW answer, Done(p, answer), UNCHANGED release PROVE Shape'
    <2>1. /\ Exit(p, answer) /\ for' = [for EXCEPT ![p] = None] /\ seen' = [seen EXCEPT ![p] = {}]
          /\ UNCHANGED <<files, temps, config, hardware, rest>>
      BY <1>2 DEF Done
    <2>2. /\ for' = [q \in Procs |-> for'[q]] /\ seen' = [q \in Procs |-> seen'[q]]
          /\ \A q \in Procs \ {p} : for'[q] = for[q]
      BY <2>1 DEF Shape, LocalOK
    <2>3. PlaceOK' /\ LocalOK' /\ AimOK' /\ UNCHANGED cuts
      BY <2>1, <2>2, ExitShape
    <2> QED BY <1>2, <1>s, <1>r, <2>1, <2>3, Same DEF Shape, rest
  <1>3. CASE GpgFails(p) \/ Merge(p) \/ SetupFails(p) \/ WriteList(p)
    BY <1>2, <1>3 DEF GpgFails, Merge, SetupFails, WriteList
  <1>4. CASE Gpg(p)
    <2>1. PICK next \in {"setup", "merge"} : Go(p, next)
      BY <1>4 DEF Gpg
    <2>2. pc[p] = "gpg" /\ UNCHANGED <<for, seen, release, idle>>
      BY <1>4 DEF Gpg
    <2>3. PlaceOK' /\ AimOK' /\ UNCHANGED cuts
      BY <1>i, <2>1, <2>2, GoShape
    <2> QED BY <1>i, <1>s, <1>r, <2>2, <2>3 DEF Shape
  <1>5. CASE Setup(p)
    <2>1. pc[p] = "setup" /\ release' = for[p] /\ Go(p, "read") /\ UNCHANGED <<for, seen, idle>>
      BY <1>5 DEF Setup
    <2>2. PlaceOK' /\ AimOK' /\ UNCHANGED cuts
      BY <1>i, <2>1, GoShape
    <2>3. release' \in Releases
      BY <2>1, Constants DEF Shape, AimOK
    <2> QED BY <1>i, <1>s, <2>1, <2>2, <2>3 DEF Shape
  <1>6. CASE ReadList(p)
    <2>1. /\ pc[p] = "read" /\ Go(p, "list") /\ UNCHANGED <<for, release, idle>>
          /\ seen' = [seen EXCEPT ![p] = installed]
      BY <1>6 DEF ReadList
    <2>2. PlaceOK' /\ AimOK' /\ UNCHANGED cuts
      BY <1>i, <2>1, GoShape
    <2>3. LocalOK'
      BY <2>1 DEF Shape, LocalOK, idle, local
    <2> QED BY <1>i, <1>s, <1>r, <2>1, <2>2, <2>3 DEF Shape
  <1> QED BY <1>1, <1>3, <1>4, <1>5, <1>6 DEF Installpackage

\* The other requests, edits, the clock and power failures.
LEMMA WorldShape ==
  ASSUME Shape,
         \/ (\E s \in Stamps : Remove(s)) /\ UNCHANGED uvars
         \/ (\E m \in Media : Mount(m)) /\ UNCHANGED uvars
         \/ \E v \in Updatable : DeletePackage(v)
         \/ (Edit \/ Tick) /\ UNCHANGED uvars
         \/ UPowerFail
  PROVE  Shape'
  <1>1. ASSUME NEW s \in Stamps, Remove(s), UNCHANGED uvars PROVE Shape'
    <2>1. /\ dat' = [dat EXCEPT ![medium][s] = None] /\ tag' = [tag EXCEPT ![medium][s] = FALSE]
          /\ UNCHANGED <<upload, temps, system, pc, op, local, rest, for, seen, cuts>>
      BY <1>1 DEF Remove, Request, uvars
    <2>2. FilesOK'
      BY <2>1 DEF Shape, FilesOK, Maybe, rest
    <2> QED BY <2>1, <2>2, Same DEF Shape, system, local, rest
  <1>2. ASSUME NEW m \in Media, Mount(m), UNCHANGED uvars PROVE Shape'
    <2>1. /\ medium' = m
          /\ UNCHANGED <<files, temps, system, pc, op, local, now, for, seen, cuts>>
      BY <1>2 DEF Mount, Request, uvars
    <2>2. FilesOK'
      BY <2>1 DEF Shape, FilesOK, files
    <2> QED BY <2>1, <2>2, Same DEF Shape, system, local
  <1>3. ASSUME NEW v \in Updatable, DeletePackage(v) PROVE Shape'
    BY <1>3, Same DEF DeletePackage, Request, idle, local, rest, Shape
  <1>4. CASE Edit /\ UNCHANGED uvars
    <2>1. /\ config' \in Configs
          /\ UNCHANGED <<files, temps, hardware, release, pc, op, local, cuts, rest, for, seen>>
      BY <1>4 DEF Edit, uvars
    <2>2. SystemOK'
      BY <2>1 DEF Shape, SystemOK, rest
    <2> QED BY <2>1, <2>2, Same DEF Shape, local, rest
  <1>5. CASE Tick /\ UNCHANGED uvars
    <2>1. /\ now < MaxTime /\ now' = now + 1
          /\ UNCHANGED <<files, temps, system, pc, op, local, cuts, medium, for, seen>>
      BY <1>5 DEF Tick, uvars, counts
    <2>2. SystemOK'
      BY <2>1, Constants DEF Shape, SystemOK, system, Stamps
    <2> QED BY <2>1, <2>2, Same DEF Shape, local
  <1>6. CASE UPowerFail
    <2>1. PowerFail /\ for' = [p \in Procs |-> None] /\ seen' = [p \in Procs |-> {}]
      BY <1>6 DEF UPowerFail
    <2>2. PlaceOK' /\ AimOK'
      BY <2>1 DEF PowerFail, PlaceOK, AimOK, Points, Ops, Updating
    <2>3. LocalOK'
      <3>1. 1 \in Stamps
        BY Constants DEF Stamps
      <3> QED BY <2>1, <3>1 DEF PowerFail, LocalOK, Maybe
    <2>4. TempsOK'
      BY <2>1 DEF PowerFail, Shape, TempsOK, Maybe
    <2>5. SystemOK'
      BY <2>1 DEF PowerFail, HalfUntarred, Shape, SystemOK
    <2>6. FilesOK'
      <3>1. medium' \in Media /\ UNCHANGED <<tag, upload>>
        BY <2>1, Constants DEF PowerFail
      <3>2. dat' = dat \/ \E p \in Procs : dat' = [dat EXCEPT ![medium][stamp[p]] = Torn]
        BY <2>1 DEF PowerFail
      <3>3. dat' \in [Media -> [Stamps -> Maybe]]
        <4>1. CASE dat' = dat
          BY <4>1 DEF Shape, FilesOK
        <4>2. ASSUME NEW p \in Procs, dat' = [dat EXCEPT ![medium][stamp[p]] = Torn]
              PROVE  dat' \in [Media -> [Stamps -> Maybe]]
          BY <4>2 DEF Shape, FilesOK, LocalOK, Maybe
        <4> QED BY <3>2, <4>1, <4>2
      <3> QED BY <3>1, <3>3 DEF Shape, FilesOK
    <2> QED BY <2>2, <2>3, <2>4, <2>5, <2>6 DEF Shape
  <1> QED BY <1>1, <1>2, <1>3, <1>4, <1>5, <1>6

LEMMA InitShape == UInit => Shape
  <1> SUFFICES ASSUME UInit PROVE Shape
    OBVIOUS
  <1>1. 1 \in Stamps
    BY Constants DEF Stamps
  <1>2. PlaceOK /\ AimOK
    BY DEF UInit, Init, PlaceOK, AimOK, Points, Ops, Updating
  <1>3. LocalOK
    BY <1>1 DEF UInit, Init, LocalOK, Maybe
  <1>4. FilesOK /\ TempsOK
    BY Constants DEF UInit, Init, FilesOK, TempsOK, Maybe
  <1>5. SystemOK
    BY Constants DEF UInit, Init, SystemOK
  <1> QED BY <1>2, <1>3, <1>4, <1>5 DEF Shape

LEMMA ShapeKept ==
  ASSUME Shape, [UNext]_allvars
  PROVE  Shape'
  <1>1. CASE UNCHANGED allvars
    BY <1>1, Same DEF allvars, vars, uvars, system, local, counts, rest, Shape
  <1> QED BY <1>1, PageShape, ProgramShape, InstallShape, WorldShape DEF UNext

-----------------------------------------------------------------------------
(* What kinds of steps there are.                                          *)

\* A program begins; others that run make the requests tangled.
Begins(p) ==
  /\ pc[p] = "idle" /\ \E first \in {"tar", "verify", "decrypt", "gpg"} : pc' = [pc EXCEPT ![p] = first]
  /\ ~tangled' => ~tangled /\ ~Running

\* A running program goes on, or ends.
Continues(p, next) ==
  pc[p] \notin {"idle", next} /\ pc' = [pc EXCEPT ![p] = next] /\ UNCHANGED <<tangled, cuts>>

\* A step that moves no program.
Outside == UNCHANGED pc /\ (~tangled' => ~tangled) /\ UNCHANGED cuts

LEMMA BeginKind ==
  ASSUME Shape, NEW p \in Procs,
         Page(p) \/ \E v \in Updatable : Upload(p, v) \/ Apply(p, v)
  PROVE  Begins(p) /\ UNCHANGED <<cuts, refused, tgz, tar>>
  <1>1. PICK first \in {"tar", "verify", "decrypt", "gpg"} : \E o : Begin(p, o, first)
    BY DEF Page, Write, Floppy, Import, Restore, Upload, Apply
  <1>2. Begins(p) /\ UNCHANGED <<cuts, refused>>
    BY <1>1 DEF Begin, Begins, Request
  <1>3. UNCHANGED <<tgz, tar>>
    BY DEF Page, Write, Floppy, Import, Restore, Upload, Apply, idle, temps
  <1> QED BY <1>2, <1>3

LEMMA ExitKind ==
  ASSUME Shape, NEW p \in Procs, NEW answer, Exit(p, answer), pc[p] # "idle"
  PROVE  Continues(p, "idle") /\ UNCHANGED refused
  BY DEF Exit, Continues, counts

LEMMA GoKind ==
  ASSUME Shape, NEW p \in Procs, NEW next, Go(p, next), pc[p] \notin {"idle", next}
  PROVE  Continues(p, next) /\ UNCHANGED refused
  BY DEF Go, Continues, counts, hist

LEMMA ProgramKind ==
  ASSUME Shape, NEW p \in Procs, Program(p) \/ Installpackage(p)
  PROVE  \E next \in Points : Continues(p, next)
  <1> USE DEF Points, Holding, Updating
  <1>1. CASE TarArchive(p) \/ Encrypt(p) \/ Decrypt(p) \/ Test(p) \/ DateImport(p) \/ Gunzip(p)
             \/ Untar(p) \/ Gpg(p) \/ Setup(p) \/ ReadList(p)
    <2>1. PICK next \in Points : Go(p, next) /\ pc[p] \notin {"idle", next}
      BY <1>1 DEF TarArchive, Encrypt, Decrypt, Test, DateImport, Gunzip, Untar, Gpg, Setup, ReadList
    <2> QED BY <2>1, GoKind
  <1>2. CASE \/ TarFails(p) \/ EncryptFails(p) \/ TagArchive(p) \/ DecryptFails(p) \/ TestFails(p)
             \/ MoveImport(p) \/ UntarFails(p) \/ SetPorts(p) \/ VerifyFloppy(p)
             \/ GpgFails(p) \/ Merge(p) \/ SetupFails(p) \/ WriteList(p)
    <2>1. pc[p] # "idle"
      BY <1>2 DEF TarFails, EncryptFails, TagArchive, DecryptFails, TestFails, MoveImport, UntarFails,
                  SetPorts, VerifyFloppy, GpgFails, Merge, SetupFails, WriteList
    <2>2. PICK answer : Exit(p, answer)
      BY <1>2 DEF TarFails, EncryptFails, TagArchive, DecryptFails, TestFails, MoveImport, UntarFails,
                  SetPorts, VerifyFloppy, GpgFails, Merge, SetupFails, WriteList, exitWrite,
                  exitRestore, Done
    <2> QED BY <2>1, <2>2, ExitKind
  <1>3. CASE TestRefuses(p)
    <2>1. Continues(p, "idle")
      BY <1>3 DEF TestRefuses, Continues, counts
    <2> QED BY <2>1
  <1> QED BY <1>1, <1>2, <1>3 DEF Program, Installpackage

LEMMA OutsideKind ==
  ASSUME \/ \E s \in Stamps : Remove(s)
         \/ \E m \in Media : Mount(m)
         \/ \E v \in Updatable : DeletePackage(v)
         \/ Edit \/ Tick
         \/ UNCHANGED allvars
  PROVE  Outside /\ UNCHANGED <<tgz, tar, refused>>
  <1>1. UNCHANGED <<pc, cuts, tgz, tar, refused>>
    BY DEF Remove, Mount, DeletePackage, Edit, Tick, Request, allvars, vars, temps, hist, counts, idle
  <1>2. tangled' = tangled \/ tangled' = (tangled \/ Running)
    BY DEF Remove, Mount, DeletePackage, Edit, Tick, allvars, vars, hist
  <1>3. ~tangled' => ~tangled
    BY <1>2
  <1> QED BY <1>1, <1>3 DEF Outside

\* The power failures are counted.
LEMMA CutsGrow ==
  ASSUME Shape, [UNext]_allvars, cuts' = 0
  PROVE  cuts = 0
  <1>1. cuts' = cuts \/ cuts' = cuts + 1
    BY BeginKind, ProgramKind, OutsideKind DEF UNext, Continues, Outside, UPowerFail, PowerFail
  <1> QED BY <1>1 DEF Shape, SystemOK

\* While requests come one at a time, so do programs.
Alone == \A p, q \in Procs : pc[p] # "idle" /\ pc[q] # "idle" => p = q

LEMMA AloneKept ==
  ASSUME Shape, ~tangled => Alone, [UNext]_allvars, ~tangled'
  PROVE  ~tangled /\ Alone'
  <1>1. ASSUME NEW p \in Procs, Begins(p) PROVE ~tangled /\ Alone'
    BY <1>1 DEF Begins, Alone, Running, Shape, PlaceOK
  <1>2. ASSUME NEW p \in Procs, NEW next \in Points, Continues(p, next) PROVE ~tangled /\ Alone'
    BY <1>2 DEF Continues, Alone, Shape, PlaceOK
  <1>3. CASE Outside
    BY <1>3 DEF Outside, Alone
  <1>4. CASE UPowerFail
    BY <1>4 DEF UPowerFail, PowerFail, Alone, hist
  <1>5. CASE \E p \in Procs : Page(p) \/ \E v \in Updatable : Upload(p, v) \/ Apply(p, v)
    BY <1>1, <1>5, BeginKind
  <1>6. CASE \E p \in Procs : Program(p) \/ Installpackage(p)
    BY <1>2, <1>6, ProgramKind
  <1> QED BY <1>3, <1>4, <1>5, <1>6, OutsideKind DEF UNext

\* A program that runs is the only one.
LEMMA OthersIdle ==
  ASSUME Alone, NEW p \in Procs, pc[p] # "idle"
  PROVE  \A q \in Procs \ {p} : pc[q] = "idle"
  BY DEF Alone

-----------------------------------------------------------------------------
(* Nothing decrypted is left.                                              *)

Empty == tgz = None /\ tar = None

\* Somebody will still run the exit handler, or there is nothing to remove.
Owed ==
  \/ Empty
  \/ \E p \in Procs : pc[p] \in Holding
  \/ refused
  \/ cuts # 0

\* A step that leaves the two files and the history alone and in which no
\* holder lets go keeps Owed (the requests, ipcopbkcfg, ipcopbackup,
\* installpackage, the page).
LEMMA OwedStays ==
  ASSUME Owed, UNCHANGED <<tgz, tar, refused, cuts>>,
         \A p \in Procs : pc[p] \in Holding => pc'[p] \in Holding
  PROVE  Owed'
  BY DEF Owed, Empty

\* The step of a program that remains between openssl and the exit handler
\* keeps Owed whatever it does to the files (Decrypt, Test, DateImport, Gunzip,
\* Untar).
LEMMA OwedByMover ==
  ASSUME Shape, NEW p \in Procs, NEW next \in Holding, Go(p, next)
  PROVE  Owed'
  <1>1. pc'[p] \in Holding
    BY DEF Go, Shape, PlaceOK
  <1> QED BY <1>1 DEF Owed

\* The programs that never decrypt leave the two files alone.
LEMMA OthersLeave ==
  ASSUME Shape, NEW p \in Procs,
         \/ TarArchive(p) \/ TarFails(p) \/ Encrypt(p) \/ EncryptFails(p) \/ TagArchive(p)
         \/ VerifyFloppy(p) \/ Installpackage(p)
  PROVE  pc[p] \notin Holding /\ UNCHANGED <<tgz, tar, refused>>
  <1>1. CASE TarArchive(p) \/ Encrypt(p)
    BY <1>1 DEF TarArchive, Encrypt, Go, temps, hist, Holding
  <1>2. CASE TarFails(p) \/ EncryptFails(p) \/ TagArchive(p) \/ VerifyFloppy(p)
    BY <1>2 DEF TarFails, exitWrite, EncryptFails, TagArchive, VerifyFloppy, Exit, temps, Holding
  <1>3. CASE Gpg(p) \/ Setup(p) \/ ReadList(p)
    BY <1>3 DEF Gpg, Setup, ReadList, Go, idle, temps, hist, Holding
  <1>4. CASE GpgFails(p) \/ Merge(p) \/ SetupFails(p) \/ WriteList(p)
    BY <1>4 DEF GpgFails, Merge, SetupFails, WriteList, Done, Exit, temps, Holding
  <1> QED BY <1>1, <1>2, <1>3, <1>4 DEF Installpackage

LEMMA OwedKept ==
  ASSUME Shape, Owed, [UNext]_allvars
  PROVE  Owed'
  <1>1. ASSUME NEW p \in Procs, Page(p) \/ \E v \in Updatable : Upload(p, v) \/ Apply(p, v)
        PROVE  Owed'
    <2>1. Begins(p) /\ UNCHANGED <<cuts, refused, tgz, tar>>
      BY <1>1, BeginKind
    <2>2. \A q \in Procs : pc[q] \in Holding => pc'[q] \in Holding
      BY <2>1 DEF Begins, Holding, Shape, PlaceOK
    <2> QED BY <2>1, <2>2, OwedStays
  <1>2. ASSUME NEW p \in Procs,
               \/ TarArchive(p) \/ TarFails(p) \/ Encrypt(p) \/ EncryptFails(p) \/ TagArchive(p)
               \/ VerifyFloppy(p) \/ Installpackage(p)
        PROVE  Owed'
    <2>1. PICK next \in Points : Continues(p, next)
      BY <1>2, ProgramKind DEF Program
    <2>2. pc[p] \notin Holding /\ UNCHANGED <<tgz, tar, refused>>
      BY <1>2, OthersLeave
    <2>3. \A q \in Procs : pc[q] \in Holding => pc'[q] \in Holding
      BY <2>1, <2>2 DEF Continues, Shape, PlaceOK
    <2> QED BY <2>1, <2>2, <2>3, OwedStays DEF Continues
  <1>3. ASSUME NEW p \in Procs, Decrypt(p) \/ Test(p) \/ DateImport(p) \/ Gunzip(p) \/ Untar(p)
        PROVE  Owed'
    <2>1. PICK next \in Holding : Go(p, next)
      BY <1>3 DEF Decrypt, Test, DateImport, Gunzip, Untar, Holding
    <2> QED BY <2>1, OwedByMover
  <1>4. ASSUME NEW p \in Procs,
               DecryptFails(p) \/ TestFails(p) \/ MoveImport(p) \/ UntarFails(p) \/ SetPorts(p)
        PROVE  Owed'
    BY <1>4 DEF DecryptFails, TestFails, MoveImport, UntarFails, SetPorts, exitRestore, exithandler,
                Owed, Empty
  <1>5. ASSUME NEW p \in Procs, TestRefuses(p) PROVE Owed'
    BY <1>5 DEF TestRefuses, Owed
  <1>6. CASE Outside /\ UNCHANGED <<tgz, tar, refused>>
    BY <1>6, OwedStays DEF Outside
  <1>7. CASE UPowerFail
    BY <1>7 DEF UPowerFail, PowerFail, Owed, Shape, SystemOK
  <1>8. ASSUME NEW p \in Procs, Program(p) \/ Installpackage(p) PROVE Owed'
    BY <1>2, <1>3, <1>4, <1>5, <1>8 DEF Program
  <1> QED BY <1>1, <1>6, <1>7, <1>8, OutsideKind DEF UNext

\* For any number of programs, archives and media: when no program runs,
\* neither decrypted file is left in /tmp, unless a release was refused or the
\* power failed (exithandler of ipcoprestore).
THEOREM NothingLeft == USpec => []Cleaned
  <1>1. UInit => Shape /\ Owed
    BY InitShape DEF UInit, Init, Owed, Empty
  <1>2. Shape /\ Owed /\ [UNext]_allvars => Shape' /\ Owed'
    BY ShapeKept, OwedKept
  <1>3. Shape /\ Owed => Cleaned
    BY DEF Owed, Empty, Cleaned, Running, Holding
  <1> QED BY <1>1, <1>2, <1>3, PTL DEF USpec

-----------------------------------------------------------------------------
(* What is listed is true.                                                 *)

\* The arithmetic of testbackupversion is the order of its comment: from 1.9.9
\* on, not newer than the running release but for the last number.
LEMMA VersionTest ==
  ASSUME NEW v \in Releases \cup {None}, release \in Releases
  PROVE  testbackupversion(v) <=> V!Accepted(v, release)
  <1>1. CASE v = None
    BY <1>1 DEF testbackupversion, getbackupversion, V!Accepted
  <1>2. CASE v # None
    <2> DEFINE a == v[1]  b == v[2]  c == v[3]  x == release[1]  y == release[2]  z == release[3]
    <2>1. /\ a \in Nat /\ b \in 0 .. 255 /\ c \in 0 .. 255
          /\ x \in Nat /\ y \in 0 .. 255 /\ z \in 0 .. 255 /\ release # None
      BY <1>2, BackupAssumption
    <2>2. /\ getbackupversion(v) = a * 65536 + b * 256 + c
          /\ getbackupversion(release) = x * 65536 + y * 256 + z
      BY <1>2, <2>1 DEF getbackupversion
    <2>3. /\ V!Earlier(v, <<1, 9, 9>>) <=> a < 1 \/ (a = 1 /\ b < 9) \/ (a = 1 /\ b = 9 /\ c < 9)
          /\ V!Earlier(release, v) <=> x < a \/ (x = a /\ y < b) \/ (x = a /\ y = b /\ z < c)
      BY DEF V!Earlier
    <2>4. V!Accepted(v, release) <=> /\ ~V!Earlier(v, <<1, 9, 9>>)
                                     /\ ~V!Earlier(release, v) \/ (a = x /\ b = y)
      BY <1>2 DEF V!Accepted
    <2> HIDE DEF a, b, c, x, y, z
    <2>5. a * 65536 + b * 256 + c >= 65536 + 9 * 256 + 9 <=>
            ~(a < 1 \/ (a = 1 /\ b < 9) \/ (a = 1 /\ b = 9 /\ c < 9))
      BY <2>1
    <2>6. x * 65536 + y * 256 + z >= a * 65536 + b * 256 + c <=>
            ~(x < a \/ (x = a /\ y < b) \/ (x = a /\ y = b /\ z < c))
      BY <2>1
    <2>7. /\ (a * 65536 + b * 256 + c) \div 256 = a * 256 + b
          /\ (x * 65536 + y * 256 + z) \div 256 = x * 256 + y
      BY <2>1
    <2>8. x * 256 + y = a * 256 + b <=> a = x /\ b = y
      BY <2>1
    <2>9. testbackupversion(v) <=>
            /\ a * 65536 + b * 256 + c >= 65536 + 9 * 256 + 9
            /\ \/ x * 65536 + y * 256 + z >= a * 65536 + b * 256 + c
               \/ x * 256 + y = a * 256 + b
      <3>1. a * 65536 + b * 256 + c >= 65536 + 9 * 256 + 9 => a * 65536 + b * 256 + c # 0
        BY <2>1
      <3> QED BY <2>2, <2>7, <3>1 DEF testbackupversion
    <2> QED BY <2>3, <2>4, <2>5, <2>6, <2>8, <2>9
  <1> QED BY <1>1, <1>2

\* The archives on the disks: those made here are tagged after they are
\* complete, those brought in are never torn, and each bears its date.
Stored ==
  \A m \in Media, s \in Stamps :
    /\ tag[m][s] /\ s >= Start => Whole(dat[m][s])
    /\ s < Start => dat[m][s] # Torn
    /\ Whole(dat[m][s]) =>
         dat[m][s].stamp = s /\ (dat[m][s] \notin Uploads => dat[m][s].tag = s)

\* An archive that may be imported or put back.
Accepts(a) == a \in Archives /\ V!Accepted(a.release, release)

\* What ipcopbkcfg relies on: no archive has its date yet, the tag in /var/ipcop
\* and the private tar are its own.
Free(p) == stamp[p] >= Start /\ dat[medium][stamp[p]] = None
Writing(p) ==
  /\ pc[p] = "tar" => inner = stamp[p] /\ Free(p)
  /\ pc[p] = "encrypt" =>
       /\ Free(p) /\ mine[p] \in Archives
       /\ mine[p].stamp = stamp[p] /\ mine[p].tag = stamp[p] /\ mine[p].release = release
  /\ pc[p] = "tag" => stamp[p] >= Start /\ Whole(dat[medium][stamp[p]])

\* What ipcoprestore relies on: the files with fixed names are what it was
\* asked to import or restore, and after the test they are accepted.
Restoring(p) ==
  /\ pc[p] = "test" => tgz = Chosen(p)
  /\ pc[p] \in {"date", "move"} => mine[p] = upload[medium] /\ Accepts(mine[p])
  /\ pc[p] = "move" => stamp[p] = mine[p].stamp
  /\ pc[p] = "gunzip" => tgz = dat[medium][stamp[p]] /\ Accepts(tgz)
  /\ pc[p] = "untar" => tar = dat[medium][stamp[p]] /\ Accepts(tar)

Orderly == Alone /\ Stored /\ \A p \in Procs : Writing(p) /\ Restoring(p)

\* Programs that do not run rely on nothing.
LEMMA OnlyOne ==
  ASSUME NEW p \in Procs, \A q \in Procs \ {p} : pc'[q] = "idle", Writing(p)', Restoring(p)'
  PROVE  \A q \in Procs : Writing(q)' /\ Restoring(q)'
  BY DEF Writing, Restoring

LEMMA NoneRuns ==
  ASSUME \A q \in Procs : pc'[q] = "idle"
  PROVE  \A q \in Procs : Writing(q)' /\ Restoring(q)'
  BY DEF Writing, Restoring

\* The archives stay as they are.
LEMMA StoredSame ==
  ASSUME Stored, UNCHANGED <<dat, tag>>
  PROVE  Stored'
  BY DEF Stored

\* A request that makes nothing tangled comes when nothing runs, and begins a
\* program of which only ipcopbkcfg relies on something.
LEMMA OrderlyBegin ==
  ASSUME Shape, Orderly, ~tangled', NEW p \in Procs,
         Page(p) \/ \E v \in Updatable : Upload(p, v) \/ Apply(p, v)
  PROVE  Stored' /\ \A q \in Procs : Writing(q)' /\ Restoring(q)'
  <1>1. Begins(p)
    BY BeginKind
  <1>2. \A q \in Procs \ {p} : pc'[q] = "idle"
    BY <1>1 DEF Begins, Running, Shape, PlaceOK
  <1>3. Stored'
    <2>1. UNCHANGED <<dat, tag>>
      BY DEF Page, Write, Floppy, Import, Restore, Upload, Apply, idle, files
    <2> QED BY <2>1, StoredSame DEF Orderly
  <1>4. pc'[p] \in {"tar", "verify", "decrypt", "gpg"}
    BY <1>1 DEF Begins, Shape, PlaceOK
  <1>5. CASE pc'[p] # "tar"
    <2>1. Writing(p)' /\ Restoring(p)'
      BY <1>4, <1>5 DEF Writing, Restoring
    <2> QED BY <1>2, <1>3, <2>1, OnlyOne
  <1>6. CASE pc'[p] = "tar"
    <2>1. Write(p)
      BY <1>6 DEF Page, Floppy, Import, Restore, Upload, Apply, Begin, Shape, PlaceOK
    <2>2. dat[medium][now] = None
      BY <2>1 DEF Write, Begin
    <2>3. stamp'[p] = now /\ inner' = now /\ UNCHANGED <<dat, medium>>
      BY <2>1 DEF Write, writetagfile, Shape, LocalOK, files, rest
    <2>4. Writing(p)' /\ Restoring(p)'
      BY <1>6, <2>2, <2>3 DEF Writing, Restoring, Free, Shape, SystemOK
    <2> QED BY <1>2, <1>3, <2>4, OnlyOne
  <1> QED BY <1>5, <1>6

\* A command of ipcopbkcfg, ipcoprestore or ipcopbackup.
LEMMA OrderlyProgram ==
  ASSUME Shape, Shape', Orderly, NEW p \in Procs, Program(p)
  PROVE  Stored' /\ \A q \in Procs : Writing(q)' /\ Restoring(q)'
  <1>1. PICK next \in Points : Continues(p, next)
    BY ProgramKind
  <1>2. pc[p] # "idle" /\ pc'[p] = next /\ \A q \in Procs \ {p} : pc'[q] = "idle"
    BY <1>1, OthersIdle DEF Continues, Orderly, Shape, PlaceOK
  <1> SUFFICES Stored' /\ Writing(p)' /\ Restoring(p)'
    BY <1>2, OnlyOne
  <1>3. Stored /\ Writing(p) /\ Restoring(p)
    BY DEF Orderly
  <1>4. medium \in Media /\ stamp[p] \in Stamps /\ stamp[p] \in Nat /\ Start \in Nat
    BY Constants DEF Shape, FilesOK, LocalOK
  <1>i. pc'[p] \in {"idle", "verify", "ports", "decrypt"} => Writing(p)' /\ Restoring(p)'
    BY DEF Writing, Restoring
  <1>5. CASE TarArchive(p)
    <2>1. /\ pc[p] = "tar" /\ pc'[p] = "encrypt" /\ mine'[p] = Included(stamp[p])
          /\ UNCHANGED <<dat, tag, inner, release, stamp, medium>>
      BY <1>5 DEF TarArchive, Go, Shape, PlaceOK, LocalOK, files, temps, system, rest
    <2>2. inner = stamp[p] /\ Free(p)
      BY <1>3, <2>1 DEF Writing
    <2>3. Included(stamp[p]) \in Archives
      BY <1>4, IncludedType
    <2>4. Writing(p)' /\ Restoring(p)'
      BY <2>1, <2>2, <2>3 DEF Writing, Restoring, Free, Included
    <2> QED BY <1>3, <2>1, <2>4, StoredSame
  <1>6. CASE Encrypt(p)
    <2>1. /\ pc[p] = "encrypt" /\ pc'[p] = "tag" /\ dat' = [dat EXCEPT ![medium][stamp[p]] = mine[p]]
          /\ UNCHANGED <<tag, stamp, medium>>
      BY <1>6 DEF Encrypt, Go, Shape, PlaceOK, local, rest
    <2>2. /\ Free(p) /\ mine[p] \in Archives /\ Whole(mine[p])
          /\ mine[p].stamp = stamp[p] /\ mine[p].tag = stamp[p]
      BY <1>3, <2>1, Constants DEF Writing, Whole
    <2>3. /\ dat'[medium][stamp[p]] = mine[p]
          /\ \A m \in Media, s \in Stamps : (m # medium \/ s # stamp[p]) => dat'[m][s] = dat[m][s]
      BY <1>4, <2>1 DEF Shape, FilesOK
    <2>4. Stored'
      BY <1>3, <1>4, <2>1, <2>2, <2>3 DEF Stored, Free, Whole
    <2>5. Writing(p)' /\ Restoring(p)'
      BY <2>1, <2>2, <2>3 DEF Writing, Restoring, Free
    <2> QED BY <2>4, <2>5
  <1>7. CASE EncryptFails(p)
    <2>1. /\ pc[p] = "encrypt" /\ pc'[p] = "idle" /\ dat' = [dat EXCEPT ![medium][stamp[p]] = Torn]
          /\ UNCHANGED tag
      BY <1>7 DEF EncryptFails, Exit, Shape, PlaceOK
    <2>2. Free(p)
      BY <1>3, <2>1 DEF Writing
    <2>3. /\ dat'[medium][stamp[p]] = Torn
          /\ \A m \in Media, s \in Stamps : (m # medium \/ s # stamp[p]) => dat'[m][s] = dat[m][s]
      BY <1>4, <2>1 DEF Shape, FilesOK
    <2>4. Stored'
      BY <1>3, <1>4, <2>1, <2>2, <2>3 DEF Stored, Free, Whole
    <2> QED BY <1>i, <2>1, <2>4
  <1>8. CASE TagArchive(p)
    <2>1. /\ pc[p] = "tag" /\ pc'[p] = "idle" /\ tag' = [tag EXCEPT ![medium][stamp[p]] = TRUE]
          /\ UNCHANGED dat
      BY <1>8 DEF TagArchive, Exit, Shape, PlaceOK
    <2>2. Whole(dat[medium][stamp[p]])
      BY <1>3, <2>1 DEF Writing
    <2>3. \A m \in Media, s \in Stamps : (m # medium \/ s # stamp[p]) => tag'[m][s] = tag[m][s]
      BY <1>4, <2>1 DEF Shape, FilesOK
    <2>4. Stored'
      BY <1>3, <1>4, <2>1, <2>2, <2>3 DEF Stored
    <2> QED BY <1>i, <2>1, <2>4
  <1>9. CASE TarFails(p) \/ DecryptFails(p) \/ TestFails(p) \/ TestRefuses(p) \/ UntarFails(p)
             \/ SetPorts(p) \/ VerifyFloppy(p)
    <2>1. pc'[p] = "idle" /\ UNCHANGED <<dat, tag>>
      BY <1>9 DEF TarFails, DecryptFails, TestFails, TestRefuses, UntarFails, SetPorts, VerifyFloppy,
                  exitWrite, exitRestore, Exit, files, Shape, PlaceOK
    <2> QED BY <1>3, <1>i, <2>1, StoredSame
  <1>10. CASE Decrypt(p)
    <2>1. /\ pc'[p] = "test" /\ tgz' = Chosen(p)
          /\ UNCHANGED <<dat, tag, upload, medium, stamp, op>>
      BY <1>10 DEF Decrypt, Go, Shape, PlaceOK, files, local, rest
    <2>2. Writing(p)' /\ Restoring(p)'
      BY <2>1 DEF Writing, Restoring, Chosen
    <2> QED BY <1>3, <2>1, <2>2, StoredSame
  <1>11. CASE Test(p)
    <2>1. /\ pc[p] = "test" /\ pc'[p] = (IF op[p] = "import" THEN "date" ELSE "gunzip")
          /\ mine'[p] = tgz /\ UNCHANGED <<dat, tag, upload, tgz, medium, stamp, op, release>>
      BY <1>11 DEF Test, Go, Shape, PlaceOK, LocalOK, files, temps, system, rest
    <2>2. tgz = Chosen(p)
      BY <1>3, <2>1 DEF Restoring
    <2>3. tgz \in Archives
      BY <1>11 DEF Test, Whole, Shape, TempsOK, Maybe
    <2>4. Accepts(tgz)
      <3>1. tgz.release \in Releases \cup {None}
        BY <2>3 DEF Archives
      <3>2. testbackupversion(tgz.release)
        BY <1>11 DEF Test
      <3> QED BY <2>3, <3>1, <3>2, VersionTest DEF Accepts, Shape, SystemOK
    <2>5. Writing(p)' /\ Restoring(p)'
      <3>1. CASE op[p] = "import"
        BY <2>1, <2>2, <2>4, <3>1 DEF Writing, Restoring, Chosen, Accepts
      <3>2. CASE op[p] # "import"
        BY <2>1, <2>2, <2>4, <3>2 DEF Writing, Restoring, Chosen, Accepts
      <3> QED BY <3>1, <3>2
    <2> QED BY <1>3, <2>1, <2>5, StoredSame
  <1>12. CASE DateImport(p)
    <2>1. PICK s : /\ s = IF mine[p].tag = None THEN mine[p].stamp ELSE mine[p].tag
                   /\ tag' = [tag EXCEPT ![medium][s] = TRUE] /\ stamp' = [stamp EXCEPT ![p] = s]
      BY <1>12 DEF DateImport
    <2>2. /\ pc[p] = "date" /\ pc'[p] = "move"
          /\ UNCHANGED <<dat, upload, mine, medium, release>>
      BY <1>12 DEF DateImport, Go, Shape, PlaceOK, rest, system
    <2>3. mine[p] = upload[medium] /\ Accepts(mine[p])
      BY <1>3, <2>2 DEF Restoring
    <2>4. mine[p] \in Archives /\ mine[p] \in Uploads /\ mine[p] # Torn
      BY <1>4, <2>3, Constants DEF Accepts, Shape, FilesOK
    <2>5. s = mine[p].stamp /\ s < Start /\ s \in Stamps
      <3>1. mine[p].stamp < Start /\ mine[p].tag \in {None, mine[p].stamp}
        BY <2>4, Constants
      <3>2. mine[p].stamp \in Stamps
        BY <2>4 DEF Archives
      <3> QED BY <2>1, <3>1, <3>2
    <2>6. stamp'[p] = s
      BY <2>1 DEF Shape, LocalOK
    <2>7. \A m \in Media, t \in Stamps : (m # medium \/ t # s) => tag'[m][t] = tag[m][t]
      BY <1>4, <2>1, <2>5 DEF Shape, FilesOK
    <2>8. Stored'
      BY <1>3, <1>4, <2>2, <2>5, <2>7, Constants DEF Stored
    <2>9. Writing(p)' /\ Restoring(p)'
      BY <2>2, <2>3, <2>5, <2>6 DEF Writing, Restoring, Accepts
    <2> QED BY <2>8, <2>9
  <1>13. CASE MoveImport(p)
    <2>1. pc[p] = "move" /\ pc'[p] = "idle" /\ UNCHANGED tag
      BY <1>13 DEF MoveImport, Exit, Shape, PlaceOK
    <2>2. mine[p] = upload[medium] /\ Accepts(mine[p]) /\ stamp[p] = mine[p].stamp
      BY <1>3, <2>1 DEF Restoring
    <2> DEFINE a == upload[medium]
    <2>3. a \in Archives /\ a \in Uploads /\ a # None /\ a # Torn
      BY <1>4, <2>2, Constants DEF Accepts, Shape, FilesOK
    <2>4. a.stamp = stamp[p] /\ stamp[p] < Start
      BY <2>2, <2>3, Constants
    <2>5. dat' = [dat EXCEPT ![medium][stamp[p]] = a]
      BY <1>13, <2>3 DEF MoveImport
    <2>6. /\ dat'[medium][stamp[p]] = a
          /\ \A m \in Media, s \in Stamps : (m # medium \/ s # stamp[p]) => dat'[m][s] = dat[m][s]
      BY <1>4, <2>5 DEF Shape, FilesOK
    <2> HIDE DEF a
    <2>7. Stored'
      BY <1>3, <1>4, <2>1, <2>3, <2>4, <2>6 DEF Stored, Whole
    <2> QED BY <1>i, <2>1, <2>7
  <1>14. CASE Gunzip(p)
    <2>1. /\ pc[p] = "gunzip" /\ pc'[p] = "untar" /\ tar' = (IF tgz = None THEN tar ELSE tgz)
          /\ UNCHANGED <<dat, tag, medium, stamp, release>>
      BY <1>14 DEF Gunzip, Go, Shape, PlaceOK, files, system, rest
    <2>2. tgz = dat[medium][stamp[p]] /\ Accepts(tgz)
      BY <1>3, <2>1 DEF Restoring
    <2>3. tar' = tgz
      BY <2>1, <2>2, Constants DEF Accepts
    <2>4. Writing(p)' /\ Restoring(p)'
      BY <2>1, <2>2, <2>3 DEF Writing, Restoring, Accepts
    <2> QED BY <1>3, <2>1, <2>4, StoredSame
  <1>15. CASE Untar(p)
    <2>1. pc'[p] = "ports" /\ UNCHANGED <<dat, tag>>
      BY <1>15 DEF Untar, Go, Shape, PlaceOK, files
    <2> QED BY <1>3, <1>i, <2>1, StoredSame
  <1> QED BY <1>5, <1>6, <1>7, <1>8, <1>9, <1>10, <1>11, <1>12, <1>13, <1>14, <1>15 DEF Program

\* installpackage runs alone: no program that relies on something is there.
LEMMA OrderlyInstall ==
  ASSUME Shape, Orderly, NEW p \in Procs, Installpackage(p)
  PROVE  Stored' /\ \A q \in Procs : Writing(q)' /\ Restoring(q)'
  <1>1. PICK next \in Points : Continues(p, next)
    BY ProgramKind
  <1>2. pc[p] # "idle" /\ \A q \in Procs \ {p} : pc'[q] = "idle"
    BY <1>1, OthersIdle DEF Continues, Orderly, Shape, PlaceOK
  <1>3. pc'[p] \in Updating \cup {"idle"}
    BY DEF Installpackage, Gpg, GpgFails, Merge, Setup, SetupFails, ReadList, WriteList, Done, Exit,
           Go, Shape, PlaceOK, Updating
  <1>4. Writing(p)' /\ Restoring(p)'
    BY <1>3 DEF Writing, Restoring, Updating
  <1>5. UNCHANGED <<dat, tag>>
    BY DEF Installpackage, Gpg, GpgFails, Merge, Setup, SetupFails, ReadList, WriteList, Done, idle,
           files
  <1> QED BY <1>2, <1>4, <1>5, OnlyOne, StoredSame DEF Orderly

\* Edits and the clock change nothing a program relies on; the other requests
\* come when nothing runs; after a power failure nothing runs.
LEMMA OrderlyWorld ==
  ASSUME Shape, Orderly, ~tangled',
         \/ \E s \in Stamps : Remove(s)
         \/ \E m \in Media : Mount(m)
         \/ \E v \in Updatable : DeletePackage(v)
         \/ Edit \/ Tick
         \/ UPowerFail
         \/ UNCHANGED allvars
  PROVE  Stored' /\ \A q \in Procs : Writing(q)' /\ Restoring(q)'
  <1>0. Stored /\ medium \in Media
    BY DEF Orderly, Shape, FilesOK
  <1>1. ASSUME NEW s \in Stamps, Remove(s)
        PROVE  Stored' /\ \A q \in Procs : Writing(q)' /\ Restoring(q)'
    <2>1. ~Running /\ UNCHANGED pc
      BY <1>1 DEF Remove
    <2>2. dat' = [dat EXCEPT ![medium][s] = None] /\ tag' = [tag EXCEPT ![medium][s] = FALSE]
      BY <1>1 DEF Remove
    <2>3. /\ dat'[medium][s] = None /\ ~tag'[medium][s]
          /\ \A m \in Media, t \in Stamps :
               (m # medium \/ t # s) => dat'[m][t] = dat[m][t] /\ tag'[m][t] = tag[m][t]
      BY <1>0, <2>2 DEF Shape, FilesOK
    <2>4. Stored'
      BY <1>0, <2>3, Constants DEF Stored, Whole
    <2> QED BY <2>1, <2>4, NoneRuns DEF Running
  <1>2. ASSUME NEW m \in Media, Mount(m)
        PROVE  Stored' /\ \A q \in Procs : Writing(q)' /\ Restoring(q)'
    <2>1. ~Running /\ UNCHANGED <<pc, dat, tag>>
      BY <1>2 DEF Mount, files
    <2> QED BY <1>0, <2>1, NoneRuns, StoredSame DEF Running
  <1>3. ASSUME NEW v \in Updatable, DeletePackage(v)
        PROVE  Stored' /\ \A q \in Procs : Writing(q)' /\ Restoring(q)'
    <2>1. ~Running /\ UNCHANGED <<pc, dat, tag>>
      BY <1>3 DEF DeletePackage, idle, files
    <2> QED BY <1>0, <2>1, NoneRuns, StoredSame DEF Running
  <1>4. CASE Edit \/ Tick \/ UNCHANGED allvars
    <2>1. UNCHANGED <<pc, op, local, files, temps, medium, release>>
      BY <1>4 DEF Edit, Tick, allvars, vars, system, rest
    <2>2. UNCHANGED <<dat, tag, upload, inner, tgz, tar, stamp, mine>>
      BY <2>1 DEF files, temps, local
    <2>3. \A q \in Procs : Writing(q)' /\ Restoring(q)'
      BY <2>1, <2>2 DEF Orderly, Writing, Restoring, Free, Accepts, Chosen
    <2> QED BY <1>0, <2>2, <2>3, StoredSame
  <1>5. CASE UPowerFail
    <2>1. \A q \in Procs : pc'[q] = "idle"
      BY <1>5 DEF UPowerFail, PowerFail
    <2>2. UNCHANGED tag
      BY <1>5 DEF UPowerFail, PowerFail
    <2>3. \/ dat' = dat
          \/ \E p \in Procs : pc[p] = "encrypt" /\ dat' = [dat EXCEPT ![medium][stamp[p]] = Torn]
      BY <1>5 DEF UPowerFail, PowerFail
    <2>4. CASE dat' = dat
      BY <1>0, <2>1, <2>2, <2>4, NoneRuns, StoredSame
    <2>5. ASSUME NEW p \in Procs, pc[p] = "encrypt", dat' = [dat EXCEPT ![medium][stamp[p]] = Torn]
          PROVE  Stored'
      <3>1. Free(p)
        BY <2>5 DEF Orderly, Writing
      <3>2. stamp[p] \in Stamps /\ stamp[p] \in Nat /\ Start \in Nat
        BY Constants DEF Shape, LocalOK
      <3>3. /\ dat'[medium][stamp[p]] = Torn
            /\ \A m \in Media, s \in Stamps : (m # medium \/ s # stamp[p]) => dat'[m][s] = dat[m][s]
        BY <1>0, <2>5, <3>2 DEF Shape, FilesOK
      <3> QED BY <1>0, <2>2, <3>1, <3>2, <3>3 DEF Stored, Free, Whole
    <2> QED BY <2>1, <2>3, <2>4, <2>5, NoneRuns
  <1> QED BY <1>1, <1>2, <1>3, <1>4, <1>5

LEMMA OrderlyKept ==
  ASSUME Shape, Shape', ~tangled => Orderly, [UNext]_allvars, ~tangled'
  PROVE  ~tangled /\ Orderly'
  <1>1. ~tangled /\ Alone'
    BY AloneKept DEF Orderly
  <1>2. Orderly
    BY <1>1
  <1>3. Stored' /\ \A q \in Procs : Writing(q)' /\ Restoring(q)'
    <2>1. ASSUME NEW p \in Procs, Page(p) \/ \E v \in Updatable : Upload(p, v) \/ Apply(p, v)
          PROVE  Stored' /\ \A q \in Procs : Writing(q)' /\ Restoring(q)'
      BY <1>2, <2>1, OrderlyBegin
    <2>2. ASSUME NEW p \in Procs, Program(p) \/ Installpackage(p)
          PROVE  Stored' /\ \A q \in Procs : Writing(q)' /\ Restoring(q)'
      BY <1>2, <2>2, OrderlyProgram, OrderlyInstall
    <2>3. CASE \/ \E s \in Stamps : Remove(s)
               \/ \E m \in Media : Mount(m)
               \/ \E v \in Updatable : DeletePackage(v)
               \/ Edit \/ Tick
               \/ UPowerFail
               \/ UNCHANGED allvars
      BY <1>2, <2>3, OrderlyWorld
    <2> QED BY <2>1, <2>2, <2>3 DEF UNext
  <1> QED BY <1>1, <1>3 DEF Orderly

LEMMA InitOrderly == UInit => Orderly
  <1> SUFFICES ASSUME UInit PROVE Orderly
    OBVIOUS
  <1>1. \A p \in Procs : pc[p] = "idle"
    BY DEF UInit, Init
  <1>2. Stored
    BY Constants DEF UInit, Init, Stored, Whole
  <1> QED BY <1>1, <1>2 DEF Orderly, Alone, Writing, Restoring

\* While requests come one at a time, for all archives, media and moments at
\* which a command fails or the power does: an archive in the list is
\* complete, and one made here carries its date outside and inside.
THEOREM ListIsTrue == USpec => []ListedIsTrue
  <1>1. UInit => Shape /\ (~tangled => Orderly)
    BY InitShape, InitOrderly
  <1>2. Shape /\ (~tangled => Orderly) /\ [UNext]_allvars => Shape' /\ (~tangled' => Orderly')
    BY ShapeKept, OrderlyKept
  <1>3. Shape /\ (~tangled => Orderly) => ListedIsTrue
    <2> SUFFICES ASSUME Shape, Orderly, NEW m \in Media, NEW s \in Stamps
                 PROVE  /\ tag[m][s] => dat[m][s] # Torn
                        /\ Whole(dat[m][s]) => dat[m][s].stamp = s
                        /\ Whole(dat[m][s]) /\ dat[m][s] \notin Uploads => dat[m][s].tag = s
      BY DEF ListedIsTrue
    <2>1. s >= Start \/ s < Start
      BY Constants
    <2> QED BY <2>1 DEF Orderly, Stored, Whole
  <1> QED BY <1>1, <1>2, <1>3, PTL DEF USpec

-----------------------------------------------------------------------------
(* The ports.                                                              *)

\* Unless a failed untar left others in main/settings: the ports in force are
\* those it holds, but for the moment between the untar and setreservedports.pl,
\* and the ports remembered for the comparison are the ones in force or unknown.
Ports ==
  /\ config # Torn => written = PortOf[config]
  /\ ~halfway =>
       /\ (\A p \in Procs : pc[p] # "ports") => written \in {None, listen}
       /\ \A p \in Procs :
            /\ pc[p] = "untar" => port[p] = written
            /\ pc[p] = "ports" => port[p] \in {None, listen}

\* Everything that is not a restore leaves settings and ports alone.
LEMMA PortsElse ==
  ASSUME Ports, UNCHANGED <<config, written, listen, halfway>>,
         \A q \in Procs : /\ pc'[q] \in {"untar", "ports"} => pc'[q] = pc[q] /\ port'[q] = port[q]
                          /\ pc[q] = "ports" => pc'[q] = "ports"
  PROVE  Ports'
  BY DEF Ports

LEMMA PortsKept ==
  ASSUME Shape, Alone, Ports, [UNext]_allvars, ~tangled', cuts' = 0
  PROVE  Ports'
  <1>0. config \in Configs \cup {Torn} /\ cuts \in Nat
    BY DEF Shape, SystemOK
  <1>1. ASSUME NEW p \in Procs, Page(p) \/ \E v \in Updatable : Upload(p, v) \/ Apply(p, v)
        PROVE  Ports'
    <2>1. Begins(p)
      BY <1>1, BeginKind
    <2>2. UNCHANGED <<config, written, listen, halfway, port>>
      BY <1>1 DEF Page, Write, Floppy, Import, Restore, Upload, Apply, idle, local, system
    <2> QED BY <2>1, <2>2, PortsElse DEF Begins, Shape, PlaceOK
  <1>2. ASSUME NEW p \in Procs, NEW next \in Points, Continues(p, next), UNCHANGED <<config, written, listen, halfway>>,
               next \notin {"untar", "ports"}, pc[p] # "ports",
               \A q \in Procs \ {p} : port'[q] = port[q]
        PROVE  Ports'
    BY <1>2, PortsElse DEF Continues, Shape, PlaceOK
  <1>3. ASSUME NEW p \in Procs, Exit(p, "ok") \/ Exit(p, "error"), pc[p] \notin {"idle", "ports"},
               UNCHANGED <<config, written, listen, halfway>>
        PROVE  Ports'
    <2>1. Continues(p, "idle")
      BY <1>3, ExitKind
    <2>2. \A q \in Procs \ {p} : port'[q] = port[q]
      BY <1>3 DEF Exit, Shape, LocalOK
    <2> QED BY <1>2, <1>3, <2>1, <2>2 DEF Points
  <1>4. ASSUME NEW p \in Procs, UNCHANGED <<config, written, listen, halfway, port>>,
               NEW next \in Points, Go(p, next), pc[p] \notin {"idle", next, "ports"},
               next \notin {"untar", "ports"}
        PROVE  Ports'
    BY <1>2, <1>4, GoKind
  <1>5. ASSUME NEW p \in Procs, Installpackage(p) PROVE Ports'
    <2>1. CASE Gpg(p) \/ Setup(p) \/ ReadList(p)
      <3>1. UNCHANGED <<config, written, listen, halfway, port>>
        BY <2>1 DEF Gpg, Setup, ReadList, idle, local
      <3>2. PICK next \in Updating : Go(p, next) /\ pc[p] \notin {"idle", next, "ports"}
        BY <2>1 DEF Gpg, Setup, ReadList, Updating
      <3> QED BY <1>4, <3>1, <3>2 DEF Points, Updating
    <2>2. CASE GpgFails(p) \/ Merge(p) \/ SetupFails(p) \/ WriteList(p)
      BY <1>3, <2>2 DEF GpgFails, Merge, SetupFails, WriteList, Done
    <2> QED BY <1>5, <2>1, <2>2 DEF Installpackage
  <1>6. ASSUME NEW p \in Procs,
               TarArchive(p) \/ Encrypt(p) \/ Decrypt(p) \/ Test(p) \/ DateImport(p)
        PROVE  Ports'
    <2>1. UNCHANGED <<config, written, listen, halfway, port>>
      BY <1>6 DEF TarArchive, Encrypt, Decrypt, Test, DateImport, system, local
    <2>2. PICK next \in {"encrypt", "tag", "test", "date", "gunzip", "move"} :
                 Go(p, next) /\ pc[p] \notin {"idle", next, "ports"}
      BY <1>6 DEF TarArchive, Encrypt, Decrypt, Test, DateImport
    <2> QED BY <1>4, <2>1, <2>2 DEF Points, Holding
  <1>7. ASSUME NEW p \in Procs,
               \/ TarFails(p) \/ EncryptFails(p) \/ TagArchive(p) \/ DecryptFails(p) \/ TestFails(p)
               \/ MoveImport(p) \/ VerifyFloppy(p)
        PROVE  Ports'
    <2>1. UNCHANGED <<config, written, listen, halfway>> /\ pc[p] \notin {"idle", "ports"}
      BY <1>7 DEF TarFails, EncryptFails, TagArchive, DecryptFails, TestFails, MoveImport, VerifyFloppy,
                  exitWrite, exitRestore, system
    <2>2. Exit(p, "ok") \/ Exit(p, "error")
      BY <1>7 DEF TarFails, EncryptFails, TagArchive, DecryptFails, TestFails, MoveImport, VerifyFloppy,
                  exitWrite, exitRestore
    <2> QED BY <1>3, <2>1, <2>2
  <1>8. ASSUME NEW p \in Procs, TestRefuses(p) PROVE Ports'
    <2>1. UNCHANGED <<config, written, listen, halfway, port>> /\ pc[p] = "test" /\ Continues(p, "idle")
      BY <1>8 DEF TestRefuses, system, Continues, counts
    <2> QED BY <1>2, <2>1 DEF Points
  <1>9. ASSUME NEW p \in Procs, Gunzip(p) PROVE Ports'
    <2>1. /\ pc[p] = "gunzip" /\ pc' = [pc EXCEPT ![p] = "untar"] /\ UNCHANGED <<config, written, listen, halfway>>
          /\ port' = [port EXCEPT ![p] = written]
      BY <1>9 DEF Gunzip, Go, system
    <2>2. \A q \in Procs \ {p} : pc'[q] = "idle"
      BY <2>1, OthersIdle DEF Shape, PlaceOK
    <2>3. pc'[p] = "untar" /\ port'[p] = written
      BY <2>1 DEF Shape, PlaceOK, LocalOK
    <2>4. \A q \in Procs : pc[q] # "ports"
      BY <2>1, OthersIdle
    <2> QED BY <2>1, <2>2, <2>3, <2>4 DEF Ports
  <1>10. ASSUME NEW p \in Procs, Untar(p) PROVE Ports'
    <2>1. /\ pc[p] = "untar" /\ pc' = [pc EXCEPT ![p] = "ports"] /\ UNCHANGED <<listen, halfway, port>>
          /\ config' = tar.config /\ written' \in PortsIn(tar)
      BY <1>10 DEF Untar, Go, local
    <2>2. pc'[p] = "ports" /\ \A q \in Procs \ {p} : pc'[q] = "idle" /\ pc[q] = "idle"
      BY <2>1, OthersIdle DEF Shape, PlaceOK
    <2>3. ~halfway => port[p] \in {None, listen}
      BY <2>1, <2>2 DEF Ports
    <2>4. config' # Torn => written' = PortOf[config']
      BY <2>1 DEF PortsIn
    <2> QED BY <2>1, <2>2, <2>3, <2>4 DEF Ports
  <1>11. ASSUME NEW p \in Procs, UntarFails(p) PROVE Ports'
    <2>1. /\ pc[p] = "untar" /\ pc' = [pc EXCEPT ![p] = "idle"] /\ UNCHANGED listen
          /\ config' = Torn \/ UNCHANGED <<config, written>>
          /\ halfway' = (halfway \/ written' \notin {written, None})
      BY <1>11 DEF UntarFails, HalfUntarred, Exit
    <2>2. \A q \in Procs : pc'[q] = "idle" /\ pc[q] # "ports"
      BY <2>1, OthersIdle DEF Shape, PlaceOK
    <2>3. ~halfway' => ~halfway /\ written' \in {None, listen}
      BY <2>1, <2>2 DEF Ports
    <2> QED BY <2>1, <2>2, <2>3 DEF Ports
  <1>12. ASSUME NEW p \in Procs, SetPorts(p) PROVE Ports'
    <2>1. /\ pc[p] = "ports" /\ UNCHANGED <<config, written>>
          /\ IF written \in {None, port[p]} THEN UNCHANGED <<listen, halfway>>
                                            ELSE listen' = written /\ halfway' = FALSE
          /\ pc' = [pc EXCEPT ![p] = "idle"]
      BY <1>12 DEF SetPorts, Exit
    <2>2. \A q \in Procs : pc'[q] = "idle"
      BY <2>1, OthersIdle DEF Shape, PlaceOK
    <2>3. ~halfway' => written' \in {None, listen'}
      BY <2>1 DEF Ports
    <2> QED BY <2>1, <2>2, <2>3 DEF Ports
  <1>13. CASE Edit
    <2>1. /\ config # Torn /\ config' \in Configs /\ PortOf[config'] = PortOf[config]
          /\ UNCHANGED <<written, listen, halfway, pc, port>>
      BY <1>13 DEF Edit, local
    <2> QED BY <2>1, Constants DEF Ports
  <1>14. CASE \/ \E s \in Stamps : Remove(s)
              \/ \E m \in Media : Mount(m)
              \/ \E v \in Updatable : DeletePackage(v)
              \/ Tick
              \/ UNCHANGED allvars
    <2>1. UNCHANGED <<config, written, listen, halfway, pc, port>>
      BY <1>14 DEF Remove, Mount, DeletePackage, Tick, allvars, vars, system, local, idle
    <2> QED BY <2>1, PortsElse
  <1>15. CASE UPowerFail
    BY <1>0, <1>15 DEF UPowerFail, PowerFail
  <1>16. ASSUME NEW p \in Procs, Program(p) \/ Installpackage(p) PROVE Ports'
    BY <1>5, <1>6, <1>7, <1>8, <1>9, <1>10, <1>11, <1>12, <1>16 DEF Program
  <1> QED BY <1>1, <1>13, <1>14, <1>15, <1>16 DEF UNext

\* While requests come one at a time and the power does not fail, httpd and sshd
\* listen where main/settings says whenever no program runs, for all
\* configurations and ports and whatever was restored over whatever, unless an
\* untar that failed left other ports there.
THEOREM PortsFollow == USpec => []PortFollows
  <1> DEFINE I == Shape /\ (~tangled => Orderly) /\ (~tangled /\ cuts = 0 => Ports)
  <1>1. UInit => I
    <2> SUFFICES ASSUME UInit PROVE Ports
      BY InitShape, InitOrderly
    <2> QED BY DEF UInit, Init, Ports
  <1>2. I /\ [UNext]_allvars => I'
    <2> SUFFICES ASSUME I, [UNext]_allvars PROVE I'
      OBVIOUS
    <2>1. Shape' /\ (~tangled' => ~tangled /\ Orderly')
      BY ShapeKept, OrderlyKept
    <2>2. ~tangled' /\ cuts' = 0 => Ports'
      BY <2>1, CutsGrow, PortsKept DEF Orderly
    <2> QED BY <2>1, <2>2
  <1>3. I => PortFollows
    BY Constants DEF PortFollows, Running, Ports, Shape, SystemOK, PlaceOK, Points
  <1> QED BY <1>1, <1>2, <1>3, PTL DEF USpec
=============================================================================
