------------------------------- MODULE Backup -------------------------------
(***************************************************************************)
(* Backup and restore of the configuration: the page backup.cgi and the    *)
(* setuid programs ipcopbkcfg, ipcoprestore and ipcopbackup.               *)
(*                                                                         *)
(* Each program is a chain of tar, gzip and openssl commands on files with *)
(* fixed names: the tag /var/ipcop/backup.dat.time, the decrypted archive  *)
(* /tmp/<host>.tar.gz, unpacked to /tmp/<host>.tar, and the upload         *)
(* <host>.dat on whatever is mounted on /home/httpd/html/backup.  A step   *)
(* of the model is one such command; commands of other requests, and a     *)
(* power failure, fall between any two of them.                            *)
(*                                                                         *)
(* An archive is what its files tell apart: the configuration, the         *)
(* hardware settings (exclude.hardware), the release in backup/version,    *)
(* the newest date of a file in it and the tag inside it.                  *)
(***************************************************************************)
EXTENDS Integers

CONSTANTS
  Procs,        \* programs that may run at once
  Media,        \* what can be mounted: the local disk and removable ones
  Local,        \* the local disk
  Configs,      \* configurations
  PortOf,       \* GUIPORT and SSHPORT of each configuration
  DefaultPorts, \* 8443 and 8022, for settings that do not name them
  Hardware,     \* hardware settings
  FirstConfig, FirstHardware,
  Uploads,      \* archives an administrator may upload
  Start,        \* the second the model begins in
  FirstRelease, \* the release that was installed
  Releases,     \* releases there are, as <<major, minor, revision>>
  None, Torn,
  MaxTime,      \* bound: seconds
  MaxRequests,  \* bound: requests of the page
  MaxEdits,     \* bound: changes of the configuration
  MaxCuts       \* bound: power failures

Stamps   == 1 .. MaxTime
Archives == [config : Configs \cup {Torn}, hardware : Hardware, release : Releases \cup {None},
             stamp : Stamps, tag : Stamps \cup {None}]

\* Minor and revision of a release fit the eight bits testbackupversion gives
\* them.  What is uploaded was made before, here or on another machine; its tag
\* is its date, as for every archive made here, or it is older than tags are.
ASSUME BackupAssumption ==
  /\ Local \in Media /\ FirstConfig \in Configs /\ FirstHardware \in Hardware
  /\ FirstRelease \in Releases
  /\ \A v \in Releases : v # None /\ v[1] \in Nat /\ v[2] \in 0 .. 255 /\ v[3] \in 0 .. 255
  /\ None \notin Archives /\ Torn \notin Archives \cup Configs /\ None # Torn
  /\ Uploads \subseteq Archives \cup {Torn}
  /\ \A a \in Uploads \ {Torn} : a.stamp < Start /\ a.tag \in {None, a.stamp}
  /\ DOMAIN PortOf = Configs /\ \A c \in Configs : PortOf[c] # None
  /\ DefaultPorts # None
  /\ {MaxTime, MaxRequests, MaxEdits, MaxCuts} \subseteq Nat
  /\ Start \in Stamps

VARIABLES
  medium,    \* what is mounted on the backup directory
  dat, tag,  \* <host>-<stamp>.dat and its .time, per medium
  upload,    \* <host>.dat, per medium
  inner,     \* /var/ipcop/backup.dat.time
  tgz, tar,  \* /tmp/<host>.tar.gz and /tmp/<host>.tar
  floppy,
  config, hardware, release,
  written,   \* the ports main/settings holds; None: it cannot be read
  listen,    \* the ports httpd and sshd were last set to
  halfway,   \* history: an untar that failed put other ports in main/settings,
             \* and none were set since
  now,       \* the clock, in seconds
  pc, op, stamp, \* per program: where it is, what it does, for which date
  mine,      \* its private copy: temporary tar, or the directory of the test
  port,      \* the ports it read before it unpacked
  status,    \* how the last program ended: "ok", "error", or by a "signal"
  requests, edits, cuts,
  tangled,   \* history: a request began while a program ran, or in a second
             \* that already has its archive
  refused    \* history: an archive was refused for its release

files  == <<dat, tag, upload>>
temps  == <<inner, tgz, tar>>
system == <<config, hardware, release, written, listen, halfway>>
local  == <<stamp, mine, port>>
counts == <<requests, edits, cuts>>
hist   == <<tangled, refused>>
rest   == <<medium, floppy, now>>
vars   == <<files, temps, system, pc, op, local, status, counts, hist, rest>>

Running  == \E p \in Procs : pc[p] # "idle"
Whole(a) == a # None /\ a # Torn

-----------------------------------------------------------------------------
(* Releases *)

\* (v_major << 16) + (v_minor << 8) + v_revision; no version file: 0.
getbackupversion(v) == IF v = None THEN 0 ELSE v[1] * 65536 + v[2] * 256 + v[3]

testNoMinor(v) == getbackupversion(v) >= 65536 + 9 * 256 + 9   \* mutant: no upper bound

testbackupversion(v) ==
  LET backup == getbackupversion(v)
      ipcop  == getbackupversion(release)
  IN  /\ backup # 0
      /\ backup >= 65536 + 9 * 256 + 9
      /\ ipcop >= backup \/ ipcop \div 256 = backup \div 256


-----------------------------------------------------------------------------
(* Requests and the end of a program *)

Init ==
  /\ medium = Local /\ floppy = None /\ now = Start
  /\ dat = [m \in Media |-> [s \in Stamps |-> None]]
  /\ tag = [m \in Media |-> [s \in Stamps |-> FALSE]]
  /\ upload = [m \in Media |-> None]
  /\ inner = None /\ tgz = None /\ tar = None
  /\ config = FirstConfig /\ hardware = FirstHardware
  /\ release = FirstRelease
  /\ written = PortOf[config] /\ listen = PortOf[config] /\ halfway = FALSE
  /\ pc = [p \in Procs |-> "idle"] /\ op = [p \in Procs |-> "none"]
  /\ stamp = [p \in Procs |-> 1] /\ mine = [p \in Procs |-> None]
  /\ port = [p \in Procs |-> None] /\ status = "none"
  /\ requests = 0 /\ edits = 0 /\ cuts = 0
  /\ tangled = FALSE /\ refused = FALSE

\* A request of the page; it waits for the program it runs.
Request == requests < MaxRequests /\ requests' = requests + 1 /\ UNCHANGED <<edits, cuts>>

Begin(p, o, first) ==
  /\ Request /\ pc[p] = "idle"
  /\ pc' = [pc EXCEPT ![p] = first] /\ op' = [op EXCEPT ![p] = o]
  /\ tangled' = (tangled \/ Running \/ (o = "write" /\ dat[medium][now] # None))
  /\ status' = "none"
  /\ UNCHANGED refused

Go(p, next) ==
  pc' = [pc EXCEPT ![p] = next] /\ UNCHANGED <<op, status, counts, hist>>

\* exit, with 0 or with one of the BACKUP_ERR codes.
Exit(p, answer) ==
  /\ pc' = [pc EXCEPT ![p] = "idle"] /\ op' = [op EXCEPT ![p] = "none"]
  /\ status' = answer
  /\ mine' = [mine EXCEPT ![p] = None] /\ port' = [port EXCEPT ![p] = None]
  /\ stamp' = [stamp EXCEPT ![p] = 1]
  /\ UNCHANGED <<counts, tangled, refused>>

-----------------------------------------------------------------------------
(* ipcopbkcfg --write *)

\* Key and comment are checked, the lists combined, the tag written that goes
\* into the archive.
writetagfile(p) == inner' = stamp'[p]

\* mutant: the list's tag is written before the archive
WriteTagFirst(p) ==
  /\ Begin(p, "write", "tar")
  /\ stamp' = [stamp EXCEPT ![p] = now]
  /\ writetagfile(p)
  /\ tag' = [tag EXCEPT ![medium][now] = TRUE]
  /\ UNCHANGED <<dat, upload, tgz, tar, system, mine, port, rest>>

Write(p) ==
  /\ Begin(p, "write", "tar")
  /\ stamp' = [stamp EXCEPT ![p] = now]
  /\ writetagfile(p)
  /\ UNCHANGED <<files, tgz, tar, system, mine, port, rest>>

\* include.* without exclude.*: all of /var/ipcop but the key and what is
\* part of the release.  The tag is taken along if it is there.
Included(date) ==
  [config |-> config, hardware |-> hardware, release |-> release,
   stamp |-> date, tag |-> inner]

\* The exit handler of ipcopbkcfg removes the tag, whoever wrote it.
exitWrite(p, answer) ==
  inner' = None /\ Exit(p, answer) /\ UNCHANGED <<files, tgz, tar, system, rest>>

\* The release is noted in backup/version, tar writes and verifies.  It fails
\* when the disk is full or when a file changed or went away meanwhile.
TarArchive(p) ==
  /\ pc[p] = "tar"
  /\ mine' = [mine EXCEPT ![p] = Included(stamp[p])]
  /\ Go(p, "encrypt")
  /\ UNCHANGED <<files, temps, system, stamp, port, rest>>

TarFails(p) == pc[p] = "tar" /\ exitWrite(p, "error")

\* gzip and openssl; -out creates the .dat before there is anything in it.
Encrypt(p) ==
  /\ pc[p] = "encrypt"
  /\ dat' = [dat EXCEPT ![medium][stamp[p]] = mine[p]]
  /\ Go(p, "tag")
  /\ UNCHANGED <<tag, upload, temps, system, local, rest>>

EncryptFails(p) ==
  /\ pc[p] = "encrypt"
  /\ dat' = [dat EXCEPT ![medium][stamp[p]] = Torn]
  /\ inner' = None /\ Exit(p, "error")
  /\ UNCHANGED <<tag, upload, tgz, tar, system, rest>>

\* The .time file of the list, then chown of both files.
TagArchive(p) ==
  /\ pc[p] = "tag"
  /\ tag' = [tag EXCEPT ![medium][stamp[p]] = TRUE]
  /\ inner' = None
  /\ Exit(p, IF dat[medium][stamp[p]] = None THEN "error" ELSE "ok")
  /\ UNCHANGED <<dat, upload, tgz, tar, system, rest>>

-----------------------------------------------------------------------------
(* ipcoprestore *)

\* Import: the page copies the upload to <host>.dat and runs --import.
Import(p, a) ==
  /\ Begin(p, "import", "decrypt")
  /\ upload' = [upload EXCEPT ![medium] = a]
  /\ UNCHANGED <<dat, tag, temps, system, local, rest>>

\* Restore: name and path are checked and the archive has to exist.
Restore(p, s, o) ==
  /\ dat[medium][s] # None
  /\ Begin(p, o, "decrypt")
  /\ stamp' = [stamp EXCEPT ![p] = s]
  /\ UNCHANGED <<files, temps, system, mine, port, rest>>

exithandlerNoTar == tgz' = None /\ UNCHANGED tar /\ upload' = [upload EXCEPT ![medium] = None] \* mutant

\* The exit handler of ipcoprestore removes the fixed names, whoever made
\* them.
exithandler == tgz' = None /\ tar' = None /\ upload' = [upload EXCEPT ![medium] = None]

exitRestore(p, answer) ==
  exithandler /\ Exit(p, answer) /\ UNCHANGED <<dat, tag, inner, system, rest>>

Chosen(p) == IF op[p] = "import" THEN upload[medium] ELSE dat[medium][stamp[p]]

Decrypt(p) ==
  /\ pc[p] = "decrypt" /\ Chosen(p) # None
  /\ tgz' = Chosen(p)
  /\ Go(p, "test")
  /\ UNCHANGED <<files, inner, tar, system, local, rest>>

\* A wrong key, a damaged archive, or one that is not there any more.
DecryptFails(p) == pc[p] = "decrypt" /\ Chosen(p) \in {None, Torn} /\ exitRestore(p, "error")

\* Test untar into a private directory, then the test of the release.
Test(p) ==
  /\ pc[p] = "test" /\ Whole(tgz) /\ testbackupversion(tgz.release)
  /\ mine' = [mine EXCEPT ![p] = tgz]
  /\ Go(p, IF op[p] = "import" THEN "date" ELSE "gunzip")
  /\ UNCHANGED <<files, temps, system, stamp, port, rest>>

TestFails(p) == pc[p] = "test" /\ ~Whole(tgz) /\ exitRestore(p, "error")

\* testbackupversion logs to flog, which only the installer and setup open:
\* in ipcoprestore it is NULL and fprintf ends the program with SIGSEGV.  No
\* exit handler runs.
TestRefuses(p) ==
  /\ pc[p] = "test" /\ Whole(tgz) /\ ~testbackupversion(tgz.release)
  /\ pc' = [pc EXCEPT ![p] = "idle"] /\ op' = [op EXCEPT ![p] = "none"]
  /\ status' = "signal" /\ refused' = TRUE
  /\ stamp' = [stamp EXCEPT ![p] = 1]
  /\ UNCHANGED <<files, temps, system, mine, port, counts, tangled, rest>>

\* --import: the tag inside names the archive, else the newest date in it.
\* The tag is moved to the list first.
DateImport(p) ==
  LET s == IF mine[p].tag = None THEN mine[p].stamp ELSE mine[p].tag
  IN  /\ pc[p] = "date"
      /\ tag' = [tag EXCEPT ![medium][s] = TRUE]
      /\ stamp' = [stamp EXCEPT ![p] = s]
      /\ Go(p, "move")
      /\ UNCHANGED <<dat, upload, temps, system, mine, port, rest>>

\* mv <host>.dat <host>-<stamp>.dat, then exit.
MoveImport(p) ==
  /\ pc[p] = "move"
  /\ dat' = IF upload[medium] = None THEN dat
            ELSE [dat EXCEPT ![medium][stamp[p]] = upload[medium]]
  /\ exithandler
  /\ Exit(p, IF upload[medium] = None THEN "error" ELSE "ok")
  /\ UNCHANGED <<tag, inner, system, rest>>

\* --restore: gunzip -f and tar --delete, their exit status is ignored; then
\* the ports main/settings holds are remembered.
Gunzip(p) ==
  /\ pc[p] = "gunzip"
  /\ tar' = IF tgz = None THEN tar ELSE tgz
  /\ tgz' = None
  /\ port' = [port EXCEPT ![p] = written]
  /\ Go(p, "untar")
  /\ UNCHANGED <<files, inner, system, stamp, mine, rest>>

\* The ports an archive brings.  One made of a torn configuration may hold any
\* settings.
PortsIn(a) ==
  IF a.config = Torn THEN {PortOf[c] : c \in Configs} \cup {None, DefaultPorts}
                     ELSE {PortOf[a.config]}

\* The real untar, over the running configuration; the hardware settings were
\* deleted from the archive unless --hardware was given.  The tag inside the
\* archive is unpacked like everything else.
Untar(p) ==
  /\ pc[p] = "untar" /\ Whole(tar)
  /\ config' = tar.config /\ written' \in PortsIn(tar)
  /\ hardware' = IF op[p] = "restorehw" THEN tar.hardware ELSE hardware
  /\ inner' = IF tar.tag = None THEN inner ELSE tar.tag
  /\ Go(p, "ports")
  /\ UNCHANGED <<files, tgz, tar, release, listen, halfway, local, rest>>

\* tar stops in the middle: main/settings is the old one, the new one, one that
\* ends before the ports, or gone.
HalfUntarred ==
  /\ Whole(tar)
  /\ config' = Torn /\ written' \in {written, DefaultPorts, None} \cup PortsIn(tar)

\* No archive to unpack, or the disk is full in the middle of it.  The ports
\* are not looked at any more.
UntarFails(p) ==
  /\ pc[p] = "untar"
  /\ HalfUntarred \/ UNCHANGED <<config, written>>
  /\ halfway' = (halfway \/ written' \notin {written, None})
  /\ exithandler /\ Exit(p, "error")
  /\ UNCHANGED <<dat, tag, inner, hardware, release, listen, rest>>

SetPortsLate(p) ==             \* mutant: the old ports are read after the untar
  /\ pc[p] = "ports"
  /\ exithandler /\ Exit(p, "ok")
  /\ UNCHANGED <<dat, tag, inner, system, rest>>

\* Ports that differ from those remembered are set with setreservedports.pl;
\* then upgrade.sh, which may fail.
SetPorts(p) ==
  /\ pc[p] = "ports"
  /\ IF written \in {None, port[p]}
     THEN UNCHANGED <<listen, halfway>>
     ELSE listen' = written /\ halfway' = FALSE
  /\ exithandler /\ \E answer \in {"ok", "error"} : Exit(p, answer)
  /\ UNCHANGED <<dat, tag, inner, config, hardware, release, written, rest>>

-----------------------------------------------------------------------------
(* ipcopbackup, the other requests and the world *)

\* ipcopbackup: a trial archive decides whether it fits; then the floppy is
\* cleared, written (exit status ignored) and read back.
Floppy(p) ==
  /\ Begin(p, "floppy", "verify")
  /\ mine' = [mine EXCEPT ![p] = Included(now)]
  /\ floppy' \in {Torn, mine'[p]}
  /\ UNCHANGED <<files, temps, system, stamp, port, medium, now>>

VerifyFloppy(p) ==
  /\ pc[p] = "verify"
  /\ Exit(p, IF floppy = Torn THEN "error" ELSE "ok")
  /\ UNCHANGED <<files, temps, system, rest>>

\* backup.cgi, remove: unlink .dat, unlink .time.
Remove(s) ==
  /\ Request /\ dat[medium][s] # None
  /\ dat' = [dat EXCEPT ![medium][s] = None]
  /\ tag' = [tag EXCEPT ![medium][s] = FALSE]
  /\ tangled' = (tangled \/ Running)
  /\ UNCHANGED <<upload, temps, system, pc, op, local, status, refused, rest>>

\* backup.cgi, mount: ipcopbkcfg --umount, then --mount unless the local disk
\* was chosen.
Mount(m) ==
  /\ Request /\ m # medium
  /\ medium' = m
  /\ tangled' = (tangled \/ Running)
  /\ UNCHANGED <<files, temps, system, pc, op, local, status, refused, floppy, now>>

\* Other pages change settings, never the ports.
Edit ==
  /\ edits < MaxEdits /\ edits' = edits + 1
  /\ config # Torn
  /\ \E c \in Configs \ {config} : PortOf[c] = PortOf[config] /\ config' = c
  /\ UNCHANGED <<files, temps, hardware, release, written, listen, halfway, pc, op, local, status,
                 requests, cuts, hist, rest>>

Tick == now < MaxTime /\ now' = now + 1 /\ UNCHANGED
          <<files, temps, system, pc, op, local, status, counts, hist, medium, floppy>>

\* Power failure: /tmp is on the disk or in memory, upload and tag stay, what
\* openssl or tar was writing may be torn.  The boot mounts nothing on the
\* backup directory.
PowerFail ==
  /\ cuts < MaxCuts /\ cuts' = cuts + 1 /\ Running
  /\ pc' = [p \in Procs |-> "idle"] /\ op' = [p \in Procs |-> "none"]
  /\ mine' = [p \in Procs |-> None] /\ port' = [p \in Procs |-> None]
  /\ stamp' = [p \in Procs |-> 1]
  /\ UNCHANGED <<tgz, tar>> \/ (tgz' = None /\ tar' = None)
  /\ dat' \in {dat} \cup {[dat EXCEPT ![medium][stamp[p]] = Torn] : p \in {q \in Procs : pc[q] = "encrypt"}}
  /\ \/ UNCHANGED <<config, written>>
     \/ (\E p \in Procs : pc[p] = "untar") /\ HalfUntarred
  /\ medium' = Local
  /\ UNCHANGED <<tag, upload, inner, hardware, release, listen, halfway, status, requests, edits,
                 hist, floppy, now>>

Program(p) ==
  \/ TarArchive(p) \/ TarFails(p) \/ Encrypt(p) \/ EncryptFails(p) \/ TagArchive(p)
  \/ Decrypt(p) \/ DecryptFails(p) \/ Test(p) \/ TestFails(p) \/ TestRefuses(p)
  \/ DateImport(p) \/ MoveImport(p)
  \/ Gunzip(p) \/ Untar(p) \/ UntarFails(p) \/ SetPorts(p)
  \/ VerifyFloppy(p)

Page(p) ==
  \/ Write(p) \/ Floppy(p)
  \/ \E a \in Uploads : Import(p, a)
  \/ \E s \in Stamps, o \in {"restore", "restorehw"} : Restore(p, s, o)

Next ==
  \/ \E p \in Procs : Page(p) \/ Program(p)
  \/ \E s \in Stamps : Remove(s)
  \/ \E m \in Media : Mount(m)
  \/ Edit \/ Tick \/ PowerFail

Spec == Init /\ [][Next]_vars

-----------------------------------------------------------------------------
(* Properties *)

\* While requests come one at a time, whatever fails and whenever the power
\* does: an archive that has its .time file is complete, and an archive made
\* here carries the date it is listed under, outside and inside.  (writetagfile,
\* exithandler of ipcopbkcfg; DateImport for the ones brought in.)
ListedIsTrue ==
  ~tangled => \A m \in Media, s \in Stamps :
    /\ tag[m][s] => dat[m][s] # Torn
    /\ Whole(dat[m][s]) => dat[m][s].stamp = s
    /\ Whole(dat[m][s]) /\ dat[m][s] \notin Uploads => dat[m][s].tag = s

\* When no program runs, no decrypted configuration is left in /tmp, in every
\* interleaving of any number of programs that remove one another's files; only
\* a refused release, which ends ipcoprestore with a signal, or a power failure
\* leaves some.  (exithandler of ipcoprestore.)
Cleaned ==
  ~Running /\ ~refused /\ cuts = 0 => tgz = None /\ tar = None

\* While requests come one at a time, the web server and sshd listen where
\* main/settings says, if it can be read, whatever was restored over whatever and
\* however it failed; with one exception, the settings a failed untar leaves
\* behind (halfway).  (ipcoprestore, the ports before and after.)
PortFollows ==
  ~Running /\ ~tangled /\ cuts = 0 /\ ~halfway =>
    /\ written \in {None, listen}
    /\ config # Torn => listen = PortOf[config]

\* backup.cgi: get_rs_error(system(...) >> 8), the exit code without the signal.
Message == IF status = "error" THEN "error" ELSE "ok"

\* The page tells success only of a request that was carried out: backup.cgi
\* calls this answer "restored ok, recommend restarting system".
AnswerIsTrue == status # "none" /\ Message = "ok" => status = "ok"

V == INSTANCE Vault WITH
  store <- [m \in Media |-> [s \in Stamps |-> IF Whole(dat[m][s]) THEN dat[m][s] ELSE None]]

\* Backup implements Vault while requests come one at a time: a complete
\* archive appears, is replaced or goes in one step, only an archive whose
\* release the comment of testbackupversion accepts is imported or put back,
\* and nothing but that and an edit ever changes the configuration.
Implements == [][V!Steps \/ tangled']_<<V!vaultvars>>
=============================================================================
