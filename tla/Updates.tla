------------------------------ MODULE Updates ------------------------------
(***************************************************************************)
(* Updates: the page updates.cgi, the setuid program installpackage and    *)
(* the list installed.xml, together with the backups of Backup, whose      *)
(* version test depends on the release an update leaves behind.            *)
(*                                                                         *)
(* gpg and the package are external: a package is signed correctly or not  *)
(* and holds a setup script that checks the running release first.         *)
(***************************************************************************)
EXTENDS Backup

CONSTANTS
  Previous,   \* release an update applies to, per release it leads to
  Preloaded,  \* packages that cron has already fetched
  MaxDownloads \* bound: uploads and downloads

VARIABLES
  package,    \* /var/patches: the .tgz.gpg of each release: none, good, bad
  info,       \* /var/patches/information.xml: the release it is about
  available,  \* available.xml: releases known
  installed,  \* installed.xml: releases listed as installed
  for,        \* per program: release it tests or installs
  seen,       \* per program: installed.xml as updateinstalledpatches read it
  downloads

patches == <<package, info, available, installed, downloads>>
uvars   == <<patches, for, seen>>
allvars == <<vars, uvars>>

Updatable == DOMAIN Previous

\* An update leads from a release to a later one.
ASSUME UpdatesAssumption ==
  /\ Updatable \subseteq Releases \ {FirstRelease} /\ Preloaded \subseteq Updatable
  /\ \A v \in Updatable : V!Earlier(Previous[v], v)
  /\ MaxDownloads \in Nat

UInit ==
  /\ Init
  /\ package = [v \in Updatable |-> IF v \in Preloaded THEN "good" ELSE "none"] /\ info = None
  /\ available = {} /\ installed = {} /\ downloads = 0
  /\ for = [p \in Procs |-> None] /\ seen = [p \in Procs |-> {}]

idle == <<files, temps, config, hardware, written, listen, halfway, local, rest>>

\* updates.cgi: upload or download puts the package in /var/patches; its test
\* is run at once.
Upload(p, v) ==
  /\ Begin(p, "test", "gpg")
  /\ downloads < MaxDownloads /\ downloads' = downloads + 1
  /\ \E state \in {"good", "bad"} : package' = [package EXCEPT ![v] = state]
  /\ for' = [for EXCEPT ![p] = v]
  /\ UNCHANGED <<info, available, installed, seen, release, idle>>

\* updates.cgi: apply, also for a package that is not there.
Apply(p, v) ==
  /\ Begin(p, "install", "gpg")
  /\ for' = [for EXCEPT ![p] = v]
  /\ UNCHANGED <<patches, seen, release, idle>>

Done(p, answer) ==
  Exit(p, answer) /\ for' = [for EXCEPT ![p] = None] /\ seen' = [seen EXCEPT ![p] = {}]
                  /\ UNCHANGED <<files, temps, config, hardware, written, listen, halfway, rest>>

\* Space, signature and information.xml; an install then unlinks package and
\* signature before it unpacks.
Gpg(p) ==
  /\ pc[p] = "gpg" /\ package[for[p]] = "good"
  /\ info' = for[p]
  /\ package' = IF op[p] = "install" THEN [package EXCEPT ![for[p]] = "none"] ELSE package
  /\ Go(p, IF op[p] = "install" THEN "setup" ELSE "merge")
  /\ UNCHANGED <<available, installed, downloads, for, seen, release, idle>>

\* The package is missing, badly signed, or the disk is too small for it.
GpgFails(p) ==
  pc[p] = "gpg" /\ Done(p, "error") /\ UNCHANGED <<patches, release>>

\* updateavailablepatches: what information.xml holds by now is merged when it
\* follows the running release or the latest known.
Merge(p) ==
  /\ pc[p] = "merge"
  /\ available' = IF Previous[info] \in {release} \cup available THEN available \cup {info} ELSE available
  /\ Done(p, "ok")
  /\ UNCHANGED <<package, info, installed, downloads, release>>

SetupAny(p) ==                                                     \* mutant
  /\ pc[p] = "setup"
  /\ release' = for[p]
  /\ Go(p, "read")
  /\ UNCHANGED <<patches, for, seen, idle>>

\* The package's own setup: refuses unless the release before it, or the same,
\* is running; then unpacks over the system and runs upgrade.sh.
Setup(p) ==
  /\ pc[p] = "setup" /\ release \in {Previous[for[p]], for[p]}
  /\ release' = for[p]
  /\ Go(p, "read")
  /\ UNCHANGED <<patches, for, seen, idle>>

\* Untar or setup fails; the package is gone and has to be fetched again.
SetupFails(p) ==
  pc[p] = "setup" /\ Done(p, "error") /\ UNCHANGED <<patches, release>>

\* updateinstalledpatches reads the whole list and writes it back with one
\* entry more.
ReadList(p) ==
  /\ pc[p] = "read"
  /\ seen' = [seen EXCEPT ![p] = installed]
  /\ Go(p, "list")
  /\ UNCHANGED <<patches, for, release, idle>>

WriteList(p) ==
  /\ pc[p] = "list"
  /\ installed' = seen[p] \cup {for[p]}
  /\ Done(p, "ok")
  /\ UNCHANGED <<package, info, available, downloads, release>>

\* updates.cgi: delete.
DeletePackage(v) ==
  /\ Request /\ package[v] # "none"
  /\ package' = [package EXCEPT ![v] = "none"]
  /\ tangled' = (tangled \/ Running)
  /\ UNCHANGED <<info, available, installed, downloads, for, seen, release, pc, op, status,
                 refused, idle>>

UPowerFail ==
  PowerFail /\ for' = [p \in Procs |-> None] /\ seen' = [p \in Procs |-> {}] /\ UNCHANGED patches

Installpackage(p) ==
  Gpg(p) \/ GpgFails(p) \/ Merge(p) \/ Setup(p) \/ SetupFails(p) \/ ReadList(p) \/ WriteList(p)

UNext ==
  \/ \E p \in Procs :
       \/ (Page(p) \/ Program(p)) /\ UNCHANGED uvars
       \/ \E v \in Updatable : Upload(p, v) \/ Apply(p, v)
       \/ Installpackage(p)
  \/ (\E s \in Stamps : Remove(s)) /\ UNCHANGED uvars
  \/ (\E m \in Media : Mount(m)) /\ UNCHANGED uvars
  \/ \E v \in Updatable : DeletePackage(v)
  \/ (Edit \/ Tick) /\ UNCHANGED uvars
  \/ UPowerFail

USpec == UInit /\ [][UNext]_allvars

-----------------------------------------------------------------------------
(* Properties *)

\* S holds v and, with an update, the one that comes before it.
ClosedUnder(v, S) ==
  /\ v \in Updatable => v \in S
  /\ \A w \in S : Previous[w] \in Updatable => Previous[w] \in S

\* The updates on the way to v: the least such set.
Path(v) == {w \in Updatable : \A S \in SUBSET Updatable : ClosedUnder(v, S) => w \in S}

\* While requests come one at a time and the power does not fail, the list of
\* installed updates is exactly the way from the first release to the running
\* one: nothing that failed is listed, nothing that ran is missing.
InstalledIsListed ==
  ~Running /\ ~tangled /\ cuts = 0 => installed = Path(release)
=============================================================================
