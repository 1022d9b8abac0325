------------------------------- MODULE Vault -------------------------------
(***************************************************************************)
(* What backup and restore promise, whatever temporary files, tools and    *)
(* programs carry it out: complete archives appear, disappear and are put  *)
(* back in one step each; an archive holds a configuration that was in     *)
(* force or was brought in from elsewhere; only an archive the release can *)
(* deal with is put back; the release itself never goes backwards.         *)
(***************************************************************************)
EXTENDS Integers

CONSTANTS Media, Stamps, Uploads, None, Torn

VARIABLES store, config, hardware, release

vaultvars == <<store, config, hardware, release>>

\* Releases are <<major, minor, revision>>, ordered as release numbers are.
Earlier(v, w) ==
  \/ v[1] < w[1]
  \/ v[1] = w[1] /\ v[2] < w[2]
  \/ v[1] = w[1] /\ v[2] = w[2] /\ v[3] < w[3]

\* The comment above testbackupversion: older releases from 1.9.9 on, and
\* newer ones that differ in the last number only.
Accepted(v, r) ==
  /\ v # None
  /\ ~Earlier(v, <<1, 9, 9>>)
  /\ ~Earlier(r, v) \/ (v[1] = r[1] /\ v[2] = r[2])

Put(m, s, a) == store' = [store EXCEPT ![m][s] = a]
New(m, s)    == store'[m][s]

\* A new archive of this machine; tar read it at some moment since the
\* request, so its configuration may already have been edited again.
Create(m, s) ==
  /\ New(m, s) # None /\ New(m, s).stamp = s /\ New(m, s).release = release
  /\ Put(m, s, New(m, s))
  /\ UNCHANGED <<config, hardware, release>>

Import(m, s) ==
  /\ New(m, s) \in Uploads /\ Accepted(New(m, s).release, release)
  /\ Put(m, s, New(m, s))
  /\ UNCHANGED <<config, hardware, release>>

Drop(m, s) == Put(m, s, None) /\ UNCHANGED <<config, hardware, release>>

\* Putting an archive back. A disk that fills up leaves a torn configuration,
\* which is reported.
PutBack(m, s) ==
  /\ store[m][s] # None
  /\ Accepted(store[m][s].release, release)
  /\ config' \in {store[m][s].config, Torn}
  /\ hardware' \in {hardware, store[m][s].hardware}
  /\ UNCHANGED <<store, release>>

EditConfig == config' # config /\ config # Torn /\ config' # Torn /\ UNCHANGED <<store, hardware, release>>

Upgrade == Earlier(release, release') /\ UNCHANGED <<store, config, hardware>>

Steps ==
  \/ \E m \in Media, s \in Stamps :
       Create(m, s) \/ Import(m, s) \/ Drop(m, s) \/ PutBack(m, s)
  \/ EditConfig
  \/ Upgrade
=============================================================================
