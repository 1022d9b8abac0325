------------------------------ MODULE MCBackup ------------------------------
(***************************************************************************)
(* A small instance of Updates with Backup: two configurations on the      *)
(* same ports and one on others, archives of this release, of an older one *)
(* and of releases that must be refused.                                   *)
(***************************************************************************)
EXTENDS Updates, TLC

CONSTANTS c1, c2, c3, h1, h2, p1, p2

MCPortOf   == c1 :> p1 @@ c2 :> p1 @@ c3 :> p2
MCReleases == {<<1, 9, 8>>, <<2, 0, 0>>, <<2, 0, 1>>, <<2, 1, 0>>}
MCFirst    == <<2, 0, 0>>
MCPrevious == <<2, 0, 1>> :> <<2, 0, 0>> @@ <<2, 1, 0>> :> <<2, 0, 1>>
MCPreloaded == {<<2, 0, 1>>, <<2, 1, 0>>}

Foreign(v, t) ==
  [config |-> c3, hardware |-> h2, release |-> v, stamp |-> 1, tag |-> t]
MCUploads ==
  {Foreign(<<1, 9, 8>>, 1), Foreign(<<2, 0, 1>>, 1), Foreign(<<2, 1, 0>>, None), Torn}
=============================================================================
