------------------------------- MODULE MCRed -------------------------------
(* Instances of Red for TLC.                                               *)
EXTENDS Red, TLC

CONSTANTS u1, c1, c2, s1, s2, A, B

NoBackup   == A :> None
ToBackup   == (A :> B) @@ (B :> None)
RoundRobin == (A :> B) @@ (B :> A)

Line(isdn, watched, static) ==
  [isdn |-> isdn, watched |-> watched, static |-> static]
Dsl     == Line(FALSE, TRUE, FALSE)     \* PPPoE, RFC2364
Pptp    == Line(FALSE, TRUE, TRUE)      \* with a static address
Modem   == Line(FALSE, FALSE, FALSE)
Isdn    == Line(TRUE, FALSE, FALSE)
IsdnWatched == Line(TRUE, TRUE, FALSE)  \* ISDN, left on RFC2364

DslOnly     == {Dsl}
StayLines   == {Dsl, Isdn, IsdnWatched}
ManualLines == {Pptp, Isdn}
AllLines    == [isdn : BOOLEAN, watched : BOOLEAN, static : BOOLEAN]

\* An ISDN line with a checker has the most interleavings.
One   == [l \in Lines |-> 1]
Two   == [l \in Lines |-> IF l.isdn /\ l.watched THEN 1 ELSE 2]
Three == [l \in Lines |-> 3]

\* Checkers are interchangeable, and so are pppd processes.
Symmetry == Permutations({c1, c2}) \cup Permutations({s1, s2})
=============================================================================
