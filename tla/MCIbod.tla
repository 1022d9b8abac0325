------------------------------- MODULE MCIbod -------------------------------
(* A small instance of Ibod: half-second ticks, one direction of traffic.  *)
EXTENDS Ibod

Cf(e, i, f, l, s, t) ==
  [enable |-> e, interval |-> i, filter |-> f, limit |-> l, stayup |-> s, stayup_time |-> t]

\* The built-in values (scaled), no filter, and a daemon switched off that
\* sleeps for whole seconds.
MCConfigs == {Cf(TRUE, 1, 2, 1, FALSE, 1), Cf(TRUE, 1, 0, 1, FALSE, 0),
              Cf(FALSE, 2, 2, 1, TRUE, 1)}
=============================================================================
