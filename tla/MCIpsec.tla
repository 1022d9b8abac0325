------------------------------ MODULE MCIpsec ------------------------------
(***************************************************************************)
(* Small instances of Ipsec: a net-to-net connection to a peer with a      *)
(* dynamic address on RED, and a roadwarrior on BLUE.                      *)
(***************************************************************************)
EXTENDS Ipsec, TLC

SlotSymmetry == Permutations(Watchers)
=============================================================================
