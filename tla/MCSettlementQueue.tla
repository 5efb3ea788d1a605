-------------------------- MODULE MCSettlementQueue --------------------------
(* Two enqueue calls and two batch runs at once.                            *)
EXTENDS SettlementQueue

CONSTANTS e1, e2, r1, r2
=============================================================================
