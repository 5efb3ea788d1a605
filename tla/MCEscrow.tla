------------------------------ MODULE MCEscrow ------------------------------
(* Two escrows of one token each, two arbiters: sets of one and of two, with *)
(* every threshold, and rotations between them.                              *)
EXTENDS Escrow

CONSTANTS a1, a2

MCArbiter == {a1, a2}
MCAmount == {0, 1}
=============================================================================
