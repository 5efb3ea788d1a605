---------------------------- MODULE MCSignerLease ----------------------------
(* Two instances, one of them with two calls at once.                       *)
EXTENDS SignerLease, TLC

CONSTANTS i1, i2, a, b, c

MCInst == a :> i1 @@ b :> i1 @@ c :> i2
=============================================================================
