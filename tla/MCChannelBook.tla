---------------------------- MODULE MCChannelBook ----------------------------
(* One channel with a deposit of one, two requests and the settlement job.   *)
EXTENDS ChannelBook, TLC

CONSTANTS r1, r2

MCRequest == {r1, r2}
MCSymmetry == Permutations(MCRequest)
MCAmount == {1}
=============================================================================
