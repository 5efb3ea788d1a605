-------------------------- MODULE MCChainSubmission --------------------------
(* Two calls for one account, under one key or two.                          *)
EXTENDS ChainSubmission

CONSTANTS c1, c2, k1, k2

MCCaller == {c1, c2}
MCKey == {k1, k2}
MCKeysOf == [c \in MCCaller |-> IF c = c1 THEN {k1} ELSE MCKey]
=============================================================================
