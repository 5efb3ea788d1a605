---------------------------- MODULE MCMeteredCall ----------------------------
(* Two requests at a time, two channels, a cap that covers two calls.       *)
EXTENDS MeteredCall

CONSTANTS c1, c2, ch1, ch2, n1, n2
=============================================================================
