-------------------------- MODULE MCPaymentChannel --------------------------
(* One channel among four interchangeable addresses: two parties and two    *)
(* watchtowers, so that towers come and go around a bounty and one is ahead *)
(* of the other when a newer state is submitted.                            *)
EXTENDS PaymentChannel, TLC

CONSTANTS u1, u2, u3, u4, n1, n2

MCAddr == {u1, u2, u3, u4}
MCBalance == -1..2
MCAmount == 0..1
MCWindows == 0..1
MCNonce == {n1}
MCSymmetry == Permutations(MCAddr)
=============================================================================
