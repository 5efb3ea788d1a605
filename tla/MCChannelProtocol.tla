-------------------------- MODULE MCChannelProtocol --------------------------
(* Two parties and one watchtower, deposits and payments of one token.      *)
EXTENDS ChannelProtocol

CONSTANTS alice, bob, tower, n1

MCAddr == {alice, bob, tower}
MCAmount == 0..1
MCBalance == 0..1
MCWindows == {1}
MCNonce == {n1}
=============================================================================
