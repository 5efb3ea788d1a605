---------------------------- MODULE ChannelLedger ----------------------------
(* What a payment channel, or an escrow, promises about money: tokens locked  *)
(* in an account leave it only to be paid out, the last payment takes all     *)
(* that is left, and no step ever moves what another account holds.  The      *)
(* accounts share one vault, which holds what they hold together until a      *)
(* breachable account settles for another amount than it held.                *)
EXTENDS Integers

CONSTANTS
    Id,             \* channels or escrows
    Breachable      \* accounts that may settle for less or more than they hold

VARIABLES
    held,           \* tokens locked in each account
    paid,           \* tokens paid out of each account
    settled,        \* the account has paid out for the last time
    vault           \* tokens the contract owns

lvars == <<held, paid, settled, vault>>

LedgerInit ==
    /\ held = [c \in Id |-> 0]
    /\ paid = [c \in Id |-> 0]
    /\ settled = [c \in Id |-> FALSE]
    /\ vault = 0

\* Account c holds another number of tokens, and the vault as many more or less.
Move(c) ==
    /\ held' = [held EXCEPT ![c] = held'[c]]
    /\ vault' = vault + held'[c] - held[c]

\* Tokens enter account c.
Lock(c) ==
    /\ ~settled[c]
    /\ Move(c) /\ held'[c] > held[c]
    /\ UNCHANGED <<paid, settled>>

\* Tokens leave account c; nothing is lost or created on the way.
Release(c) ==
    /\ ~settled[c]
    /\ Move(c) /\ 0 <= held'[c] /\ held'[c] <= held[c]
    /\ paid' = [paid EXCEPT ![c] = @ + held[c] - held'[c]]
    /\ \/ UNCHANGED settled
       \/ held'[c] = 0 /\ settled' = [settled EXCEPT ![c] = TRUE]

\* Account c settles for what its record says, not for what it holds.
Breach(c) ==
    /\ c \in Breachable
    /\ ~settled[c]
    /\ held' = [held EXCEPT ![c] = 0]
    /\ \E x \in 0..vault :
           /\ paid' = [paid EXCEPT ![c] = @ + x]
           /\ vault' = vault - x
    /\ settled' = [settled EXCEPT ![c] = TRUE]

LedgerNext == \E c \in Id : Lock(c) \/ Release(c) \/ Breach(c)

LedgerSpec == LedgerInit /\ [][LedgerNext]_lvars

\* The tokens the accounts hold, each with its account: as many as these hold
\* together, so that Cardinality(Token) is their sum.
Token == UNION {{c} \X (1..held[c]) : c \in Id}
=============================================================================
