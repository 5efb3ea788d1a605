---------------------------- MODULE NonceService ----------------------------
(* What the signing lease of a channel promises, without its transactions,  *)
(* clocks and crashes: one instance at a time is given nonces, in order and *)
(* each once; another one carries on where it stopped, once its lease has   *)
(* run out.  Only when a lease is given up does the count begin again.      *)
EXTENDS Integers

CONSTANTS Instances, Calls, Inst

VARIABLES
    term,           \* how often the count began
    holder,         \* whose lease it is: one instance, or none
    running,        \* the lease has not run out
    last,           \* the nonce issued last in this term
    issued          \* history: nonces issued, in which term, to which call

svars == <<term, holder, running, last, issued>>

ServiceInit ==
    /\ term = 0
    /\ holder = {}
    /\ running = FALSE
    /\ last = 0
    /\ issued = {}

\* A new term for an instance that finds no lease.
Begin(i) ==
    /\ holder = {}
    /\ term' = term + 1 /\ last' = 0
    /\ holder' = {i} /\ running' = TRUE
    /\ UNCHANGED issued

\* The holder renews its lease, or an instance takes over one that has run out.
Extend(i) ==
    /\ holder = {i} \/ (holder # {} /\ ~running)
    /\ holder' = {i} /\ running' = TRUE
    /\ UNCHANGED <<term, last, issued>>

\* A call of the holder gets the next nonce.
Issue(c) ==
    /\ holder = {Inst[c]}
    /\ last' = last + 1
    /\ issued' = issued \cup {[row |-> term, nonce |-> last', call |-> c]}
    /\ UNCHANGED <<term, holder, running>>

RunOut ==
    /\ running /\ ~running'
    /\ UNCHANGED <<term, holder, last, issued>>

GiveUp ==
    /\ holder # {}
    /\ holder' = {} /\ running' = FALSE
    /\ UNCHANGED <<term, last, issued>>

ServiceNext ==
    \/ \E i \in Instances : Begin(i) \/ Extend(i)
    \/ \E c \in Calls : Issue(c)
    \/ RunOut \/ GiveUp

ServiceSpec == ServiceInit /\ [][ServiceNext]_svars
=============================================================================
