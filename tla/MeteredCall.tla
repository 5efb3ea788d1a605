----------------------------- MODULE MeteredCall -----------------------------
(***************************************************************************)
(* A paid request through the gateway: admission (spend cap, payment       *)
(* proof, reservation at the meter), the call to the upstream provider,    *)
(* and its outcome.  Admission awaits nothing, so it is one step; while    *)
(* the upstream call is awaited other requests, the close event of the     *)
(* connection and the reconciliation with the chain interleave.            *)
(*                                                                         *)
(* One agent, one route.  Everything the gateway keeps is in the memory of *)
(* the process: a restart loses it, and the cap is read again from chain.  *)
(***************************************************************************)
EXTENDS Integers, FiniteSets

CONSTANTS
    Calls,          \* requests handled at the same time
    Channels, Nonces,
    MaxSeq,         \* bound: sequence numbers of payment proofs
    UpperBound,     \* priceUpperBound of the route
    ActualPrice,    \* what a served call costs
    ChainCap,       \* the agent's cap on chain at first
    MaxRestarts     \* bound

ASSUME MeteredConstants ==
    /\ IsFiniteSet(Calls)
    /\ MaxSeq \in Nat /\ MaxRestarts \in Nat /\ ChainCap \in Nat
    /\ UpperBound \in Nat \ {0} /\ ActualPrice \in 1..UpperBound

VARIABLES
    call,           \* whether a request waits for its upstream call
    reservation,    \* status of the reservation it made
    capState,       \* the cached cap: none, active, or ended
    cap,            \*   onChainCap
    consumed,       \*   consumedLocal
    latest,         \* newest accepted sequence number of each channel
    seen,           \* nonces the nonce store remembers
    chainCap,       \* the cap on chain
    settling,       \* amount settled on chain and not reconciled yet
    restarts,
    uses,           \* history: accepted proofs, by channel and number
    granted,        \* history: the cap when it was cached
    charged,        \* history: consumption since then
    admitted, committed, released   \* history: reservations

capVars == <<capState, cap, consumed>>
proofVars == <<latest, seen, uses>>
chainVars == <<chainCap, settling, restarts>>
tally == <<admitted, committed, released>>
vars == <<call, reservation, capVars, proofVars, chainVars, granted, charged, tally>>

Seqs == 1..MaxSeq
Waiting == {c \in Calls : call[c] = "upstream"}
Reserved == {c \in Calls : reservation[c] = "reserved"}

TypeOK ==
    /\ call \in [Calls -> {"idle", "upstream"}]
    /\ reservation \in [Calls -> {"none", "reserved", "committed", "released"}]
    /\ capState \in {"none", "active", "ended"}
    /\ cap \in 0..ChainCap /\ consumed \in Nat
    /\ latest \in [Channels -> 0..MaxSeq] /\ seen \in SUBSET Nonces
    /\ chainCap \in 0..ChainCap /\ settling \in Nat
    /\ restarts \in 0..MaxRestarts
    /\ uses \in [Channels \X Seqs -> Nat]
    /\ granted \in 0..ChainCap /\ charged \in Nat
    /\ admitted \in Nat /\ committed \in Nat /\ released \in Nat

\* What a process starts with.
NoCalls == [c \in Calls |-> "idle"]
NoReservations == [c \in Calls |-> "none"]
NoProofs == [ch \in Channels |-> 0]
NoUses == [p \in Channels \X Seqs |-> 0]

Init ==
    /\ call = NoCalls /\ reservation = NoReservations
    /\ capState = "none" /\ cap = 0 /\ consumed = 0
    /\ latest = NoProofs /\ seen = {} /\ uses = NoUses
    /\ chainCap = ChainCap /\ settling = 0 /\ restarts = 0
    /\ granted = 0 /\ charged = 0
    /\ admitted = 0 /\ committed = 0 /\ released = 0

-----------------------------------------------------------------------------
(* Admission                                                               *)

CanTransactM == capState = "active" /\ consumed < cap
\* Reservations that are still open do not count.
CanTransact == capState = "active" /\ UpperBound <= cap - consumed

AcceptableM(ch, s, n) == n \notin seen /\ s >= latest[ch]
\* verifyPaymentProof, for a proof that is well-formed, fresh and funded.
Acceptable(ch, s, n) == n \notin seen /\ s > latest[ch]

Admit(c, ch, s, n) ==
    /\ call[c] = "idle"
    /\ CanTransact
    /\ Acceptable(ch, s, n)
    /\ seen' = seen \cup {n}
    /\ latest' = [latest EXCEPT ![ch] = s]
    /\ uses' = [uses EXCEPT ![<<ch, s>>] = @ + 1]
    /\ reservation' = [reservation EXCEPT ![c] = "reserved"]
    /\ call' = [call EXCEPT ![c] = "upstream"]
    /\ admitted' = admitted + 1
    /\ UNCHANGED <<capVars, chainVars, granted, charged, committed, released>>

\* A 402 leaves no trace.
Refuse(c, ch, s, n) ==
    /\ call[c] = "idle"
    /\ ~CanTransact \/ ~Acceptable(ch, s, n)
    /\ UNCHANGED vars

\* A nonce outlives its time to live.
Forget(n) ==
    /\ n \in seen
    /\ seen' = seen \ {n}
    /\ UNCHANGED <<call, reservation, capVars, latest, uses, chainVars, granted, charged, tally>>

-----------------------------------------------------------------------------
(* The outcome of the upstream call                                        *)

ReleaseM(c) ==
    /\ reservation' = [reservation EXCEPT ![c] = "released"]
    /\ released' = released + 1
\* MeterReservationTracker.release, which ignores a reservation that is not open.
Release(c) ==
    IF c \in Reserved
    THEN /\ reservation' = [reservation EXCEPT ![c] = "released"]
         /\ released' = released + 1
    ELSE UNCHANGED <<reservation, released>>

\* MeterReservationTracker.commit, likewise; its result is not looked at.
Commit(c) ==
    IF c \in Reserved
    THEN /\ reservation' = [reservation EXCEPT ![c] = "committed"]
         /\ committed' = committed + 1
    ELSE UNCHANGED <<reservation, committed>>

\* The consumption is charged whether or not the reservation was still open.
Answer(c) ==
    /\ call[c] = "upstream"
    /\ Commit(c)
    /\ consumed' = consumed + ActualPrice
    /\ charged' = charged + ActualPrice
    /\ call' = [call EXCEPT ![c] = "idle"]
    /\ UNCHANGED <<capState, cap, proofVars, chainVars, granted, admitted, released>>

FailM(c) ==
    /\ call[c] = "upstream"
    /\ call' = [call EXCEPT ![c] = "idle"]
    /\ UNCHANGED <<reservation, capVars, proofVars, chainVars, granted, charged, tally>>
\* The upstream call throws.
Fail(c) ==
    /\ call[c] = "upstream"
    /\ Release(c)
    /\ call' = [call EXCEPT ![c] = "idle"]
    /\ UNCHANGED <<capVars, proofVars, chainVars, granted, charged, admitted, committed>>

\* The close event of the request; the handler goes on.
Disconnect(c) ==
    /\ call[c] = "upstream"
    /\ Release(c)
    /\ UNCHANGED <<call, capVars, proofVars, chainVars, granted, charged, admitted, committed>>

-----------------------------------------------------------------------------
(* The cap and the chain                                                   *)

\* setCap, from the cap on chain.
CacheCap ==
    /\ capState = "none"
    /\ capState' = "active"
    /\ cap' = chainCap
    /\ granted' = chainCap
    /\ UNCHANGED <<call, reservation, consumed, proofVars, chainVars, charged, tally>>

\* The card expires or is suspended.
EndCap ==
    /\ capState = "active"
    /\ capState' = "ended"
    /\ UNCHANGED <<call, reservation, cap, consumed, proofVars, chainVars, granted, charged, tally>>

\* The cap contract does not let a settlement exceed the cap.
Payable == {a \in 1..consumed : a <= chainCap}

SettleOnChain(amount) ==
    /\ settling = 0
    /\ settling' = amount
    /\ chainCap' = chainCap - amount
    /\ UNCHANGED <<call, reservation, capVars, proofVars, restarts, granted, charged, tally>>

StillConsumedM(amount) == 0
\* Calls may have been charged since the settled amount was taken.
StillConsumed(amount) == IF consumed > amount THEN consumed - amount ELSE 0

\* reconcileSettlement
Reconcile ==
    /\ settling > 0
    /\ cap' = chainCap
    /\ consumed' = StillConsumed(settling)
    /\ settling' = 0
    /\ UNCHANGED <<call, reservation, capState, proofVars, chainCap, restarts, granted, charged, tally>>

Restart ==
    /\ restarts < MaxRestarts
    /\ restarts' = restarts + 1
    /\ call' = NoCalls /\ reservation' = NoReservations
    /\ capState' = "none" /\ cap' = 0 /\ consumed' = 0
    /\ latest' = NoProofs /\ seen' = {} /\ uses' = NoUses
    /\ settling' = 0
    /\ granted' = 0 /\ charged' = 0
    /\ admitted' = 0 /\ committed' = 0 /\ released' = 0
    /\ UNCHANGED chainCap

-----------------------------------------------------------------------------

Proof(c) == \E ch \in Channels, s \in Seqs, n \in Nonces : Admit(c, ch, s, n) \/ Refuse(c, ch, s, n)

Outcome(c) == Answer(c) \/ Fail(c)

Next ==
    \/ \E c \in Calls : Proof(c) \/ Outcome(c) \/ Disconnect(c)
    \/ \E n \in Nonces : Forget(n)
    \/ \E amount \in Payable : SettleOnChain(amount)
    \/ CacheCap \/ EndCap \/ Reconcile \/ Restart

Spec == Init /\ [][Next]_vars

\* The upstream call answers or throws in the end.
FairSpec == Spec /\ \A c \in Calls : WF_vars(Outcome(c))

-----------------------------------------------------------------------------

\* Admission looks at what was consumed, not at what the calls in progress
\* will consume; so the cap is exceeded, but only by what the requests handled
\* at the same time cost beyond the one that the cap covers.
OvershootBounded ==
    LET ahead == consumed + ActualPrice * Cardinality(Waiting)
    IN  ahead > 0 => ahead + UpperBound <= cap + ActualPrice * Cardinality(Calls)

\* The remaining allowance is the cap that was cached less everything charged
\* since, whichever settlements were reconciled while calls were in progress.
NoDrift == cap - consumed = granted - charged

\* A sequence number of a channel pays for one call, also after its nonce was
\* forgotten (within the life of the process).
ProofPaysOnce == \A p \in Channels \X Seqs : uses[p] <= 1

\* Every reservation is committed or released, once, and none is open whose
\* request is over, whichever of answer, failure and disconnection came first.
ReservationsSettledOnce ==
    /\ admitted = committed + released + Cardinality(Reserved)
    /\ Reserved \subseteq Waiting

\* No reservation is stranded.
ReservationEnds == \A c \in Calls : c \in Reserved ~> c \notin Reserved
=============================================================================
