--------------------------- MODULE ChainSubmission ---------------------------
(***************************************************************************)
(* ChainSubmissionClient (backend/src/blockchain/chain-submission-client): *)
(* calls of submit() for one source account, the account's sequence number *)
(* cached in memory under a lock, retries, and the idempotency maps.  Each *)
(* await ends a step.  The network is external: a transaction sent may     *)
(* reach the ledger or not, whatever the sender hears; the ledger takes    *)
(* transactions of the account in sequence; a query may lag behind it.     *)
(* Fees are left out: a fee error is one of the errors that are retried,   *)
(* and one past the fee limit ends the call before its last attempt.       *)
(***************************************************************************)
EXTENDS Integers, FiniteSets

CONSTANTS
    Caller,         \* calls of submit(), each made once
    Key,            \* idempotency keys
    KeysOf,         \* the keys each call may be given
    Nobody,
    MaxAttempts,    \* maxRetries + 1
    MaxRestarts     \* bound: process restarts

ASSUME SubmissionConstants ==
    /\ KeysOf \in [Caller -> SUBSET Key] /\ Nobody \notin Caller \cup Key /\ IsFiniteSet(Caller)
    /\ MaxAttempts \in Nat \ {0} /\ MaxRestarts \in Nat

VARIABLES
    pc,             \* where each call is
    key,            \* its idempotency key
    attempt,        \* its attempt, from 1
    seq,            \* the sequence number it read, then that of its transaction; 0 between attempts
    result,         \* what it returned
    lock,           \* accountLocks: the call building a transaction
    cached,         \* accountSequences: {} or the one number
    inflight,       \* inflightRequests: the call that runs for a key
    completed,      \* completedSubmissions
    ledgerSeq,      \* the account's sequence number on the ledger
    pool,           \* transactions that may still land
    chain,          \* transactions that landed, with their outcome
    blind,          \* history: attempts given up without knowing their fate
    restarts

memory == <<lock, cached, inflight, completed>>
network == <<ledgerSeq, pool, chain>>
vars == <<pc, key, attempt, seq, result, memory, network, blind, restarts>>

Active == {"queued", "building", "sending", "confirming", "querying", "backoff"}
Outcome == {"none", "SUCCESS", "FAILED", "error"}
Tx == [by : Caller, n : 1..MaxAttempts, seq : Nat]

TypeOK ==
    /\ pc \in [Caller -> Active \cup {"idle", "joined", "ended"}]
    /\ key \in [Caller -> Key \cup {Nobody}]
    /\ attempt \in [Caller -> 1..MaxAttempts]
    /\ seq \in [Caller -> Nat]
    /\ result \in [Caller -> Outcome]
    /\ lock \in Caller \cup {Nobody}
    /\ cached \in SUBSET Nat
    /\ inflight \in [Key -> Caller \cup {Nobody}]
    /\ completed \in [Key -> Outcome]
    /\ ledgerSeq \in Nat
    /\ pool \in SUBSET Tx
    /\ chain \in SUBSET [tx : Tx, ok : BOOLEAN]
    /\ blind \in [Key -> Nat]
    /\ restarts \in 0..MaxRestarts

Init ==
    /\ pc = [c \in Caller |-> "idle"]
    /\ key = [c \in Caller |-> Nobody]
    /\ attempt = [c \in Caller |-> 1]
    /\ seq = [c \in Caller |-> 0]
    /\ result = [c \in Caller |-> "none"]
    /\ lock = Nobody
    /\ cached = {}
    /\ inflight = [k \in Key |-> Nobody]
    /\ completed = [k \in Key |-> "none"]
    /\ ledgerSeq = 0
    /\ pool = {}
    /\ chain = {}
    /\ blind = [k \in Key |-> 0]
    /\ restarts = 0

tx(c) == [by |-> c, n |-> attempt[c], seq |-> seq[c]]
Goto(c, l) == pc' = [pc EXCEPT ![c] = l]

\* The local variables of calls that return.
Forget(S) ==
    /\ attempt' = [c \in Caller |-> IF c \in S THEN 1 ELSE attempt[c]]
    /\ seq' = [c \in Caller |-> IF c \in S THEN 0 ELSE seq[c]]

\* The promise of c settles: c and the calls that joined it return.
Settle(c, r) ==
    LET waiting == {d \in Caller : pc[d] = "joined" /\ key[d] = key[c]} \cup {c}
    IN  /\ pc' = [d \in Caller |-> IF d \in waiting THEN "ended" ELSE pc[d]]
        /\ result' = [d \in Caller |-> IF d \in waiting THEN r ELSE result[d]]
        /\ Forget({c})
        /\ inflight' = [inflight EXCEPT ![key[c]] = Nobody]
        /\ completed' = [completed EXCEPT ![key[c]] = IF r = "error" THEN @ ELSE r]

Unknown(c) == blind' = [blind EXCEPT ![key[c]] = @ + 1]

-----------------------------------------------------------------------------
(* submit().                                                               *)

RunningM(k) == FALSE
Running(k) == inflight[k] # Nobody

Submit(c, k) ==
    /\ pc[c] = "idle"
    /\ key' = [key EXCEPT ![c] = k]
    /\ \/ /\ completed[k] # "none"
          /\ Goto(c, "ended") /\ result' = [result EXCEPT ![c] = completed[k]]
          /\ UNCHANGED inflight
       \/ /\ completed[k] = "none" /\ Running(k)
          /\ Goto(c, "joined") /\ UNCHANGED <<result, inflight>>
       \/ /\ completed[k] = "none" /\ ~Running(k)
          /\ Goto(c, "queued") /\ inflight' = [inflight EXCEPT ![k] = c]
          /\ UNCHANGED result
    /\ UNCHANGED <<attempt, seq, lock, cached, completed, network, blind, restarts>>

\* withAccountLock, getOrFetchSequence: the cached number, else the ledger's.
Acquire(c) ==
    /\ pc[c] = "queued" /\ lock = Nobody
    /\ lock' = c
    /\ Goto(c, "building")
    /\ \E s \in IF cached # {} THEN cached ELSE {ledgerSeq} :
           seq' = [seq EXCEPT ![c] = s] /\ cached' = {s}
    /\ UNCHANGED <<key, attempt, result, inflight, completed, network, blind, restarts>>

\* Simulated and signed; another call may have invalidated the cache meanwhile.
Build(c) ==
    /\ pc[c] = "building"
    /\ seq' = [seq EXCEPT ![c] = @ + 1]
    /\ cached' = {seq[c] + 1}
    /\ lock' = Nobody
    /\ Goto(c, "sending")
    /\ UNCHANGED <<key, attempt, result, inflight, completed, network, blind, restarts>>

UnlockM == lock
Unlock == Nobody

\* An error that speaks of the sequence makes the client forget the cached one.
MaybeInvalidate == cached' \in {cached, {}}

\* The account cannot be read, or the simulation fails.
BuildFails(c) ==
    /\ pc[c] = "building"
    /\ lock' = Unlock
    /\ Goto(c, "backoff")
    /\ MaybeInvalidate
    /\ UNCHANGED <<key, attempt, seq, result, inflight, completed, network, blind, restarts>>

\* The call returned, or threw, and the transaction is in the network or not.
MaybeSent(c) == pool' \in {pool, pool \cup {tx(c)}} /\ UNCHANGED <<ledgerSeq, chain>>

Send(c) ==
    /\ pc[c] = "sending"
    /\ \/ \* PENDING, or TRY_AGAIN_LATER, which is not told apart
          MaybeSent(c) /\ Goto(c, "confirming") /\ UNCHANGED <<cached, blind>>
       \/ \* timeout: ask the ledger before any retry
          MaybeSent(c) /\ Goto(c, "querying") /\ UNCHANGED <<cached, blind>>
       \/ \* any other exception: retried without asking
          MaybeSent(c) /\ Goto(c, "backoff") /\ Unknown(c) /\ MaybeInvalidate
       \/ \* status ERROR
          Goto(c, "backoff") /\ MaybeInvalidate /\ UNCHANGED <<network, blind>>
    /\ UNCHANGED <<key, attempt, seq, result, lock, inflight, completed, restarts>>

Landed(c, ok) == [tx |-> tx(c), ok |-> ok] \in chain

\* waitForConfirmation: success, failure on the ledger (an error, retried),
\* timeout, or a poll that fails (retried without asking).
Confirm(c) ==
    /\ pc[c] = "confirming"
    /\ \/ Landed(c, TRUE) /\ Settle(c, "SUCCESS") /\ UNCHANGED blind
       \/ /\ \/ Landed(c, FALSE) /\ Goto(c, "backoff") /\ UNCHANGED blind
             \/ Goto(c, "querying") /\ UNCHANGED blind
             \/ Goto(c, "backoff") /\ Unknown(c)
          /\ UNCHANGED <<attempt, seq, result, inflight, completed>>
    /\ UNCHANGED <<key, lock, cached, network, restarts>>

FoundM(c, r) == r = "SUCCESS" /\ \E ok \in BOOLEAN : Landed(c, ok)
Found(c, r) == \/ r = "SUCCESS" /\ Landed(c, TRUE)
               \/ r = "FAILED" /\ Landed(c, FALSE)

\* queryLedgerFate: null when the query fails or does not find it (yet).
Query(c) ==
    /\ pc[c] = "querying"
    /\ \/ \E r \in {"SUCCESS", "FAILED"} : Found(c, r) /\ Settle(c, r) /\ UNCHANGED blind
       \/ /\ Goto(c, "backoff") /\ Unknown(c)
          /\ UNCHANGED <<attempt, seq, result, inflight, completed>>
    /\ UNCHANGED <<key, lock, cached, network, restarts>>

\* The next attempt starts from the lock; after the last one, or past the fee
\* limit, the error is thrown.
Backoff(c) ==
    /\ pc[c] = "backoff"
    /\ \/ /\ attempt[c] < MaxAttempts
          /\ attempt' = [attempt EXCEPT ![c] = @ + 1]
          /\ seq' = [seq EXCEPT ![c] = 0]
          /\ Goto(c, "queued") /\ UNCHANGED <<result, inflight, completed>>
       \/ Settle(c, "error")
    /\ UNCHANGED <<key, lock, cached, network, blind, restarts>>

-----------------------------------------------------------------------------
(* Environment.                                                            *)

\* In sequence; another transaction with that number can no longer land.  One that
\* expires is one that never lands.
Land(t) ==
    /\ t.seq = ledgerSeq + 1
    /\ ledgerSeq' = t.seq
    /\ pool' = {u \in pool : u.seq > t.seq}
    /\ \E ok \in BOOLEAN : chain' = chain \cup {[tx |-> t, ok |-> ok]}
    /\ UNCHANGED <<key, pc, attempt, seq, result, memory, blind, restarts>>

\* The process ends: its calls end with it and both maps are gone.
Restart ==
    /\ restarts < MaxRestarts
    /\ restarts' = restarts + 1
    /\ pc' = [c \in Caller |-> IF pc[c] = "idle" THEN "idle" ELSE "ended"]
    /\ result' = [c \in Caller |-> IF pc[c] \in {"idle", "ended"} THEN result[c] ELSE "error"]
    /\ lock' = Nobody /\ cached' = {}
    /\ inflight' = [k \in Key |-> Nobody]
    /\ completed' = [k \in Key |-> "none"]
    /\ Forget(Caller)
    /\ UNCHANGED <<key, network, blind>>

Step(c) == \/ Acquire(c) \/ Build(c) \/ BuildFails(c) \/ Send(c) \/ Confirm(c)
           \/ Query(c) \/ Backoff(c)

Next ==
    \/ \E c \in Caller : Step(c) \/ \E k \in KeysOf[c] : Submit(c, k)
    \/ \E t \in pool : Land(t)
    \/ Restart

Spec == Init /\ [][Next]_vars

\* Every request to the node returns or times out, and the loop goes on.
FairSpec == Spec /\ \A c \in Caller : WF_vars(Step(c))

-----------------------------------------------------------------------------
(* Properties.                                                             *)

Successes(k) == {x \in chain : x.ok /\ key[x.tx.by] = k}

\* A value-moving call takes effect once, plus at most once for each attempt that
\* was given up without knowing its fate and for each restart that lost the maps.
LandsBounded == \A k \in Key : Cardinality(Successes(k)) <= 1 + blind[k] + restarts

\* A caller is told SUCCESS only if a transaction under its key took effect.
ReportedTrue == \A c \in Caller : result[c] = "SUCCESS" => Successes(key[c]) # {}

\* The lock is given back on every path and retries are bounded: every call ends.
SubmissionEnds == \A c \in Caller : pc[c] \in Active \cup {"joined"} ~> pc[c] = "ended"
=============================================================================
