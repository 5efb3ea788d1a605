----------------------------- MODULE SignerLease -----------------------------
(***************************************************************************)
(* The signing lease of one payment channel: signWithLease in the engine's *)
(* instances and the three database functions it calls.  Each function     *)
(* reads NOW() when its transaction begins and then waits for the row      *)
(* (FOR UPDATE), so a call is two steps and its clock is age ticks old.    *)
(* Time is kept relative: left ticks until the lease expires, negative     *)
(* once it has.                                                            *)
(***************************************************************************)
EXTENDS Integers, FiniteSets

CONSTANTS
    Instances,      \* engine processes, a restarted one under a new id
    Calls,          \* concurrent signWithLease calls
    Inst,           \* the instance each call runs in
    Reliable,       \* instances that do not crash
    Duration,       \* lease term
    MaxWait,        \* bound: ticks a transaction may wait before it is aborted
    MaxNonce,       \* bound: nonces under the first row, one less under each later
    MaxRows         \* bound: rows ever inserted

ASSUME LeaseConstants ==
    /\ Inst \in [Calls -> Instances]
    /\ Reliable \subseteq Instances
    /\ Instances # {}
    /\ MaxWait \in Nat /\ MaxNonce \in Nat /\ MaxRows \in Nat
    /\ Duration \in Nat /\ Duration > MaxWait

VARIABLES
    row,            \* the channel has a row in channel_signer_lease
    instance_id,    \* whose lease it is
    left,           \* ticks until lease_expires_at
    last_nonce,     \* last_nonce_allocated
    rows,           \* history: rows inserted so far
    pc, age,        \* where a call is, and how old its NOW() is
    handed,         \* history: nonces handed out, under which row, to which call
    alive

lease == <<row, instance_id, left, last_nonce, rows>>
vars == <<lease, pc, age, handed, alive>>

InTx == {"acquiring", "inserting", "allocating"}

TypeOK ==
    /\ row \in BOOLEAN
    /\ instance_id \in Instances
    /\ left \in -MaxWait..Duration
    /\ last_nonce \in 0..MaxNonce
    /\ rows \in 0..MaxRows
    /\ pc \in [Calls -> InTx \cup {"idle", "granted", "signing", "signed"}]
    /\ age \in [Calls -> 0..MaxWait]
    /\ handed \subseteq [row : 1..MaxRows, nonce : 1..MaxNonce, call : Calls]
    /\ alive \in [Instances -> BOOLEAN]

Init ==
    /\ row = FALSE
    /\ instance_id \in Instances
    /\ left = 0
    /\ last_nonce = 0
    /\ rows = 0
    /\ pc = [c \in Calls |-> "idle"]
    /\ age = [c \in Calls |-> 0]
    /\ handed = {}
    /\ alive = [i \in Instances |-> TRUE]

-----------------------------------------------------------------------------

\* The clock of a call only matters inside a transaction.
Goto(c, where) ==
    /\ pc' = [pc EXCEPT ![c] = where]
    /\ age' = [age EXCEPT ![c] = IF where \in InTx THEN @ ELSE 0]

\* The reply reaches the caller, or is lost after the transaction committed.
Reply(c, where) == Goto(c, where) \/ Goto(c, "idle")

\* lease_expires_at > v_now, with the NOW() the call's transaction began with.
ActiveM(c) == left > age[c]
ActiveForeverM(c) == left = left
Active(c) == left > -age[c]

Mine(c) == instance_id = Inst[c]

Begin(c, from, to) ==
    /\ pc[c] \in from
    /\ alive[Inst[c]]
    /\ Goto(c, to)
    /\ UNCHANGED <<lease, handed, alive>>

BeginAcquire(c) == Begin(c, {"idle", "signed"}, "acquiring")

\* The lease is mine from the transaction's clock on.
Grant(c) ==
    /\ instance_id' = Inst[c]
    /\ left' = Duration - age[c]
    /\ Reply(c, "granted")

TakeOverM(c) ==
    /\ Grant(c)
    /\ last_nonce' = 0
TakeOver(c) ==
    /\ Grant(c)
    /\ UNCHANGED last_nonce

Acquire(c) ==
    /\ pc[c] = "acquiring"
    /\ \/ /\ row /\ Active(c) /\ Mine(c)            \* renew
          /\ Grant(c)
          /\ UNCHANGED last_nonce
       \/ /\ row /\ Active(c) /\ ~Mine(c)           \* held by another instance
          /\ Goto(c, "idle")
          /\ UNCHANGED <<instance_id, left, last_nonce>>
       \/ /\ row /\ ~Active(c)                      \* expired
          /\ TakeOver(c)
       \/ /\ ~row                                   \* nothing to lock
          /\ Goto(c, "inserting")
          /\ UNCHANGED <<instance_id, left, last_nonce>>
    /\ UNCHANGED <<row, rows, handed, alive>>

Insert(c) ==
    /\ pc[c] = "inserting"
    /\ \/ /\ row                                    \* unique violation
          /\ Goto(c, "idle")
          /\ UNCHANGED lease
       \/ /\ ~row
          /\ rows < MaxRows
          /\ row' = TRUE
          /\ rows' = rows + 1
          /\ last_nonce' = 0
          /\ Grant(c)
    /\ UNCHANGED <<handed, alive>>

BeginAllocate(c) == Begin(c, {"granted"}, "allocating")

MayAllocate(c) == row /\ Mine(c) /\ Active(c)

RecordNonceM(c) == UNCHANGED last_nonce
RecordNonce(c) == last_nonce' = last_nonce + 1

Allocate(c) ==
    /\ pc[c] = "allocating"
    /\ \/ /\ ~MayAllocate(c)
          /\ Goto(c, "idle")
          /\ UNCHANGED <<last_nonce, handed>>
       \/ /\ MayAllocate(c)
          /\ last_nonce + rows <= MaxNonce
          /\ RecordNonce(c)
          /\ handed' = handed \cup {[row |-> rows, nonce |-> last_nonce + 1, call |-> c]}
          /\ Reply(c, "signing")
    /\ UNCHANGED <<row, instance_id, left, rows, alive>>

\* signFn returns a signed state, or throws: the nonce stays consumed.
Sign(c) ==
    /\ pc[c] = "signing"
    /\ Goto(c, "signed") \/ Goto(c, "idle")
    /\ UNCHANGED <<lease, handed, alive>>

\* release_channel_signer_lease deletes the row.
Release(c) ==
    /\ pc[c] \in {"idle", "signed"}
    /\ alive[Inst[c]]
    /\ row /\ Mine(c)
    /\ row' = FALSE
    /\ UNCHANGED <<instance_id, left, last_nonce, rows, pc, age, handed, alive>>

\* A transaction fails; nothing of it is kept.
Abort(c) ==
    /\ pc[c] \in InTx
    /\ Goto(c, "idle")
    /\ UNCHANGED <<lease, handed, alive>>

Crash(i) ==
    /\ alive[i]
    /\ i \notin Reliable
    /\ alive' = [alive EXCEPT ![i] = FALSE]
    /\ pc' = [c \in Calls |-> IF Inst[c] = i THEN "idle" ELSE pc[c]]
    /\ age' = [c \in Calls |-> IF Inst[c] = i THEN 0 ELSE age[c]]
    /\ UNCHANGED <<lease, handed>>

Tick ==
    /\ \A c \in Calls : pc[c] \in InTx => age[c] < MaxWait
    /\ left' = IF left > -MaxWait THEN left - 1 ELSE left
    /\ age' = [c \in Calls |-> IF pc[c] \in InTx THEN age[c] + 1 ELSE age[c]]
    /\ UNCHANGED <<row, instance_id, last_nonce, rows, pc, handed, alive>>

Step(c) ==
    \/ BeginAcquire(c) \/ Acquire(c) \/ Insert(c) \/ BeginAllocate(c) \/ Allocate(c)
    \/ Sign(c) \/ Release(c) \/ Abort(c)

Next == (\E c \in Calls : Step(c)) \/ (\E i \in Instances : Crash(i)) \/ Tick

Spec == Init /\ [][Next]_vars

\* Time passes, an acquire that is tried again and again is not aborted every
\* time, and the callers of an instance that stays up keep trying to sign.
\* Nothing is asked of the others.
FairSpec ==
    /\ Spec
    /\ WF_vars(Tick)
    /\ \A c \in {x \in Calls : Inst[x] \in Reliable} :
           /\ SF_vars(Acquire(c)) /\ WF_vars(Insert(c))
           /\ WF_vars(Allocate(c)) /\ WF_vars(Sign(c))
           /\ WF_vars(BeginAcquire(c)) /\ WF_vars(BeginAllocate(c))

-----------------------------------------------------------------------------
(* Properties.                                                             *)

\* allocate_next_nonce never hands out one nonce twice under the same row, to
\* concurrent calls of one instance or across an expiry and a takeover.
UniqueNonce ==
    \A x, y \in handed : x.row = y.row /\ x.nonce = y.nonce => x = y

\* A takeover continues where the old holder stopped: the counter of a row is
\* never behind a nonce handed out under it, whoever got it.
CounterCoversHanded ==
    row => \A x \in handed : x.row = rows => x.nonce <= last_nonce

\* A lease changes hands only once it has expired, although the acquiring
\* transaction looks at an old clock: an active holder is never displaced.
NoTakeoverBeforeExpiry ==
    [][row /\ row' /\ instance_id' # instance_id => left <= 0]_vars

\* Instances that lost the lease get no nonce until they hold it again: between
\* two nonces of different instances the lease changed hands.
OnlyHolderAllocates ==
    [][\A x \in handed' \ handed :
           /\ row /\ instance_id = Inst[x.call]
           /\ \A y \in handed : y.row = x.row => y.nonce < x.nonce]_vars

\* All in all, whatever waits, fails or crashes in between, the instances see
\* the service: one holder at a time, nonces in order, the count carried over a
\* takeover and begun again only after a release.
Service == INSTANCE NonceService WITH
    term <- rows,
    holder <- IF row THEN {instance_id} ELSE {},
    running <- row /\ left > 0,
    last <- last_nonce,
    issued <- handed
ImplementsService == Service!ServiceSpec

\* backend/docs/channel-signer-lease-flow.md:209: after a crash the lease expires
\* and another instance takes over (or no lease is left).
CrashedHolderReplaced ==
    \A i \in Instances : ~alive[i] ~> ~(row /\ instance_id = i)
=============================================================================
