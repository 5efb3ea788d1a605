-------------------------- MODULE SignerLeaseProofs --------------------------
(* The lease hands out every nonce of a row once and never displaces an      *)
(* active holder, for any instances, calls, lease term and waiting times.    *)
EXTENDS SignerLease, TLAPS

-----------------------------------------------------------------------------
(* Types.                                                                   *)

Where == InTx \cup {"idle", "granted", "signing", "signed"}

LEMMA Going ==
    ASSUME TypeOK, NEW c \in Calls, NEW w \in Where, Goto(c, w)
    PROVE  /\ pc' \in [Calls -> Where]
           /\ age' \in [Calls -> 0..MaxWait]
  <1>1. 0 \in 0..MaxWait
    BY LeaseConstants
  <1> QED
    BY <1>1 DEF TypeOK, Goto, Where

LEMMA Replying ==
    ASSUME TypeOK, NEW c \in Calls, NEW w \in Where, Reply(c, w)
    PROVE  /\ pc' \in [Calls -> Where]
           /\ age' \in [Calls -> 0..MaxWait]
  BY Going DEF Reply, Where

LEMMA Granting ==
    ASSUME TypeOK, NEW c \in Calls, Grant(c)
    PROVE  /\ instance_id' \in Instances
           /\ left' \in -MaxWait..Duration
           /\ pc' \in [Calls -> Where]
           /\ age' \in [Calls -> 0..MaxWait]
  <1>1. /\ age[c] \in 0..MaxWait /\ Inst[c] \in Instances
        /\ MaxWait \in Nat /\ Duration \in Nat /\ Duration > MaxWait
    BY LeaseConstants DEF TypeOK
  <1>2. Reply(c, "granted") /\ instance_id' = Inst[c] /\ left' = Duration - age[c]
    BY DEF Grant
  <1>3. "granted" \in Where
    BY DEF Where
  <1> QED
    BY <1>1, <1>2, <1>3, Replying

\* A nonce is handed out under a row that exists, and only up to the counter;
\* rows are numbered from 1.
HandedInv ==
    /\ row => rows >= 1
    /\ \A x \in handed : x.row <= rows
    /\ CounterCoversHanded
    /\ UniqueNonce

IInv == TypeOK /\ HandedInv

LEMMA InitInv == Init => IInv
  <1> SUFFICES ASSUME Init PROVE IInv
    OBVIOUS
  <1>1. 0 \in -MaxWait..Duration /\ 0 \in 0..MaxWait /\ 0 \in 0..MaxNonce /\ 0 \in 0..MaxRows
    BY LeaseConstants
  <1>2. TypeOK
    BY <1>1 DEF Init, TypeOK
  <1>3. HandedInv
    BY DEF Init, HandedInv, CounterCoversHanded, UniqueNonce
  <1> QED
    BY <1>2, <1>3 DEF IInv

\* Allocate hands out the successor of the counter under the current row.
LEMMA Allocating ==
    ASSUME IInv, NEW c \in Calls, Allocate(c), MayAllocate(c)
    PROVE  IInv'
  <1> DEFINE new == [row |-> rows, nonce |-> last_nonce + 1, call |-> c]
  <1>1. /\ row /\ row' = row /\ rows' = rows /\ instance_id' = instance_id
        /\ left' = left /\ alive' = alive
        /\ last_nonce + rows <= MaxNonce /\ last_nonce' = last_nonce + 1
        /\ handed' = handed \cup {new} /\ Reply(c, "signing")
    BY DEF Allocate, MayAllocate, RecordNonce
  <1>2. /\ rows \in 1..MaxRows /\ last_nonce \in 0..MaxNonce
        /\ MaxNonce \in Nat /\ MaxRows \in Nat
        /\ handed \subseteq [row : 1..MaxRows, nonce : 1..MaxNonce, call : Calls]
    BY <1>1, LeaseConstants DEF IInv, TypeOK, HandedInv
  <1>3. new \in [row : 1..MaxRows, nonce : 1..MaxNonce, call : Calls]
    BY <1>1, <1>2
  <1>4. TypeOK'
    <2>1. "signing" \in Where
      BY DEF Where
    <2>2. pc' \in [Calls -> Where] /\ age' \in [Calls -> 0..MaxWait]
      BY <1>1, <2>1, Replying DEF IInv
    <2>3. last_nonce' \in 0..MaxNonce
      BY <1>1, <1>2
    <2> QED
      BY <1>1, <1>2, <1>3, <2>2, <2>3 DEF IInv, TypeOK, Where
  <1>5. \A x \in handed : x.row <= rows /\ (x.row = rows => x.nonce <= last_nonce)
    BY <1>1 DEF IInv, HandedInv, CounterCoversHanded
  <1>6. \A x \in handed' : x.row <= rows' /\ (x.row = rows' => x.nonce <= last_nonce')
    BY <1>1, <1>2, <1>5
  <1>7. UniqueNonce'
    <2>1. \A x \in handed : x.row = new.row => x.nonce # new.nonce
      BY <1>2, <1>5
    <2>2. UniqueNonce
      BY DEF IInv, HandedInv
    <2> QED
      BY <1>1, <2>1, <2>2 DEF UniqueNonce
  <1> QED
    BY <1>1, <1>2, <1>4, <1>6, <1>7 DEF IInv, HandedInv, CounterCoversHanded

\* One step per action.
LEMMA NextInv == IInv /\ [Next]_vars => IInv'
  <1> SUFFICES ASSUME IInv, [Next]_vars PROVE IInv'
    OBVIOUS
  <1>a. TypeOK /\ HandedInv
    BY DEF IInv
  <1>0. CASE UNCHANGED vars
    BY <1>0 DEF vars, lease, IInv, TypeOK, HandedInv, CounterCoversHanded, UniqueNonce
  <1>1. ASSUME NEW c \in Calls, NEW w \in Where, Goto(c, w), UNCHANGED <<lease, handed, alive>>
        PROVE  IInv'
    <2>1. pc' \in [Calls -> Where] /\ age' \in [Calls -> 0..MaxWait]
      BY <1>a, <1>1, Going
    <2> QED
      BY <1>a, <1>1, <2>1
         DEF lease, IInv, TypeOK, HandedInv, CounterCoversHanded, UniqueNonce, Where
  <1>2. ASSUME NEW c \in Calls, Grant(c), UNCHANGED <<row, rows, last_nonce, handed, alive>>
        PROVE  IInv'
    BY <1>a, <1>2, Granting
       DEF IInv, TypeOK, HandedInv, CounterCoversHanded, UniqueNonce, Where
  <1>3. ASSUME NEW c \in Calls, Acquire(c) PROVE IInv'
    <2>1. CASE Grant(c) /\ UNCHANGED <<row, rows, last_nonce, handed, alive>>
      BY <1>2, <2>1
    <2>2. CASE /\ Goto(c, "idle") \/ Goto(c, "inserting")
               /\ UNCHANGED <<lease, handed, alive>>
      BY <1>1, <2>2 DEF Where, InTx
    <2> QED
      BY <1>3, <2>1, <2>2 DEF Acquire, TakeOver, lease
  <1>4. ASSUME NEW c \in Calls, Insert(c) PROVE IInv'
    <2>1. CASE Goto(c, "idle") /\ UNCHANGED <<lease, handed, alive>>
      BY <1>1, <2>1 DEF Where
    <2>2. CASE /\ rows < MaxRows /\ row' = TRUE /\ rows' = rows + 1 /\ last_nonce' = 0
               /\ Grant(c) /\ UNCHANGED <<handed, alive>>
      <3>1. rows \in Nat /\ rows' \in 1..MaxRows /\ last_nonce' \in 0..MaxNonce
        BY <1>a, <2>2, LeaseConstants DEF TypeOK
      <3>2. TypeOK'
        BY <1>a, <2>2, <3>1, Granting, LeaseConstants DEF TypeOK, Where
      <3>3. \A x \in handed : x.row <= rows /\ x.row \in Nat
        BY <1>a DEF HandedInv, TypeOK
      <3>4. \A x \in handed' : x.row <= rows' /\ x.row # rows'
        BY <2>2, <3>1, <3>3
      <3>5. UniqueNonce'
        BY <1>a, <2>2 DEF HandedInv, UniqueNonce
      <3> QED
        BY <2>2, <3>1, <3>2, <3>4, <3>5 DEF IInv, HandedInv, CounterCoversHanded
    <2> QED
      BY <1>4, <2>1, <2>2 DEF Insert
  <1>5. ASSUME NEW c \in Calls, Allocate(c) PROVE IInv'
    <2>1. CASE ~MayAllocate(c)
      BY <1>1, <1>5, <2>1 DEF Allocate, lease, Where
    <2> QED
      BY <1>5, <2>1, Allocating
  <1>6. ASSUME NEW c \in Calls, BeginAcquire(c) \/ BeginAllocate(c) \/ Sign(c) \/ Abort(c)
        PROVE  IInv'
    <2>1. UNCHANGED <<lease, handed, alive>> /\ \E w \in Where : Goto(c, w)
      BY <1>6 DEF BeginAcquire, BeginAllocate, Begin, Sign, Abort, Where, InTx
    <2> QED
      BY <1>1, <2>1
  <1>7. ASSUME NEW c \in Calls, Release(c) PROVE IInv'
    BY <1>a, <1>7
       DEF Release, IInv, TypeOK, HandedInv, CounterCoversHanded, UniqueNonce
  <1>8. ASSUME NEW i \in Instances, Crash(i) PROVE IInv'
    <2>1. /\ alive' \in [Instances -> BOOLEAN]
          /\ pc' \in [Calls -> Where] /\ age' \in [Calls -> 0..MaxWait]
      BY <1>a, <1>8, LeaseConstants DEF Crash, TypeOK, Where
    <2> QED
      BY <1>a, <1>8, <2>1
         DEF Crash, lease, IInv, TypeOK, HandedInv, CounterCoversHanded, UniqueNonce, Where
  <1>9. CASE Tick
    <2>1. left' \in -MaxWait..Duration
      BY <1>a, <1>9, LeaseConstants DEF Tick, TypeOK
    <2>2. age' \in [Calls -> 0..MaxWait]
      BY <1>a, <1>9, LeaseConstants DEF Tick, TypeOK
    <2> QED
      BY <1>a, <1>9, <2>1, <2>2
         DEF Tick, IInv, TypeOK, HandedInv, CounterCoversHanded, UniqueNonce
  <1> QED
    BY <1>0, <1>3, <1>4, <1>5, <1>6, <1>7, <1>8, <1>9 DEF Next, Step

\* The lease's state has its declared types.
THEOREM TypeCorrect == Spec => []TypeOK
  <1>1. IInv => TypeOK
    BY DEF IInv
  <1> QED
    BY <1>1, InitInv, NextInv, PTL DEF Spec

\* No nonce is handed out twice under one row.
THEOREM NoDuplicateNonce == Spec => []UniqueNonce
  <1>1. IInv => UniqueNonce
    BY DEF IInv, HandedInv
  <1> QED
    BY <1>1, InitInv, NextInv, PTL DEF Spec

\* The counter of a row is never behind a nonce handed out under it.
THEOREM CounterNeverBehind == Spec => []CounterCoversHanded
  <1>1. IInv => CounterCoversHanded
    BY DEF IInv, HandedInv
  <1> QED
    BY <1>1, InitInv, NextInv, PTL DEF Spec

\* An unexpired lease is never taken from its holder, however long the
\* acquiring transaction waited.
THEOREM HolderKeepsLease == Spec => NoTakeoverBeforeExpiry
  <1>1. ASSUME IInv, [Next]_vars, row, row', instance_id' # instance_id
        PROVE  left <= 0
    <2>1. PICK c \in Calls : Acquire(c)
      <3>1. CASE UNCHANGED vars
        BY <1>1, <3>1 DEF vars, lease
      <3>2. CASE Tick \/ \E i \in Instances : Crash(i)
        BY <1>1, <3>2 DEF Tick, Crash, lease
      <3>3. ASSUME NEW c \in Calls, Step(c), ~Acquire(c)
            PROVE  FALSE
        BY <1>1, <3>3
           DEF Step, BeginAcquire, BeginAllocate, Begin, Insert, Allocate, Sign, Release,
               Abort, lease
      <3> QED
        BY <1>1, <3>1, <3>2, <3>3 DEF Next
    <2>2. ~Active(c)
      BY <1>1, <2>1 DEF Acquire, Grant, Mine
    <2>3. age[c] \in Nat /\ left \in Int
      BY <1>1, LeaseConstants DEF IInv, TypeOK
    <2> QED
      BY <2>2, <2>3 DEF Active
  <1>2. IInv /\ [Next]_vars =>
            [row /\ row' /\ instance_id' # instance_id => left <= 0]_vars
    BY <1>1
  <1> QED
    BY <1>2, InitInv, NextInv, PTL DEF Spec, NoTakeoverBeforeExpiry

\* A nonce goes only to the instance that holds the row, and is higher than
\* every nonce handed out under it before.
THEOREM HolderAllocates == Spec => OnlyHolderAllocates
  <1>1. ASSUME IInv, [Next]_vars, NEW x \in handed' \ handed
        PROVE  /\ row /\ instance_id = Inst[x.call]
               /\ \A y \in handed : y.row = x.row => y.nonce < x.nonce
    <2>1. PICK c \in Calls : Allocate(c) /\ handed' # handed
      <3>1. CASE UNCHANGED handed
        BY <1>1, <3>1
      <3>2. CASE Tick \/ (\E i \in Instances : Crash(i)) \/ UNCHANGED vars
        BY <1>1, <3>2 DEF Tick, Crash, vars
      <3>3. ASSUME NEW c \in Calls, Step(c), ~Allocate(c)
            PROVE  UNCHANGED handed
        BY <3>3
           DEF Step, BeginAcquire, BeginAllocate, Begin, Acquire, Insert, Sign, Release, Abort
      <3> QED
        BY <1>1, <3>1, <3>2, <3>3 DEF Next
    <2>2. /\ MayAllocate(c)
          /\ x = [row |-> rows, nonce |-> last_nonce + 1, call |-> c]
      BY <1>1, <2>1 DEF Allocate
    <2>3. row /\ instance_id = Inst[x.call]
      BY <2>2 DEF MayAllocate, Mine
    <2>4. \A y \in handed : y.row = rows => y.nonce <= last_nonce
      BY <1>1, <2>3 DEF IInv, HandedInv, CounterCoversHanded
    <2>5. last_nonce \in Nat /\ \A y \in handed : y.nonce \in Nat
      BY <1>1, LeaseConstants DEF IInv, TypeOK
    <2> QED
      BY <2>2, <2>3, <2>4, <2>5
  <1>2. IInv /\ [Next]_vars =>
            [\A x \in handed' \ handed :
                /\ row /\ instance_id = Inst[x.call]
                /\ \A y \in handed : y.row = x.row => y.nonce < x.nonce]_vars
    BY <1>1
  <1> QED
    BY <1>2, InitInv, NextInv, PTL DEF Spec, OnlyHolderAllocates

-----------------------------------------------------------------------------
(* The instances see the service of NonceService.                           *)

\* Neither the row nor the nonces change, and no lease runs out.
Unseen == UNCHANGED <<lease, handed>>

LEMMA Stutters == Unseen => UNCHANGED Service!svars
  BY DEF Unseen, lease, Service!svars

\* A granted lease lasts: the transaction waited less than a term.
LEMMA GrantRuns ==
    ASSUME TypeOK, NEW c \in Calls, Grant(c)
    PROVE  left' > 0 /\ instance_id' = Inst[c] /\ Inst[c] \in Instances
  <1>1. age[c] \in 0..MaxWait /\ left' = Duration - age[c]
    BY DEF TypeOK, Grant
  <1> QED
    BY <1>1, LeaseConstants DEF Grant

\* Acquiring renews the caller's lease or takes over one that has run out, even
\* by the clock of a transaction that has waited.
LEMMA AcquireServes ==
    ASSUME TypeOK, NEW c \in Calls, Acquire(c)
    PROVE  Service!ServiceNext \/ Unseen
  <1>1. UNCHANGED <<row, rows, handed>>
    BY DEF Acquire
  <1>2. ASSUME row, Grant(c), UNCHANGED last_nonce, Mine(c) \/ ~Active(c)
        PROVE  Service!ServiceNext
    <2>1. left' > 0 /\ instance_id' = Inst[c] /\ Inst[c] \in Instances
      BY <1>2, GrantRuns
    <2>2. instance_id = Inst[c] \/ ~(left > 0)
      <3>1. left \in Int /\ age[c] \in Nat
        BY LeaseConstants DEF TypeOK
      <3> QED
        BY <1>2, <3>1 DEF Mine, Active
    <2>3. Service!Extend(Inst[c])
      BY <1>1, <1>2, <2>1, <2>2 DEF Service!Extend
    <2> QED
      BY <2>1, <2>3 DEF Service!ServiceNext
  <1>3. CASE UNCHANGED <<instance_id, left, last_nonce>>
    BY <1>1, <1>3 DEF Unseen, lease
  <1> QED
    BY <1>2, <1>3 DEF Acquire, TakeOver

LEMMA InsertServes ==
    ASSUME TypeOK, NEW c \in Calls, Insert(c)
    PROVE  Service!ServiceNext \/ Unseen
  <1>1. CASE row
    BY <1>1 DEF Insert, Unseen
  <1>2. CASE ~row
    <2>1. /\ row' = TRUE /\ rows' = rows + 1 /\ last_nonce' = 0
          /\ Grant(c) /\ UNCHANGED handed
      BY <1>2 DEF Insert
    <2>2. left' > 0 /\ instance_id' = Inst[c] /\ Inst[c] \in Instances
      BY <2>1, GrantRuns
    <2>3. Service!Begin(Inst[c])
      BY <1>2, <2>1, <2>2 DEF Service!Begin
    <2> QED
      BY <2>2, <2>3 DEF Service!ServiceNext
  <1> QED
    BY <1>1, <1>2

LEMMA AllocateServes ==
    ASSUME NEW c \in Calls, Allocate(c)
    PROVE  Service!ServiceNext \/ Unseen
  <1>1. UNCHANGED <<row, instance_id, left, rows>>
    BY DEF Allocate
  <1>2. CASE ~MayAllocate(c)
    BY <1>1, <1>2 DEF Allocate, Unseen, lease
  <1>3. CASE MayAllocate(c)
    <2>1. /\ row /\ instance_id = Inst[c] /\ last_nonce' = last_nonce + 1
          /\ handed' = handed \cup {[row |-> rows, nonce |-> last_nonce + 1, call |-> c]}
      BY <1>3 DEF Allocate, MayAllocate, Mine, RecordNonce
    <2>2. Service!Issue(c)
      BY <1>1, <2>1 DEF Service!Issue
    <2> QED
      BY <2>2 DEF Service!ServiceNext
  <1> QED
    BY <1>2, <1>3

\* Time runs a lease out, or makes no difference.
LEMMA TickServes ==
    ASSUME TypeOK, Tick
    PROVE  Service!ServiceNext \/ UNCHANGED Service!svars
  <1>1. UNCHANGED <<row, instance_id, rows, last_nonce, handed>>
    BY DEF Tick
  <1>2. left \in Int /\ MaxWait \in Nat /\ left' = IF left > -MaxWait THEN left - 1 ELSE left
    BY LeaseConstants DEF TypeOK, Tick
  <1>3. CASE (row /\ left > 0) /\ ~(row /\ left' > 0)
    <2>1. Service!RunOut
      BY <1>1, <1>3 DEF Service!RunOut
    <2> QED
      BY <2>1 DEF Service!ServiceNext
  <1>4. CASE (row /\ left > 0) <=> (row /\ left' > 0)
    BY <1>1, <1>4 DEF Service!svars
  <1> QED
    BY <1>2, <1>3, <1>4

LEMMA NextServes ==
    ASSUME TypeOK, [Next]_vars
    PROVE  [Service!ServiceNext]_(Service!svars)
  <1>1. CASE UNCHANGED vars
    BY <1>1, Stutters DEF vars, Unseen
  <1>2. ASSUME NEW c \in Calls, Step(c)
        PROVE  Service!ServiceNext \/ UNCHANGED Service!svars
    <2>1. CASE BeginAcquire(c) \/ BeginAllocate(c) \/ Sign(c) \/ Abort(c)
      BY <2>1, Stutters DEF BeginAcquire, BeginAllocate, Begin, Sign, Abort, Unseen
    <2>2. CASE Release(c)
      <3>1. row /\ ~row' /\ UNCHANGED <<rows, last_nonce, handed>>
        BY <2>2 DEF Release
      <3>2. Service!GiveUp
        BY <3>1 DEF Service!GiveUp
      <3> QED
        BY <3>2 DEF Service!ServiceNext
    <2> QED
      BY <1>2, <2>1, <2>2, AcquireServes, InsertServes, AllocateServes, Stutters DEF Step
  <1>3. ASSUME NEW i \in Instances, Crash(i) PROVE UNCHANGED Service!svars
    BY <1>3, Stutters DEF Crash, Unseen
  <1> QED
    BY <1>1, <1>2, <1>3, TickServes DEF Next

\* The lease and its transactions implement the service that issues nonces.
THEOREM KeepsService == Spec => ImplementsService
  <1>1. Init => Service!ServiceInit
    BY DEF Init, Service!ServiceInit
  <1> QED
    BY <1>1, NextServes, TypeCorrect, PTL DEF Spec, ImplementsService, Service!ServiceSpec
=============================================================================
