------------------------ MODULE SettlementQueueProofs ------------------------
(* Invariants of the settlement queue, for any number of concurrent calls    *)
(* and runs, any queue and any limits.                                       *)
EXTENDS SettlementQueue, FiniteSetTheorems, TLAPS

-----------------------------------------------------------------------------
(* Rows and their ranks.                                                    *)

LEMMA FiniteRows == ASSUME NEW S \in SUBSET Ids PROVE IsFiniteSet(S) /\ Cardinality(S) \in Nat
  <1>1. IsFiniteSet(Ids)
    BY FS_Interval, QueueConstants DEF Ids
  <1> QED
    BY <1>1, FS_Subset, FS_CardinalityType

LEMMA FiniteRuns == ASSUME NEW S \in SUBSET Runs PROVE IsFiniteSet(S) /\ Cardinality(S) \in Nat
  BY FS_Subset, FS_CardinalityType, QueueConstants

\* A row with an earlier row in S has a higher rank than that row.
LEMMA RankGrows ==
    ASSUME NEW S \in SUBSET Ids, NEW i \in S, NEW k \in S, i < k
    PROVE  Cardinality({j \in S : j < i}) < Cardinality({j \in S : j < k})
  <1> DEFINE A == {j \in S : j < i}
             B == {j \in S : j < k}
  <1>0. \A j \in S : j \in Int
    BY QueueConstants DEF Ids
  <1>1. A \subseteq B /\ i \in B /\ i \notin A
    BY <1>0
  <1>2. IsFiniteSet(B) /\ Cardinality(A) \in Nat /\ Cardinality(B) \in Nat
    BY FiniteRows
  <1>3. Cardinality(A) <= Cardinality(B) /\ (Cardinality(B) = Cardinality(A) => B = A)
    BY <1>1, <1>2, FS_Subset
  <1>4. Cardinality(A) < Cardinality(B)
    BY <1>1, <1>2, <1>3
  <1> QED
    BY <1>4

\* LIMIT n: ranks of the first n rows are distinct numbers below n.
LEMMA FirstSize ==
    ASSUME NEW n \in Nat, NEW S \in SUBSET Ids
    PROVE  Cardinality(First(n, S)) <= n
  <1> DEFINE F == First(n, S)
             rank == [i \in F |-> Cardinality({j \in S : j < i})]
  <1>0. F \subseteq S /\ \A j \in S : j \in Nat
    BY QueueConstants DEF First, Ids
  <1>1. \A i \in F : rank[i] \in 0..(n-1)
    BY FiniteRows DEF First
  <1>2. rank \in [F -> 0..(n-1)]
    BY <1>1
  <1>3. ASSUME NEW i \in F, NEW k \in F, rank[i] = rank[k] PROVE i = k
    <2>1. i \in Nat /\ k \in Nat /\ i \in S /\ k \in S
      BY <1>0, <1>3
    <2>a. Cardinality({j \in S : j < i}) = Cardinality({j \in S : j < k})
      BY <1>3
    <2>b. Cardinality({j \in S : j < i}) \in Nat
      BY FiniteRows
    <2>2. ASSUME i < k PROVE FALSE
      <3>1. Cardinality({j \in S : j < i}) < Cardinality({j \in S : j < k})
        BY <2>1, <2>2, RankGrows
      <3> QED
        BY <3>1, <2>a, <2>b
    <2>3. ASSUME k < i PROVE FALSE
      <3>1. Cardinality({j \in S : j < k}) < Cardinality({j \in S : j < i})
        BY <2>1, <2>3, RankGrows
      <3> QED
        BY <3>1, <2>a, <2>b
    <2> QED
      BY <2>1, <2>2, <2>3
  <1>4. rank \in Injection(F, 0..(n-1))
    BY <1>2, <1>3 DEF Injection, IsInjective
  <1>5. IsFiniteSet(0..(n-1)) /\ Cardinality(0..(n-1)) = n
    BY FS_Interval
  <1> QED
    BY <1>4, <1>5, FS_Injection

\* ORDER BY: a row is among the first only if every earlier row is.
LEMMA FirstIsOldest ==
    ASSUME NEW n \in Nat, NEW S \in SUBSET Ids, NEW i \in First(n, S), NEW j \in S, j < i
    PROVE  j \in First(n, S)
  <1>1. i \in S /\ Cardinality({k \in S : k < i}) < n
    BY DEF First
  <1>2. Cardinality({k \in S : k < j}) < Cardinality({k \in S : k < i})
    BY <1>1, RankGrows
  <1>3. Cardinality({k \in S : k < j}) \in Nat /\ Cardinality({k \in S : k < i}) \in Nat
    BY FiniteRows
  <1> QED
    BY <1>1, <1>2, <1>3 DEF First

\* Two disjoint sets of runs inside a third one.
LEMMA TwoParts ==
    ASSUME NEW C \in SUBSET Runs, NEW A \in SUBSET C, NEW B \in SUBSET C, A \cap B = {}
    PROVE  Cardinality(A) + Cardinality(B) <= Cardinality(C)
  <1>1. A \in SUBSET Runs /\ B \in SUBSET Runs /\ A \cup B \in SUBSET C
    OBVIOUS
  <1>2. IsFiniteSet(A) /\ IsFiniteSet(B) /\ IsFiniteSet(C)
    BY <1>1, FiniteRuns
  <1>3. Cardinality(A \cup B) = Cardinality(A) + Cardinality(B) - Cardinality(A \cap B)
    BY <1>2, FS_Union
  <1>4. Cardinality(A \cup B) <= Cardinality(C)
    BY <1>1, <1>2, FS_Subset
  <1>5. Cardinality(A \cap B) = 0
    BY FS_EmptySet
  <1>6. Cardinality(A) \in Nat /\ Cardinality(B) \in Nat
    BY <1>1, FiniteRuns
  <1> QED
    BY <1>3, <1>4, <1>5, <1>6

-----------------------------------------------------------------------------
(* Types.                                                                   *)

LEMMA Finishing ==
    ASSUME TypeOK, NEW r \in Runs, Finish(r)
    PROVE  /\ run' \in [Runs -> {"idle", "reading", "sending", "marking"}]
           /\ cutoff' \in [Runs -> 0..rows]
           /\ batch' \in [Runs -> SUBSET (1..rows)]
           /\ inFlight' \in Nat
  <1>1. 0 \in 0..rows
    BY QueueConstants DEF TypeOK
  <1> QED
    BY <1>1 DEF TypeOK, Finish

LEMMA InitType == Init => TypeOK
  BY QueueConstants DEF Init, TypeOK, Ids

LEMMA TypeStep == TypeOK /\ [Next]_vars => TypeOK'
  <1> SUFFICES ASSUME TypeOK, [Next]_vars PROVE TypeOK'
    OBVIOUS
  <1> USE DEF table, calls, history
  <1>0. /\ rows \in Nat /\ rows <= MaxRows /\ MaxRows \in Nat /\ MaxFaults \in Nat
        /\ Pending \in SUBSET (1..rows) /\ due \in 0..rows
    <2>1. rows \in Nat /\ rows <= MaxRows /\ MaxRows \in Nat /\ MaxFaults \in Nat /\ due \in 0..rows
      BY QueueConstants DEF TypeOK
    <2>2. \A i \in Ids : i \in Nat /\ i >= 1 /\ (status[i] = "pending" => ~ (i > rows))
      BY <2>1 DEF TypeOK, Ids
    <2>3. Pending \in SUBSET (1..rows)
      BY <2>1, <2>2 DEF Pending
    <2> QED
      BY <2>1, <2>3
  <1>f. Fault => faults' \in 0..MaxFaults
    BY <1>0 DEF Fault, TypeOK
  <1>1. ASSUME NEW e \in Enqueuers, CheckDepth(e) PROVE TypeOK'
    BY <1>1 DEF TypeOK, CheckDepth
  <1>2. ASSUME NEW e \in Enqueuers, Insert(e) PROVE TypeOK'
    <2>1. /\ enq' \in [Enqueuers -> {"idle", "inserting"}]
          /\ UNCHANGED <<due, calls, history>>
      BY <1>2 DEF Insert, TypeOK
    <2>2. CASE /\ rows < MaxRows
               /\ rows' = rows + 1
               /\ status' = [status EXCEPT ![rows + 1] = "pending"]
               /\ UNCHANGED faults
      <3>1. rows + 1 \in Ids /\ rows' \in 0..MaxRows /\ due' \in 0..rows'
        BY <2>1, <2>2, <1>0 DEF Ids
      <3>2. status' \in [Ids -> {"none", "pending", "submitted", "cancelled"}]
        BY <2>2 DEF TypeOK
      <3>3. \A i \in Ids : status'[i] = "none" <=> i > rows'
        <4>1. \A i \in Ids : i \in Nat /\ (status[i] = "none" <=> i > rows)
          BY <1>0 DEF TypeOK, Ids
        <4>2. \A i \in Ids : status'[i] = IF i = rows + 1 THEN "pending" ELSE status[i]
          BY <2>2, <3>1 DEF TypeOK
        <4> QED
          BY <4>1, <4>2, <2>2, <1>0
      <3>4. cutoff' \in [Runs -> 0..rows'] /\ batch' \in [Runs -> SUBSET (1..rows')]
        <4>1. 0..rows \subseteq 0..rows' /\ 1..rows \subseteq 1..rows'
          BY <2>2, <1>0
        <4> QED
          BY <4>1, <2>1 DEF TypeOK
      <3> QED
        BY <2>1, <2>2, <3>1, <3>2, <3>3, <3>4 DEF TypeOK
    <2>3. CASE Fault /\ UNCHANGED <<rows, status>>
      BY <2>1, <2>3, <1>f DEF TypeOK
    <2> QED
      BY <1>2, <2>2, <2>3 DEF Insert
  <1>3. ASSUME NEW r \in Runs, ReadAged(r) PROVE TypeOK'
    <2>1. First(MaxBatch, Pending \cap (1..due)) \in SUBSET (1..rows)
      BY <1>0 DEF First
    <2>2. batch' \in [Runs -> SUBSET (1..rows)] /\ faults' \in 0..MaxFaults
      BY <1>3, <2>1, <1>f DEF ReadAged, TypeOK
    <2>3. /\ run' \in [Runs -> {"idle", "reading", "sending", "marking"}]
          /\ cutoff' \in [Runs -> 0..rows] /\ inFlight' \in Nat
      BY <1>3, <1>0 DEF ReadAged, TypeOK
    <2> QED
      BY <1>3, <2>2, <2>3 DEF ReadAged, TypeOK
  <1>4. ASSUME NEW r \in Runs, ReadRecent(r) PROVE TypeOK'
    <2>1. First(MaxBatch, Pending) \in SUBSET (1..rows)
      BY <1>0 DEF First
    <2>2. PICK recent \in {First(MaxBatch, Pending), {}} :
            /\ faults' = faults \/ Fault
            /\ LET chosen == Chosen(batch[r], recent)
               IN  IF WorthFlushing(recent, cutoff[r]) /\ chosen # {}
                   THEN /\ run' = [run EXCEPT ![r] = "sending"]
                        /\ batch' = [batch EXCEPT ![r] = chosen]
                        /\ UNCHANGED <<cutoff, inFlight>>
                   ELSE Finish(r)
      BY <1>4 DEF ReadRecent
    <2>3. Chosen(batch[r], recent) \in SUBSET (1..rows)
      BY <2>1, <2>2 DEF Chosen, TypeOK
    <2>4. /\ run' \in [Runs -> {"idle", "reading", "sending", "marking"}]
          /\ cutoff' \in [Runs -> 0..rows]
          /\ batch' \in [Runs -> SUBSET (1..rows)]
          /\ inFlight' \in Nat
      <3>1. CASE Finish(r)
        BY <3>1, Finishing
      <3>2. CASE /\ run' = [run EXCEPT ![r] = "sending"]
                 /\ batch' = [batch EXCEPT ![r] = Chosen(batch[r], recent)]
                 /\ UNCHANGED <<cutoff, inFlight>>
        BY <3>2, <2>3 DEF TypeOK
      <3> QED
        BY <2>2, <3>1, <3>2
    <2>5. faults' \in 0..MaxFaults
      BY <2>2, <1>f DEF TypeOK
    <2> QED
      BY <1>4, <2>4, <2>5 DEF ReadRecent, TypeOK
  <1>5. ASSUME NEW r \in Runs, Send(r) PROVE TypeOK'
    <2>1. sends' \in [Ids -> Nat]
      BY <1>5 DEF Send, TypeOK
    <2> QED
      BY <1>5, <2>1 DEF Send, TypeOK
  <1>6. ASSUME NEW r \in Runs, Mark(r) PROVE TypeOK'
    <2>1. batch[r] \in SUBSET (1..rows)
      BY DEF TypeOK
    <2>2. /\ status' \in [Ids -> {"none", "pending", "submitted", "cancelled"}]
          /\ \A i \in Ids : status'[i] = "none" <=> i > rows
      <3>1. CASE MarkRows(batch[r])
        <4>1. \A i \in Ids : i \in batch[r] => ~ (i > rows)
          BY <2>1, <1>0 DEF Ids
        <4> QED
          BY <3>1, <4>1 DEF MarkRows, TypeOK
      <3> QED
        BY <1>6, <3>1 DEF Mark, TypeOK
    <2>3. unmarked' \in [Ids -> Nat] /\ faults' \in 0..MaxFaults
      BY <1>6, <1>f DEF Mark, TypeOK
    <2> QED
      BY <1>6, <2>2, <2>3, Finishing DEF Mark, TypeOK
  <1>7. ASSUME Cancel PROVE TypeOK'
    <2>1. PICK S \in SUBSET Pending :
            status' = [i \in Ids |-> IF i \in S THEN "cancelled" ELSE status[i]]
      BY <1>7 DEF Cancel
    <2>2. \A i \in Ids : i \in S => ~ (i > rows)
      BY <1>0 DEF Ids
    <2>3. /\ status' \in [Ids -> {"none", "pending", "submitted", "cancelled"}]
          /\ \A i \in Ids : status'[i] = "none" <=> i > rows
      BY <2>1, <2>2 DEF TypeOK
    <2> QED
      BY <1>7, <2>3 DEF Cancel, TypeOK
  <1>8. ASSUME Age PROVE TypeOK'
    <2>1. due' \in 0..rows
      BY <1>8, <1>0 DEF Age
    <2> QED
      BY <1>8, <2>1 DEF Age, TypeOK
  <1>9. ASSUME Restart PROVE TypeOK'
    <2>1. \A i \in Ids : Cardinality(Holding(i)) \in Nat
      BY FiniteRuns DEF Holding
    <2>2. unmarked' \in [Ids -> Nat]
      BY <1>9, <2>1 DEF Restart, TypeOK
    <2>3. 0 \in 0..rows /\ faults' \in 0..MaxFaults
      BY <1>9, <1>0, <1>f DEF Restart
    <2> QED
      BY <1>9, <2>2, <2>3 DEF Restart, TypeOK
  <1>10. CASE UNCHANGED vars
    BY <1>10 DEF vars, TypeOK
  <1> QED
    BY <1>1, <1>2, <1>3, <1>4, <1>5, <1>6, <1>7, <1>8, <1>9, <1>10 DEF Next, Step

\* Every variable keeps its type; row numbers, cutoffs and batches stay within
\* the rows that exist.
THEOREM TypeCorrect == Spec => []TypeOK
  BY InitType, TypeStep, PTL DEF Spec

-----------------------------------------------------------------------------
(* The in-flight counter: a run leaves Busy exactly when it is counted down. *)

LEMMA BusyType == Busy \in SUBSET Runs /\ IsFiniteSet(Busy) /\ Cardinality(Busy) \in Nat
  BY FiniteRuns DEF Busy

LEMMA FinishCounts ==
    ASSUME TypeOK, InFlightExact, NEW r \in Runs, run[r] # "idle", Finish(r)
    PROVE  InFlightExact'
  <1>1. Busy' = Busy \ {r} /\ r \in Busy
    BY DEF Busy, Finish, TypeOK
  <1>2. Cardinality(Busy') = Cardinality(Busy) - 1
    BY <1>1, BusyType, FS_RemoveElement
  <1>3. inFlight = Cardinality(Busy) /\ inFlight <= MaxInFlight
    BY DEF InFlightExact
  <1>4. Cardinality(Busy) # 0
    BY <1>1, BusyType, FS_EmptySet
  <1>5. inFlight' = inFlight - 1
    BY <1>3, <1>4, BusyType DEF Finish
  <1> QED
    BY <1>2, <1>3, <1>5, BusyType, QueueConstants DEF InFlightExact

LEMMA InFlightStep == TypeOK /\ InFlightExact /\ [Next]_vars => InFlightExact'
  <1> SUFFICES ASSUME TypeOK, InFlightExact, [Next]_vars PROVE InFlightExact'
    OBVIOUS
  <1> USE DEF calls
  <1>1. ASSUME NEW r \in Runs, ReadAged(r) PROVE InFlightExact'
    <2>1. Busy' = Busy \cup {r} /\ r \notin Busy
      BY <1>1 DEF ReadAged, Busy, TypeOK
    <2>2. Cardinality(Busy') = Cardinality(Busy) + 1
      BY <2>1, BusyType, FS_AddElement
    <2>3. inFlight' = inFlight + 1 /\ inFlight < MaxInFlight
      BY <1>1 DEF ReadAged, CapFree
    <2> QED
      BY <2>2, <2>3, QueueConstants DEF InFlightExact, TypeOK
  <1>2. ASSUME NEW r \in Runs, ReadRecent(r) PROVE InFlightExact'
    <2>1. CASE Finish(r)
      BY <1>2, <2>1, FinishCounts DEF ReadRecent
    <2>2. CASE run' = [run EXCEPT ![r] = "sending"] /\ UNCHANGED inFlight
      <3>1. Busy' = Busy
        BY <1>2, <2>2 DEF ReadRecent, Busy, TypeOK
      <3> QED
        BY <3>1, <2>2 DEF InFlightExact
    <2> QED
      BY <1>2, <2>1, <2>2 DEF ReadRecent
  <1>3. ASSUME NEW r \in Runs, Send(r) PROVE InFlightExact'
    <2>1. Busy' = Busy
      BY <1>3 DEF Send, Busy, TypeOK
    <2> QED
      BY <1>3, <2>1 DEF Send, InFlightExact
  <1>4. ASSUME NEW r \in Runs, Mark(r) PROVE InFlightExact'
    BY <1>4, FinishCounts DEF Mark
  <1>5. ASSUME Restart PROVE InFlightExact'
    <2>1. Busy' = {} /\ inFlight' = 0
      BY <1>5 DEF Restart, Busy
    <2> QED
      BY <2>1, FS_EmptySet, QueueConstants DEF InFlightExact
  <1>6. ASSUME UNCHANGED <<run, inFlight>> PROVE InFlightExact'
    BY <1>6 DEF InFlightExact, Busy
  <1> QED
    BY <1>1, <1>2, <1>3, <1>4, <1>5, <1>6
       DEF Next, Step, CheckDepth, Insert, Cancel, Age, vars

\* The counter always tells how many runs are active and never exceeds its cap,
\* for any number of runs, restarts and failures.
THEOREM CounterExact == Spec => []InFlightExact
  <1>1. Init => InFlightExact
    BY FS_EmptySet, QueueConstants DEF Init, InFlightExact, Busy
  <1> QED
    BY <1>1, InFlightStep, TypeCorrect, PTL DEF Spec

-----------------------------------------------------------------------------
(* The depth of the queue: every call that is about to insert has counted.   *)

DepthInv ==
    Pending # {} \/ Inserting # {} =>
        Cardinality(Pending) + Cardinality(Inserting) < MaxDepth + Cardinality(Enqueuers)

LEMMA DepthTypes ==
    /\ Pending \in SUBSET Ids /\ IsFiniteSet(Pending) /\ Cardinality(Pending) \in Nat
    /\ Inserting \in SUBSET Enqueuers /\ IsFiniteSet(Inserting)
    /\ Cardinality(Inserting) \in Nat
    /\ Cardinality(Inserting) <= Cardinality(Enqueuers)
    /\ Cardinality(Enqueuers) \in Nat
  <1>1. Pending \in SUBSET Ids /\ Inserting \in SUBSET Enqueuers
    BY DEF Pending, Inserting
  <1> QED
    BY <1>1, FiniteRows, FS_Subset, FS_CardinalityType, QueueConstants

\* Nothing becomes pending and nobody starts to insert: the bound still holds.
LEMMA DepthShrinks ==
    ASSUME DepthInv, Pending' \in SUBSET Pending, Inserting' \in SUBSET Inserting
    PROVE  DepthInv'
  <1>1. /\ Cardinality(Pending') <= Cardinality(Pending) /\ Cardinality(Pending') \in Nat
        /\ Cardinality(Inserting') <= Cardinality(Inserting) /\ Cardinality(Inserting') \in Nat
    BY DepthTypes, FS_Subset, FS_CardinalityType
  <1> QED
    BY <1>1, DepthTypes, QueueConstants DEF DepthInv

LEMMA DepthStep == TypeOK /\ DepthInv /\ [Next]_vars => DepthInv'
  <1> SUFFICES ASSUME TypeOK, DepthInv, [Next]_vars PROVE DepthInv'
    OBVIOUS
  <1> USE DEF table, calls, history
  <1>1. ASSUME NEW e \in Enqueuers, CheckDepth(e) PROVE DepthInv'
    <2>1. Pending' = Pending /\ Cardinality(Pending) < MaxDepth
      BY <1>1 DEF CheckDepth, Pending
    <2>2. Inserting' \in SUBSET Enqueuers
      BY DEF Inserting
    <2>3. Cardinality(Inserting') <= Cardinality(Enqueuers) /\ Cardinality(Inserting') \in Nat
      BY <2>2, FS_Subset, FS_CardinalityType, QueueConstants
    <2> QED
      BY <2>1, <2>3, DepthTypes, QueueConstants DEF DepthInv
  <1>2. ASSUME NEW e \in Enqueuers, Insert(e) PROVE DepthInv'
    <2>1. Inserting' = Inserting \ {e} /\ e \in Inserting
      BY <1>2 DEF Insert, Inserting, TypeOK
    <2>2. CASE /\ rows < MaxRows
               /\ status' = [status EXCEPT ![rows + 1] = "pending"]
      <3>1. rows + 1 \in Ids
        BY <2>2, QueueConstants DEF Ids, TypeOK
      <3>2. Pending' = Pending \cup {rows + 1}
        BY <2>2, <3>1 DEF Pending, TypeOK
      <3>3. Cardinality(Pending') <= Cardinality(Pending) + 1 /\ Cardinality(Pending') \in Nat
        <4>1. /\ IsFiniteSet(Pending \cup {rows + 1})
              /\ Cardinality(Pending \cup {rows + 1}) =
                    IF rows + 1 \in Pending THEN Cardinality(Pending) ELSE Cardinality(Pending) + 1
          BY DepthTypes, FS_AddElement
        <4>2. Cardinality(Pending \cup {rows + 1}) \in Nat
          BY <4>1, FS_CardinalityType
        <4> QED
          BY <3>2, <4>1, <4>2, DepthTypes
      <3>4. Cardinality(Inserting') = Cardinality(Inserting) - 1
        BY <2>1, DepthTypes, FS_RemoveElement
      <3>5. Cardinality(Pending) + Cardinality(Inserting) < MaxDepth + Cardinality(Enqueuers)
        BY <2>1 DEF DepthInv
      <3> QED
        BY <3>3, <3>4, <3>5, DepthTypes, QueueConstants DEF DepthInv
    <2>3. CASE UNCHANGED status
      BY <2>1, <2>3, DepthShrinks DEF Pending
    <2> QED
      BY <1>2, <2>2, <2>3 DEF Insert
  <1>3. ASSUME NEW r \in Runs, Mark(r) PROVE DepthInv'
    <2>1. Pending' \in SUBSET Pending
      BY <1>3 DEF Mark, MarkRows, Pending, TypeOK
    <2> QED
      BY <1>3, <2>1, DepthShrinks DEF Mark, Inserting
  <1>4. ASSUME Cancel PROVE DepthInv'
    <2>1. Pending' \in SUBSET Pending
      BY <1>4 DEF Cancel, Pending, TypeOK
    <2> QED
      BY <1>4, <2>1, DepthShrinks DEF Cancel, Inserting
  <1>5. ASSUME Restart PROVE DepthInv'
    BY <1>5, DepthShrinks DEF Restart, Pending, Inserting
  <1>6. ASSUME UNCHANGED <<status, enq>> PROVE DepthInv'
    BY <1>6 DEF DepthInv, Pending, Inserting
  <1> QED
    BY <1>1, <1>2, <1>3, <1>4, <1>5, <1>6
       DEF Next, Step, ReadAged, ReadRecent, Send, Age, vars

\* The cap on the depth is exceeded by less than the number of enqueue calls
\* that can run at once, whatever the interleaving of counts and inserts.
THEOREM DepthOvershoot == Spec => []DepthBounded
  <1>1. Init => DepthInv
    <2>1. Init => Pending = {} /\ Inserting = {}
      BY DEF Init, Pending, Inserting
    <2> QED
      BY <2>1 DEF DepthInv
  <1>2. DepthInv => DepthBounded
    <2>1. CASE Pending = {} /\ Inserting = {}
      <3>1. Cardinality(Pending) = 0 /\ Cardinality(Inserting) = 0
        BY <2>1, FS_EmptySet
      <3> QED
        BY <3>1, DepthTypes, QueueConstants DEF DepthBounded
    <2>2. CASE Pending # {} \/ Inserting # {}
      BY <2>2 DEF DepthInv, DepthBounded
    <2> QED
      BY <2>1, <2>2
  <1> QED
    BY <1>1, <1>2, DepthStep, TypeCorrect, PTL DEF Spec

-----------------------------------------------------------------------------
(* Oldest first.                                                            *)

\* S is a batch that leaves no older pending row behind.
Oldest(S) ==
    /\ Cardinality(S) <= MaxBatch
    /\ \A i \in S, j \in Pending : j < i => j \in S

ReadInv ==
    \A r \in Runs :
        /\ run[r] = "idle" => batch[r] = {}
        /\ run[r] \in {"reading", "sending"} => Oldest(batch[r])
        /\ run[r] = "sending" => batch[r] # {}

LEMMA PendingRows == TypeOK => Pending \in SUBSET (1..rows) /\ Pending \in SUBSET Ids
  <1> SUFFICES ASSUME TypeOK PROVE Pending \in SUBSET (1..rows) /\ Pending \in SUBSET Ids
    OBVIOUS
  <1>1. rows \in Nat /\ MaxRows \in Nat
    BY QueueConstants DEF TypeOK
  <1>2. \A i \in Ids : i \in Nat /\ i >= 1 /\ (status[i] = "pending" => ~ (i > rows))
    BY <1>1 DEF TypeOK, Ids
  <1> QED
    BY <1>1, <1>2 DEF Pending

\* What either query returns, however much of the table it looks at.
LEMMA QueryIsOldest ==
    ASSUME TypeOK, NEW n \in Nat
    PROVE  Oldest(First(MaxBatch, Pending \cap (1..n)))
  <1> DEFINE S == Pending \cap (1..n)
  <1>1. S \in SUBSET Ids /\ MaxBatch \in Nat
    BY PendingRows, QueueConstants
  <1>2. Cardinality(First(MaxBatch, S)) <= MaxBatch
    BY <1>1, FirstSize
  <1>3. ASSUME NEW i \in First(MaxBatch, S), NEW j \in Pending, j < i
        PROVE  j \in First(MaxBatch, S)
    <2>1. i \in S /\ j \in Ids
      BY <1>1, PendingRows DEF First
    <2>2. i \in 1..n /\ j \in Nat /\ j >= 1
      BY <2>1, QueueConstants DEF Ids
    <2>3. j \in S
      BY <2>2, <1>3
    <2> QED
      BY <1>1, <1>3, <2>3, FirstIsOldest
  <1> QED
    BY <1>2, <1>3 DEF Oldest

LEMMA RecentIsOldest == TypeOK => Oldest(First(MaxBatch, Pending))
  <1> SUFFICES ASSUME TypeOK PROVE Oldest(First(MaxBatch, Pending))
    OBVIOUS
  <1>1. Pending \cap (1..rows) = Pending /\ rows \in Nat
    BY PendingRows, QueueConstants DEF TypeOK
  <1> QED
    BY <1>1, QueryIsOldest

LEMMA EmptyIsOldest == Oldest({})
  BY FS_EmptySet, QueueConstants DEF Oldest

LEMMA ReadStep == TypeOK /\ ReadInv /\ [Next]_vars => ReadInv'
  <1> SUFFICES ASSUME TypeOK, ReadInv, [Next]_vars PROVE ReadInv'
    OBVIOUS
  <1> USE DEF table, calls, history
  <1>1. ASSUME Pending' \in SUBSET (Pending \cup {rows + 1}), UNCHANGED <<run, batch>>
        PROVE  ReadInv'
    <2>1. \A r \in Runs : batch[r] \in SUBSET (1..rows)
      BY DEF TypeOK
    <2>2. \A r \in Runs : Oldest(batch[r]) => Oldest(batch[r])'
      <3>1. TAKE r \in Runs
      <3>2. HAVE Oldest(batch[r])
      <3>3. \A i \in batch[r] : i \in 1..rows /\ rows \in Nat
        BY <2>1 DEF TypeOK
      <3> QED
        BY <3>2, <3>3, <1>1 DEF Oldest
    <2> QED
      BY <1>1, <2>2 DEF ReadInv
  <1>2. ASSUME NEW r \in Runs, run[r] # "idle", Finish(r),
               Pending' \in SUBSET Pending
        PROVE  ReadInv'
    <2>1. /\ run'[r] = "idle" /\ batch'[r] = {}
          /\ \A q \in Runs : q # r => run'[q] = run[q] /\ batch'[q] = batch[q]
      BY <1>2 DEF Finish, TypeOK
    <2>2. \A q \in Runs : q # r /\ Oldest(batch[q]) => Oldest(batch[q])'
      BY <1>2, <2>1 DEF Oldest
    <2> QED
      BY <2>1, <2>2 DEF ReadInv
  <1>3. ASSUME NEW e \in Enqueuers, Insert(e) PROVE ReadInv'
    <2>1. Pending' \in SUBSET (Pending \cup {rows + 1})
      BY <1>3 DEF Insert, Pending, TypeOK
    <2> QED
      BY <1>3, <1>1, <2>1 DEF Insert
  <1>4. ASSUME NEW r \in Runs, ReadAged(r) PROVE ReadInv'
    <2>1. batch'[r] = First(MaxBatch, Pending \cap (1..due)) \/ batch'[r] = {}
      BY <1>4 DEF ReadAged, ReadInv, TypeOK
    <2>2. Oldest(batch'[r])
      <3>1. due \in Nat
        BY QueueConstants DEF TypeOK
      <3>2. Oldest(First(MaxBatch, Pending \cap (1..due)))
        BY <3>1, QueryIsOldest
      <3> QED
        BY <2>1, <3>2, EmptyIsOldest
    <2>3. /\ run'[r] = "reading" /\ Pending' = Pending
          /\ \A q \in Runs : q # r => run'[q] = run[q] /\ batch'[q] = batch[q]
      BY <1>4 DEF ReadAged, TypeOK, Pending
    <2> QED
      BY <2>2, <2>3 DEF ReadInv, Oldest
  <1>5. ASSUME NEW r \in Runs, ReadRecent(r) PROVE ReadInv'
    <2>1. Pending' = Pending /\ run[r] = "reading"
      BY <1>5 DEF ReadRecent, Pending
    <2>2. CASE Finish(r)
      BY <2>1, <2>2, <1>2
    <2>3. CASE ~ Finish(r)
      <3>1. PICK recent \in {First(MaxBatch, Pending), {}} :
              /\ Chosen(batch[r], recent) # {}
              /\ run' = [run EXCEPT ![r] = "sending"]
              /\ batch' = [batch EXCEPT ![r] = Chosen(batch[r], recent)]
        BY <1>5, <2>3 DEF ReadRecent
      <3>2. Oldest(Chosen(batch[r], recent))
        BY <2>1, <3>1, RecentIsOldest, EmptyIsOldest DEF Chosen, ReadInv
      <3>3. /\ run'[r] = "sending" /\ batch'[r] = Chosen(batch[r], recent)
            /\ \A q \in Runs : q # r => run'[q] = run[q] /\ batch'[q] = batch[q]
        BY <3>1 DEF TypeOK
      <3> QED
        BY <2>1, <3>1, <3>2, <3>3 DEF ReadInv, Oldest
    <2> QED
      BY <2>2, <2>3
  <1>6. ASSUME NEW r \in Runs, Send(r) PROVE ReadInv'
    <2>1. /\ run'[r] = "marking" /\ batch' = batch /\ Pending' = Pending
          /\ \A q \in Runs : q # r => run'[q] = run[q]
      BY <1>6 DEF Send, TypeOK, Pending
    <2> QED
      BY <2>1 DEF ReadInv, Oldest
  <1>7. ASSUME NEW r \in Runs, Mark(r) PROVE ReadInv'
    <2>1. Pending' \in SUBSET Pending
      BY <1>7 DEF Mark, MarkRows, Pending, TypeOK
    <2> QED
      BY <1>7, <2>1, <1>2 DEF Mark
  <1>8. ASSUME Cancel PROVE ReadInv'
    <2>1. Pending' \in SUBSET Pending
      BY <1>8 DEF Cancel, Pending, TypeOK
    <2> QED
      BY <1>8, <2>1, <1>1 DEF Cancel
  <1>9. ASSUME Restart PROVE ReadInv'
    BY <1>9 DEF Restart, ReadInv
  <1>10. ASSUME UNCHANGED <<status, run, batch>> PROVE ReadInv'
    BY <1>10, <1>1 DEF Pending
  <1> QED
    BY <1>3, <1>4, <1>5, <1>6, <1>7, <1>8, <1>9, <1>10
       DEF Next, Step, CheckDepth, Age, vars

LEMMA ReadHolds == Spec => []ReadInv
  <1>1. Init => ReadInv
    BY DEF Init, ReadInv
  <1> QED
    BY <1>1, ReadStep, TypeCorrect, PTL DEF Spec

\* No run overtakes: its batch is within the limit and contains every pending
\* row older than any of its rows, also when the table changed between its
\* queries or one of them failed.
THEOREM OldestFirst == Spec => []NoOvertaking
  <1>1. ReadInv => NoOvertaking
    BY DEF ReadInv, Oldest, NoOvertaking
  <1> QED
    BY <1>1, ReadHolds, PTL

-----------------------------------------------------------------------------
(* Sends.  A row that may still be read was sent only by runs that are      *)
(* marking it or failed to; one that may not, by those and by the runs that *)
(* read it while it was pending, at most one in each slot of the cap.       *)

Unsent(i) == {r \in Runs : run[r] \in {"reading", "sending"} /\ i \in batch[r]}

SentPending(i) ==
    status[i] \in {"none", "pending"} => sends[i] <= unmarked[i] + Cardinality(Holding(i))
SentAny(i) == sends[i] + Cardinality(Unsent(i)) <= unmarked[i] + MaxInFlight

SentInv == \A i \in Ids : SentPending(i) /\ SentAny(i)

LEMMA HoldTypes ==
    \A i \in Ids :
        /\ Holding(i) \in SUBSET Runs /\ IsFiniteSet(Holding(i)) /\ Cardinality(Holding(i)) \in Nat
        /\ Unsent(i) \in SUBSET Runs /\ IsFiniteSet(Unsent(i)) /\ Cardinality(Unsent(i)) \in Nat
  <1>1. \A i \in Ids : Holding(i) \in SUBSET Runs /\ Unsent(i) \in SUBSET Runs
    BY DEF Holding, Unsent
  <1> QED
    BY <1>1, FiniteRuns

\* Sends, marks and the runs that hold a row fit in the slots of the cap.
LEMMA SlotsSuffice ==
    ASSUME NEW i \in Ids, TypeOK', InFlightExact', SentPending(i)',
           status'[i] \in {"none", "pending"}
    PROVE  SentAny(i)'
  <1>1. /\ Busy' \in SUBSET Runs /\ Holding(i)' \in SUBSET (Busy') /\ Unsent(i)' \in SUBSET (Busy')
        /\ Holding(i)' \cap Unsent(i)' = {}
    BY DEF Busy, Holding, Unsent
  <1>2. Cardinality(Holding(i)') + Cardinality(Unsent(i)') <= Cardinality(Busy')
    BY <1>1, TwoParts
  <1>3. Cardinality(Busy') <= MaxInFlight /\ Cardinality(Busy') \in Nat
    BY <1>1, FiniteRuns DEF InFlightExact
  <1>4. sends'[i] <= unmarked'[i] + Cardinality(Holding(i)')
    BY DEF SentPending
  <1>5. /\ sends'[i] \in Nat /\ unmarked'[i] \in Nat
        /\ Cardinality(Holding(i)') \in Nat /\ Cardinality(Unsent(i)') \in Nat
    BY <1>1, FiniteRuns DEF TypeOK
  <1> QED
    BY <1>2, <1>3, <1>4, <1>5, QueueConstants DEF SentAny

\* A step that neither sends the row nor lets another run read it.
LEMMA AnyKept ==
    ASSUME NEW i \in Ids, TypeOK, TypeOK', SentAny(i), Unsent(i)' \in SUBSET Unsent(i),
           sends'[i] = sends[i], unmarked'[i] >= unmarked[i]
    PROVE  SentAny(i)'
  <1>1. Cardinality(Unsent(i)') <= Cardinality(Unsent(i)) /\ Cardinality(Unsent(i)') \in Nat
    BY HoldTypes, FS_Subset, FS_CardinalityType
  <1>2. sends[i] \in Nat /\ unmarked[i] \in Nat /\ unmarked'[i] \in Nat
    BY DEF TypeOK
  <1> QED
    BY <1>1, <1>2, HoldTypes, QueueConstants DEF SentAny

\* A step that leaves the sends of a row and the runs marking it alone.
LEMMA PendingKept ==
    ASSUME NEW i \in Ids, SentPending(i), Holding(i)' = Holding(i),
           sends'[i] = sends[i], unmarked'[i] = unmarked[i],
           status'[i] \in {"none", "pending"} => status[i] \in {"none", "pending"}
    PROVE  SentPending(i)'
  BY DEF SentPending

LEMMA QuietSends ==
    ASSUME TypeOK, TypeOK', SentInv, UNCHANGED <<run, batch, sends, unmarked>>,
           \A i \in Ids : status'[i] \in {"none", "pending"} => status[i] \in {"none", "pending"}
    PROVE  SentInv'
  <1> SUFFICES ASSUME NEW i \in Ids PROVE SentPending(i)' /\ SentAny(i)'
    BY DEF SentInv
  <1>1. Holding(i)' = Holding(i) /\ Unsent(i)' = Unsent(i)
    BY DEF Holding, Unsent
  <1>2. unmarked'[i] >= unmarked[i]
    BY DEF TypeOK
  <1>3. SentPending(i) /\ SentAny(i)
    BY DEF SentInv
  <1> QED
    BY <1>1, <1>2, <1>3, PendingKept, AnyKept

\* A run that has just read the table holds only pending rows or rows it held.
LEMMA ReadingSends ==
    ASSUME TypeOK, TypeOK', SentInv, InFlightExact', NEW r \in Runs, run[r] \in {"idle", "reading"},
           run'[r] \in {"idle", "reading", "sending"},
           \A q \in Runs : q # r => run'[q] = run[q] /\ batch'[q] = batch[q],
           run[r] = "reading" \/ batch[r] = {},
           batch'[r] \in SUBSET Pending \/ batch'[r] \in SUBSET batch[r],
           UNCHANGED <<status, sends, unmarked>>
    PROVE  SentInv'
  <1> SUFFICES ASSUME NEW i \in Ids PROVE SentPending(i)' /\ SentAny(i)'
    BY DEF SentInv
  <1>1. Holding(i)' = Holding(i)
    BY DEF Holding
  <1>2. SentPending(i)'
    BY <1>1, PendingKept DEF SentInv
  <1>3. CASE status'[i] \in {"none", "pending"}
    BY <1>2, <1>3, SlotsSuffice
  <1>4. CASE status'[i] \notin {"none", "pending"}
    <2>1. Unsent(i)' \in SUBSET Unsent(i)
      BY <1>4 DEF Unsent, Pending
    <2>2. unmarked'[i] >= unmarked[i] /\ SentAny(i)
      BY DEF TypeOK, SentInv
    <2> QED
      BY <1>2, <2>1, <2>2, AnyKept
  <1> QED
    BY <1>2, <1>3, <1>4

LEMMA SendSends ==
    ASSUME TypeOK, TypeOK', SentInv, InFlightExact', NEW r \in Runs, Send(r)
    PROVE  SentInv'
  <1> SUFFICES ASSUME NEW i \in Ids PROVE SentPending(i)' /\ SentAny(i)'
    BY DEF SentInv
  <1>1. /\ run[r] = "sending" /\ run'[r] = "marking" /\ batch' = batch
        /\ \A q \in Runs : q # r => run'[q] = run[q]
        /\ status' = status /\ unmarked' = unmarked
    BY DEF Send, table, TypeOK
  <1>2. sends[i] \in Nat /\ unmarked[i] \in Nat /\ SentPending(i) /\ SentAny(i)
    BY DEF SentInv, TypeOK
  <1>3. CASE i \in batch[r]
    <2>1. sends'[i] = sends[i] \/ sends'[i] = sends[i] + 1
      BY DEF Send, TypeOK
    <2>2. Holding(i)' = Holding(i) \cup {r} /\ r \notin Holding(i)
      BY <1>1, <1>3 DEF Holding
    <2>3. Unsent(i)' = Unsent(i) \ {r} /\ r \in Unsent(i)
      BY <1>1, <1>3 DEF Unsent
    <2>4. Cardinality(Holding(i)') = Cardinality(Holding(i)) + 1
      BY <2>2, HoldTypes, FS_AddElement
    <2>5. Cardinality(Unsent(i)') = Cardinality(Unsent(i)) - 1
      BY <2>3, HoldTypes, FS_RemoveElement
    <2>6. SentPending(i)'
      BY <1>1, <1>2, <2>1, <2>4, HoldTypes DEF SentPending
    <2>7. SentAny(i)'
      BY <1>1, <1>2, <2>1, <2>5, HoldTypes, QueueConstants DEF SentAny
    <2> QED
      BY <2>6, <2>7
  <1>4. CASE i \notin batch[r]
    <2>1. sends'[i] = sends[i]
      BY <1>4 DEF Send, TypeOK
    <2>2. Holding(i)' = Holding(i) /\ Unsent(i)' = Unsent(i)
      BY <1>1, <1>4 DEF Holding, Unsent
    <2> QED
      BY <1>1, <1>2, <2>1, <2>2, PendingKept, AnyKept
  <1> QED
    BY <1>3, <1>4

LEMMA MarkSends ==
    ASSUME TypeOK, TypeOK', SentInv, NEW r \in Runs, Mark(r)
    PROVE  SentInv'
  <1> SUFFICES ASSUME NEW i \in Ids PROVE SentPending(i)' /\ SentAny(i)'
    BY DEF SentInv
  <1>1. /\ run[r] = "marking" /\ run'[r] = "idle" /\ batch'[r] = {} /\ sends' = sends
        /\ \A q \in Runs : q # r => run'[q] = run[q] /\ batch'[q] = batch[q]
    BY DEF Mark, Finish, TypeOK
  <1>2. sends[i] \in Nat /\ unmarked[i] \in Nat /\ SentPending(i) /\ SentAny(i)
    BY DEF SentInv, TypeOK
  <1>3. Unsent(i)' \in SUBSET Unsent(i) /\ Holding(i)' = Holding(i) \ {r}
    BY <1>1 DEF Unsent, Holding
  <1>4. CASE MarkRows(batch[r]) /\ UNCHANGED unmarked
    <2>1. SentAny(i)'
      BY <1>1, <1>2, <1>3, <1>4, AnyKept
    <2>2. CASE i \in batch[r]
      <3>1. status'[i] = "submitted"
        BY <1>4, <2>2 DEF MarkRows
      <3> QED
        BY <2>1, <3>1 DEF SentPending
    <2>3. CASE i \notin batch[r]
      <3>1. Holding(i)' = Holding(i) /\ status'[i] = status[i]
        BY <1>3, <1>4, <2>3 DEF Holding, MarkRows, TypeOK
      <3> QED
        BY <1>1, <1>2, <1>4, <2>1, <3>1, PendingKept
    <2> QED
      BY <2>2, <2>3
  <1>5. CASE /\ unmarked' = [j \in Ids |-> IF j \in batch[r] THEN unmarked[j] + 1 ELSE unmarked[j]]
             /\ UNCHANGED status
    <2>1. unmarked'[i] >= unmarked[i]
      BY <1>2, <1>5
    <2>2. SentAny(i)'
      BY <1>1, <1>2, <1>3, <2>1, AnyKept
    <2>3. CASE i \in batch[r]
      <3>1. unmarked'[i] = unmarked[i] + 1
        BY <1>5, <2>3
      <3>2. Cardinality(Holding(i)') >= Cardinality(Holding(i)) - 1 /\ Cardinality(Holding(i)') \in Nat
        <4>1. IsFiniteSet(Holding(i)) /\ Cardinality(Holding(i)) \in Nat
          BY HoldTypes
        <4>2. /\ IsFiniteSet(Holding(i) \ {r})
              /\ Cardinality(Holding(i) \ {r}) = IF r \in Holding(i)
                     THEN Cardinality(Holding(i)) - 1 ELSE Cardinality(Holding(i))
          BY <4>1, FS_RemoveElement
        <4>3. Cardinality(Holding(i) \ {r}) \in Nat
          BY <4>2, FS_CardinalityType
        <4> QED
          BY <1>3, <4>1, <4>2, <4>3
      <3>3. sends'[i] = sends[i] /\ status'[i] = status[i]
        BY <1>1, <1>5
      <3>4. sends[i] \in Nat /\ unmarked[i] \in Nat /\ Cardinality(Holding(i)) \in Nat
        BY HoldTypes DEF TypeOK
      <3>5. unmarked[i] + Cardinality(Holding(i)) <= unmarked'[i] + Cardinality(Holding(i)')
        BY <3>1, <3>2, <3>4
      <3>6. CASE status[i] \in {"none", "pending"}
        <4>1. sends[i] <= unmarked[i] + Cardinality(Holding(i))
          BY <1>2, <3>6 DEF SentPending
        <4>2. sends'[i] <= unmarked'[i] + Cardinality(Holding(i)')
          BY <4>1, <3>1, <3>2, <3>3, <3>4, <3>5
        <4> QED
          BY <2>2, <4>2 DEF SentPending
      <3> QED
        BY <2>2, <3>3, <3>6 DEF SentPending
    <2>4. CASE i \notin batch[r]
      <3>1. Holding(i)' = Holding(i) /\ unmarked'[i] = unmarked[i]
        BY <1>3, <1>5, <2>4 DEF Holding
      <3> QED
        BY <1>1, <1>2, <1>5, <2>2, <3>1, PendingKept
    <2> QED
      BY <2>3, <2>4
  <1> QED
    BY <1>4, <1>5 DEF Mark

LEMMA RestartSends ==
    ASSUME TypeOK, TypeOK', SentInv, Restart
    PROVE  SentInv'
  <1> SUFFICES ASSUME NEW i \in Ids PROVE SentPending(i)' /\ SentAny(i)'
    BY DEF SentInv
  <1>1. /\ unmarked'[i] = unmarked[i] + Cardinality(Holding(i))
        /\ sends'[i] = sends[i] /\ status'[i] = status[i]
    BY DEF Restart, table
  <1>2. Holding(i)' = {} /\ Unsent(i)' = {}
    BY DEF Restart, Holding, Unsent
  <1>3. sends[i] \in Nat /\ unmarked[i] \in Nat /\ SentPending(i) /\ SentAny(i)
    BY DEF SentInv, TypeOK
  <1>4. Cardinality(Holding(i)') = 0
    BY <1>2, FS_EmptySet
  <1>5. SentPending(i)'
    BY <1>1, <1>3, <1>4, HoldTypes DEF SentPending
  <1>6. unmarked'[i] >= unmarked[i]
    BY <1>1, <1>3, HoldTypes
  <1>7. SentAny(i)'
    BY <1>1, <1>2, <1>3, <1>6, AnyKept
  <1> QED
    BY <1>5, <1>7

SentIInv == TypeOK /\ InFlightExact /\ ReadInv /\ SentInv

LEMMA SentStep == SentIInv /\ [Next]_vars => SentInv'
  <1> SUFFICES ASSUME SentIInv, [Next]_vars PROVE SentInv'
    OBVIOUS
  <1> USE DEF table, calls, history
  <1>0. TypeOK /\ InFlightExact /\ ReadInv /\ SentInv /\ TypeOK' /\ InFlightExact'
    BY TypeStep, InFlightStep DEF SentIInv
  <1>1. ASSUME UNCHANGED <<status, run, batch, sends, unmarked>> PROVE SentInv'
    BY <1>0, <1>1, QuietSends
  <1>2. ASSUME NEW e \in Enqueuers, Insert(e) PROVE SentInv'
    <2>1. ASSUME NEW i \in Ids, status'[i] \in {"none", "pending"}
          PROVE  status[i] \in {"none", "pending"}
      <3>1. CASE UNCHANGED status
        BY <2>1, <3>1
      <3>2. CASE status' = [status EXCEPT ![rows + 1] = "pending"]
        <4>1. CASE i = rows + 1
          <5>1. i > rows
            BY <4>1, <1>0, QueueConstants DEF TypeOK
          <5> QED
            BY <5>1, <1>0 DEF TypeOK
        <4>2. CASE i # rows + 1
          BY <2>1, <3>2, <4>2, <1>0 DEF TypeOK
        <4> QED
          BY <4>1, <4>2
      <3> QED
        BY <1>2, <3>1, <3>2 DEF Insert
    <2> QED
      BY <1>0, <1>2, <2>1, QuietSends DEF Insert
  <1>3. ASSUME NEW r \in Runs, ReadAged(r) PROVE SentInv'
    <2>1. /\ run[r] = "idle" /\ run'[r] = "reading" /\ batch[r] = {}
          /\ \A q \in Runs : q # r => run'[q] = run[q] /\ batch'[q] = batch[q]
      BY <1>0, <1>3 DEF ReadAged, ReadInv, TypeOK
    <2>2. batch'[r] \in SUBSET Pending
      <3>1. First(MaxBatch, Pending \cap (1..due)) \in SUBSET Pending
        BY DEF First
      <3>2. \/ batch' = [batch EXCEPT ![r] = First(MaxBatch, Pending \cap (1..due))]
            \/ batch' = batch
        BY <1>3 DEF ReadAged
      <3>3. batch'[r] = First(MaxBatch, Pending \cap (1..due)) \/ batch'[r] = {}
        BY <1>0, <2>1, <3>2 DEF TypeOK
      <3> QED
        BY <3>1, <3>3
    <2> QED
      BY <1>0, <1>3, <2>1, <2>2, ReadingSends DEF ReadAged
  <1>4. ASSUME NEW r \in Runs, ReadRecent(r) PROVE SentInv'
    <2>1. run[r] = "reading" /\ UNCHANGED <<status, sends, unmarked>>
      BY <1>4 DEF ReadRecent
    <2>2. CASE Finish(r)
      <3>1. /\ run'[r] = "idle" /\ batch'[r] = {}
            /\ \A q \in Runs : q # r => run'[q] = run[q] /\ batch'[q] = batch[q]
        BY <1>0, <2>2 DEF Finish, TypeOK
      <3> QED
        BY <1>0, <2>1, <3>1, ReadingSends
    <2>3. CASE ~ Finish(r)
      <3>1. PICK recent \in {First(MaxBatch, Pending), {}} :
              /\ run' = [run EXCEPT ![r] = "sending"]
              /\ batch' = [batch EXCEPT ![r] = Chosen(batch[r], recent)]
        BY <1>4, <2>3 DEF ReadRecent
      <3>2. /\ run'[r] = "sending" /\ batch'[r] = Chosen(batch[r], recent)
            /\ \A q \in Runs : q # r => run'[q] = run[q] /\ batch'[q] = batch[q]
        BY <1>0, <3>1 DEF TypeOK
      <3>3. batch'[r] \in SUBSET Pending \/ batch'[r] \in SUBSET batch[r]
        BY <3>1, <3>2 DEF Chosen, First
      <3> QED
        BY <1>0, <2>1, <3>2, <3>3, ReadingSends
    <2> QED
      BY <2>2, <2>3
  <1>5. ASSUME NEW r \in Runs, Send(r) PROVE SentInv'
    BY <1>0, <1>5, SendSends
  <1>6. ASSUME NEW r \in Runs, Mark(r) PROVE SentInv'
    BY <1>0, <1>6, MarkSends
  <1>7. ASSUME Cancel PROVE SentInv'
    <2>1. \A i \in Ids : status'[i] \in {"none", "pending"} => status[i] \in {"none", "pending"}
      BY <1>0, <1>7 DEF Cancel, TypeOK
    <2> QED
      BY <1>0, <1>7, <2>1, QuietSends DEF Cancel
  <1>8. ASSUME Restart PROVE SentInv'
    BY <1>0, <1>8, RestartSends
  <1> QED
    BY <1>1, <1>2, <1>3, <1>4, <1>5, <1>6, <1>7, <1>8
       DEF Next, Step, CheckDepth, Age, vars

LEMMA InitSends == Init => SentInv
  <1> SUFFICES ASSUME Init, NEW i \in Ids PROVE SentPending(i) /\ SentAny(i)
    BY DEF SentInv
  <1>1. Holding(i) = {} /\ Unsent(i) = {} /\ sends[i] = 0 /\ unmarked[i] = 0
    BY DEF Init, Holding, Unsent
  <1>2. Cardinality(Holding(i)) = 0 /\ Cardinality(Unsent(i)) = 0
    BY <1>1, FS_EmptySet
  <1> QED
    BY <1>1, <1>2, QueueConstants DEF SentPending, SentAny

\* A settlement is sent at most once per slot of the in-flight cap plus once
\* per run that could not mark it, for any batch size, queue, number of runs
\* and order of failures.
THEOREM ResendsBounded == Spec => []SendsBounded
  <1>1. Init => SentIInv
    BY InitType, InitSends, FS_EmptySet, QueueConstants
       DEF Init, SentIInv, InFlightExact, Busy, ReadInv
  <1>2. SentIInv /\ [Next]_vars => SentIInv'
    BY TypeStep, InFlightStep, ReadStep, SentStep DEF SentIInv
  <1>3. SentIInv => SendsBounded
    <2> SUFFICES ASSUME SentIInv, NEW i \in Ids PROVE sends[i] <= MaxInFlight + unmarked[i]
      BY DEF SendsBounded
    <2>1. SentAny(i) /\ sends[i] \in Nat /\ unmarked[i] \in Nat
      BY DEF SentIInv, SentInv, TypeOK
    <2> QED
      BY <2>1, HoldTypes, QueueConstants DEF SentAny
  <1> QED
    BY <1>1, <1>2, <1>3, PTL DEF Spec
=============================================================================
