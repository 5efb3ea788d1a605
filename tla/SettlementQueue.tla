--------------------------- MODULE SettlementQueue ---------------------------
(***************************************************************************)
(* The queue of pending settlements: enqueue, the batch runs that flush    *)
(* it (processPending, started by the cron job every two minutes and not   *)
(* awaited by the next one), and the containment of a compromised key,     *)
(* which cancels rows.  Rows are numbered in the order of created_at.      *)
(* Every await is a step boundary.  A supabase call that fails is counted  *)
(* against a budget of Faults.                                             *)
(***************************************************************************)
EXTENDS Naturals, FiniteSets

CONSTANTS
    Enqueuers,      \* concurrent enqueue calls
    Runs,           \* concurrent processPending calls
    MinBatch, MaxBatch, MaxDepth, MaxInFlight,
    MaxRows,        \* bound: rows ever inserted
    MaxFaults       \* bound: failed database calls and restarts

\* The constructor of SettlementBatcher corrects the first three.
ASSUME QueueConstants ==
    /\ MinBatch \in Nat /\ MaxBatch \in Nat \ {0} /\ MaxDepth \in Nat
    /\ MinBatch <= MaxBatch /\ MaxBatch <= MaxDepth
    /\ MaxInFlight \in Nat /\ MaxRows \in Nat /\ MaxFaults \in Nat
    /\ IsFiniteSet(Enqueuers) /\ IsFiniteSet(Runs)

VARIABLES
    rows,           \* rows inserted so far
    status,         \* of each row
    due,            \* rows 1..due were created maxWaitMs ago or earlier
    enq,            \* where an enqueue call is
    run,            \* where a batch run is
    cutoff,         \* due when the run computed its cutoff
    batch,          \* the rows a run has read
    inFlight,
    sends,          \* history: how often each row was sent to be settled
    unmarked,       \* history: runs that sent a row and never marked it
    faults

table == <<rows, status, due>>
calls == <<run, cutoff, batch, inFlight>>
history == <<sends, unmarked>>
vars == <<table, enq, calls, history, faults>>

Ids == 1..MaxRows
Pending == {i \in Ids : status[i] = "pending"}
Busy == {r \in Runs : run[r] # "idle"}

TypeOK ==
    /\ rows \in 0..MaxRows
    /\ status \in [Ids -> {"none", "pending", "submitted", "cancelled"}]
    /\ \A i \in Ids : status[i] = "none" <=> i > rows
    /\ due \in 0..rows
    /\ enq \in [Enqueuers -> {"idle", "inserting"}]
    /\ run \in [Runs -> {"idle", "reading", "sending", "marking"}]
    /\ cutoff \in [Runs -> 0..rows]
    /\ batch \in [Runs -> SUBSET (1..rows)]
    /\ inFlight \in Nat
    /\ sends \in [Ids -> Nat] /\ unmarked \in [Ids -> Nat]
    /\ faults \in 0..MaxFaults

Init ==
    /\ rows = 0 /\ due = 0 /\ inFlight = 0 /\ faults = 0
    /\ status = [i \in Ids |-> "none"]
    /\ enq = [e \in Enqueuers |-> "idle"]
    /\ run = [r \in Runs |-> "idle"]
    /\ cutoff = [r \in Runs |-> 0]
    /\ batch = [r \in Runs |-> {}]
    /\ sends = [i \in Ids |-> 0] /\ unmarked = [i \in Ids |-> 0]

Fault ==
    /\ faults < MaxFaults
    /\ faults' = faults + 1

-----------------------------------------------------------------------------
(* enqueue                                                                 *)

CheckDepthM(e) ==
    /\ enq[e] = "idle"
    /\ Cardinality(Pending) <= MaxDepth
    /\ enq' = [enq EXCEPT ![e] = "inserting"]
    /\ UNCHANGED <<table, calls, history, faults>>
\* At the cap the call throws, which leaves no trace in the table.
CheckDepth(e) ==
    /\ enq[e] = "idle"
    /\ Cardinality(Pending) < MaxDepth
    /\ enq' = [enq EXCEPT ![e] = "inserting"]
    /\ UNCHANGED <<table, calls, history, faults>>

\* The row is inserted whatever happened since the count; or the insert
\* fails and enqueue throws.
Insert(e) ==
    /\ enq[e] = "inserting"
    /\ enq' = [enq EXCEPT ![e] = "idle"]
    /\ \/ /\ rows < MaxRows
          /\ rows' = rows + 1
          /\ status' = [status EXCEPT ![rows + 1] = "pending"]
          /\ UNCHANGED faults
       \/ /\ Fault
          /\ UNCHANGED <<rows, status>>
    /\ UNCHANGED <<due, calls, history>>

-----------------------------------------------------------------------------
(* processPending                                                          *)

FirstM(n, S) == {i \in S : Cardinality({j \in S : j > i}) < n}
\* ORDER BY created_at LIMIT n
First(n, S) == {i \in S : Cardinality({j \in S : j < i}) < n}

\* No await between the check and the increment.
CapFree == inFlight < MaxInFlight

\* The finally block.
Finish(r) ==
    /\ run' = [run EXCEPT ![r] = "idle"]
    /\ batch' = [batch EXCEPT ![r] = {}]
    /\ cutoff' = [cutoff EXCEPT ![r] = 0]
    /\ inFlight' = IF inFlight > 0 THEN inFlight - 1 ELSE 0

\* The query for aged rows; its error is dropped and reads as no rows.
ReadAged(r) ==
    /\ run[r] = "idle"
    /\ CapFree
    /\ inFlight' = inFlight + 1
    /\ run' = [run EXCEPT ![r] = "reading"]
    /\ cutoff' = [cutoff EXCEPT ![r] = due]
    /\ \/ /\ batch' = [batch EXCEPT ![r] = First(MaxBatch, Pending \cap (1..due))]
          /\ UNCHANGED faults
       \/ /\ Fault
          /\ UNCHANGED batch
    /\ UNCHANGED <<table, enq, history>>

WorthFlushingM(recent, cut) == Cardinality(recent) >= MinBatch
\* Enough rows, or the oldest has waited long enough.
WorthFlushing(recent, cut) ==
    \/ Cardinality(recent) >= MinBatch
    \/ \E i \in recent : i <= cut

ChosenM(aged, recent) == aged \cup recent
Chosen(aged, recent) == IF aged # {} THEN aged ELSE recent

\* The query for all pending rows, and the choice of the batch.
ReadRecent(r) ==
    /\ run[r] = "reading"
    /\ \E recent \in {First(MaxBatch, Pending), {}} :
        /\ IF recent = First(MaxBatch, Pending) THEN UNCHANGED faults ELSE Fault
        /\ LET chosen == Chosen(batch[r], recent)
           IN  IF WorthFlushing(recent, cutoff[r]) /\ chosen # {}
               THEN /\ run' = [run EXCEPT ![r] = "sending"]
                    /\ batch' = [batch EXCEPT ![r] = chosen]
                    /\ UNCHANGED <<cutoff, inFlight>>
               ELSE Finish(r)
    /\ UNCHANGED <<table, enq, history>>

\* syncSubscription hands the batch to ChainSubmissionClient.submit.  Whether
\* it lands, how often (the client signs a new transaction for every attempt:
\* module ChainSubmission) and what is reported changes nothing here:
\* submitBatch goes on in all cases.
Send(r) ==
    /\ run[r] = "sending"
    /\ run' = [run EXCEPT ![r] = "marking"]
    /\ sends' = [i \in Ids |-> IF i \in batch[r] THEN sends[i] + 1 ELSE sends[i]]
    /\ UNCHANGED <<table, enq, cutoff, batch, inFlight, unmarked, faults>>

\* Runs that have sent row i and not marked it yet.
Holding(i) == {r \in Runs : run[r] = "marking" /\ i \in batch[r]}

MarkRowsM(S) == status' = [i \in Ids |-> IF i \in First(1, S) THEN "submitted" ELSE status[i]]
\* By id only: the update does not ask what the status is now.
MarkRows(S) == status' = [i \in Ids |-> IF i \in S THEN "submitted" ELSE status[i]]

\* The result of the update is not looked at.
Mark(r) ==
    /\ run[r] = "marking"
    /\ \/ /\ MarkRows(batch[r])
          /\ UNCHANGED <<unmarked, faults>>
       \/ /\ Fault
          /\ unmarked' = [i \in Ids |-> IF i \in batch[r] THEN unmarked[i] + 1 ELSE unmarked[i]]
          /\ UNCHANGED status
    /\ Finish(r)
    /\ UNCHANGED <<rows, due, enq, sends>>

-----------------------------------------------------------------------------
(* containCompromisedKey, time, and the end of the process                 *)

\* The pending rows of one user.
Cancel ==
    /\ \E S \in SUBSET Pending :
        /\ S # {}
        /\ status' = [i \in Ids |-> IF i \in S THEN "cancelled" ELSE status[i]]
    /\ UNCHANGED <<rows, due, enq, calls, history, faults>>

\* A row that exists comes of age.
Age ==
    /\ due < rows
    /\ due' = due + 1
    /\ UNCHANGED <<rows, status, enq, calls, history, faults>>

Restart ==
    /\ Fault
    /\ unmarked' = [i \in Ids |-> unmarked[i] + Cardinality(Holding(i))]
    /\ enq' = [e \in Enqueuers |-> "idle"]
    /\ run' = [r \in Runs |-> "idle"]
    /\ batch' = [r \in Runs |-> {}]
    /\ cutoff' = [r \in Runs |-> 0]
    /\ inFlight' = 0
    /\ UNCHANGED <<table, sends>>

Step(r) == ReadRecent(r) \/ Send(r) \/ Mark(r)

Next ==
    \/ \E e \in Enqueuers : CheckDepth(e) \/ Insert(e)
    \/ \E r \in Runs : ReadAged(r) \/ Step(r)
    \/ Cancel
    \/ Age
    \/ Restart

Spec == Init /\ [][Next]_vars

\* Rows age, the cron job keeps firing, and a started run goes on: none of
\* its calls hangs for ever.
Fairness ==
    /\ WF_vars(Age)
    /\ WF_vars(\E r \in Runs : ReadAged(r))
    /\ \A r \in Runs : WF_vars(Step(r))

FairSpec == Spec /\ Fairness

-----------------------------------------------------------------------------

Inserting == {e \in Enqueuers : enq[e] = "inserting"}
\* The depth is counted before the insert, so calls that counted together
\* all insert: the rows that wait and those about to join them exceed the cap
\* by less than the number of calls.
DepthBounded ==
    Cardinality(Pending) + Cardinality(Inserting) < MaxDepth + Cardinality(Enqueuers)

\* The counter tells how many runs are active, through every early return,
\* failure and restart, and never exceeds its cap.
InFlightExact == inFlight = Cardinality(Busy) /\ inFlight <= MaxInFlight

\* A run takes no row while it leaves an older pending one behind, however
\* long ago it read the table and whichever of its queries failed.
NoOvertaking ==
    \A r \in Runs : run[r] = "sending" =>
        /\ batch[r] # {} /\ Cardinality(batch[r]) <= MaxBatch
        /\ \A i \in batch[r], j \in Pending : j < i => j \in batch[r]

\* A row is sent at most once per slot of the in-flight cap, plus once for each
\* run that sent it and was then unable to mark it: once in all when the cap is
\* 1 and nothing fails.  Each of these sends lands as often as
\* ChainSubmission!LandsBounded allows.
SendsBounded == \A i \in Ids : sends[i] <= MaxInFlight + unmarked[i]

\* No row is stuck, not even one that never gets company in a batch.
Flushed == \A i \in Ids : status[i] = "pending" ~> status[i] # "pending"

-----------------------------------------------------------------------------
(* What the runbook of key compromise says                                 *)

\* A cancelled settlement stays cancelled: it is not settled afterwards.
CancelledStays ==
    [][\A i \in Ids : status[i] = "cancelled" => status'[i] = "cancelled"]_vars
=============================================================================
