------------------------------ MODULE EventLog ------------------------------
(***************************************************************************)
(* The event listener and the reorg handler: they copy the events of a     *)
(* contract into the table contract_events and remember in event_cursor    *)
(* how far they got.  Every call, to the RPC node or to the database, is a *)
(* step.  Ledgers are final, so an answer lower than the cursor comes from *)
(* a node that lags behind or from an error; the listener takes either for *)
(* a reorganisation.  Failed calls, answers that lag and restarts draw on  *)
(* one budget of faults.                                                   *)
(***************************************************************************)
EXTENDS Integers, FiniteSetsExt

CONSTANTS
    Depth,          \* reorgDepth
    MaxRetries,     \* MAX_RETRY_ATTEMPTS
    MaxLedger,      \* bound: ledgers ever closed
    MaxFaults       \* bound: failed calls, lagging answers, restarts

ASSUME EventLogConstants ==
    /\ Depth \in Nat /\ MaxRetries \in Nat \ {0}
    /\ MaxLedger \in Nat /\ MaxLedger > Depth /\ MaxFaults \in Nat

\* The contract is deployed far above ledger Depth.
First == Depth + 2
Ledger == First..MaxLedger

\* What a ledger holds of the contract: nothing, an event the listener handles,
\* one it skips (another schema version or type), or one the schema of the RPC
\* answer refuses.  It is the last of its ledger; the others, which the listener
\* skips, matter only when an answer ends after one of them.
Kind == {"none", "event", "foreign", "unreadable"}

VARIABLES
    height,         \* the newest ledger
    content,        \* the contract's event in each ledger, if any
    rows,           \* contract_events, by ledger
    cursor,         \* event_cursor, a table of at most one row
    last,           \* lastProcessedLedger, in memory
    pc,             \* the call the listener makes next
    safe,           \* safePoint of the running rollback
    batch,          \* ledgers of the events fetched
    rest,           \* of these, the one whose event the answer stopped short of
    retries,        \* _retryCount
    faults,
    lost,           \* history: deleted by a rollback that did not move the cursor,
                    \* or left out by an answer that ended inside the ledger
    torn            \* history: rows and position were not written together

chain == <<height, content>>
table == <<rows, cursor>>
memory == <<last, safe, batch, rest, retries>>
vars == <<chain, table, memory, pc, faults, lost, torn>>

TypeOK ==
    /\ height \in First - 1..MaxLedger
    /\ content \in [Ledger -> Kind]
    /\ \A i \in Ledger : i > height => content[i] = "none"
    /\ rows \subseteq {i \in Ledger : content[i] = "event"}
    /\ cursor \subseteq Int /\ \A c, d \in cursor : c = d
    /\ last \in Int /\ safe \in Int /\ batch \subseteq Ledger /\ rest \subseteq Ledger
    /\ pc \in {"idle", "selecting", "deleting", "resetting", "reading",
               "fetching", "saving", "advancing", "failed"}
    /\ retries \in 0..MaxRetries /\ faults \in 0..MaxFaults
    /\ lost \subseteq Ledger /\ torn \in BOOLEAN

Init ==
    /\ height = First - 1 /\ content = [i \in Ledger |-> "none"]
    /\ rows = {} /\ cursor = {}
    /\ last = 0 /\ safe = 0 /\ batch = {} /\ rest = {} /\ retries = 0
    /\ pc = "idle" /\ faults = 0 /\ lost = {} /\ torn = FALSE

Fault == faults < MaxFaults /\ faults' = faults + 1
Fine == UNCHANGED faults

\* getLastProcessedLedger: no row reads as 0.
LastLedger == IF cursor = {} THEN 0 ELSE Max(cursor)

Close ==
    /\ height < MaxLedger
    /\ height' = height + 1
    /\ \E kind \in Kind : content' = [content EXCEPT ![height + 1] = kind]
    /\ UNCHANGED <<table, memory, pc, faults, lost, torn>>

-----------------------------------------------------------------------------
(* How a poll ends.                                                        *)

PollDone == pc' = "idle" /\ retries' = 0 /\ batch' = {} /\ rest' = {}
\* After MaxRetries failures in a row the listener stops for good.
PollFails ==
    /\ retries' = retries + 1
    /\ pc' = IF retries + 1 >= MaxRetries THEN "failed" ELSE "idle"
    /\ batch' = {} /\ rest' = {}

-----------------------------------------------------------------------------
(* A poll: where is the chain?                                             *)

\* The newest ledger; or that of a node that lags; or 0, when the answer is
\* an error and holds no result.
Answer(v) == IF v = height THEN Fine ELSE v \in {0} \cup (First - 1..height - 1) /\ Fault

Poll ==
    /\ pc = "idle"
    /\ \/ \E v \in {0} \cup (First - 1..height) :
            /\ Answer(v)
            /\ IF v < last THEN pc' = "selecting" /\ safe' = v - Depth
                           ELSE pc' = "fetching" /\ UNCHANGED safe
            /\ UNCHANGED <<batch, rest, retries>>
       \/ Fault /\ PollFails /\ UNCHANGED safe
    /\ UNCHANGED <<chain, table, last, lost, torn>>

-----------------------------------------------------------------------------
(* rollbackEvents.  No stored event_type is one revertEvent knows, so the   *)
(* subscriptions stay as they are.                                         *)

UndoneM == {i \in rows : i > safe}
Undone == {i \in rows : i >= safe}

\* A failed query reads as no events.
Select ==
    /\ pc = "selecting"
    /\ \/ Fine /\ pc' = IF Undone = {} THEN "reading" ELSE "deleting"
       \/ Fault /\ pc' = "reading"
    /\ UNCHANGED <<chain, table, memory, lost, torn>>

\* The result of the two writes is not looked at.
Delete ==
    /\ pc = "deleting" /\ pc' = "resetting"
    /\ \/ Fine /\ rows' = rows \ Undone /\ UNCHANGED torn
       \/ Fault /\ torn' = TRUE /\ UNCHANGED rows
    /\ UNCHANGED <<chain, cursor, memory, lost>>

\* The ledgers a rollback has emptied below the cursor.
Emptied == {i \in Ledger : safe <= i /\ i <= LastLedger}

ResetToM == safe
ResetTo == safe - 1

Reset ==
    /\ pc = "resetting" /\ pc' = "reading"
    /\ \/ Fine /\ cursor' = {ResetTo : c \in cursor} /\ UNCHANGED lost
       \/ Fault /\ lost' = lost \cup Emptied /\ UNCHANGED cursor
    /\ UNCHANGED <<chain, rows, memory, torn>>

\* A failed read of the cursor reads as 0.
ReadCursor ==
    /\ pc = "reading" /\ pc' = "fetching"
    /\ \/ Fine /\ last' = LastLedger /\ UNCHANGED torn
       \/ Fault /\ last' = 0 /\ torn' = TRUE
    /\ UNCHANGED <<chain, table, safe, batch, rest, retries, lost>>

-----------------------------------------------------------------------------
(* Fetch, save, advance.                                                   *)

Sent(from, w) == {i \in Ledger : from <= i /\ i <= w /\ content[i] # "none"}
Readable(S) == 1 <= last + 1 /\ \A i \in S : content[i] # "unreadable"

FetchedM(w, part) == IF Readable(Sent(last + 1, w) \ part) THEN Sent(last + 2, w) ELSE {}
\* What a node sends from last + 1 on: the events up to ledger w, the newest it
\* has seen or the last on the page; without the one in part, if the page ends
\* inside that ledger (no second page is asked for).  One event that does not
\* fit the schema discards the answer, and a node refuses a start below 1: the
\* listener reads either as no events.
Fetched(w, part) == IF Readable(Sent(last + 1, w) \ part) THEN Sent(last + 1, w) ELSE {}

Processed == {i \in batch \ rest : content[i] = "event"}

Fetch ==
    /\ pc = "fetching"
    /\ \/ \E w \in First - 1..height, part \in SUBSET (Sent(last + 1, height)) :
            /\ part \subseteq {w}
            /\ IF w = height \/ Sent(last + 1, w) # {} THEN Fine ELSE Fault
            /\ IF Fetched(w, part) = {} THEN PollDone
               ELSE /\ batch' = Fetched(w, part) /\ rest' = part
                    /\ pc' = IF \E i \in Fetched(w, part) \ part : content[i] = "event"
                             THEN "saving" ELSE "advancing"
                    /\ UNCHANGED retries
       \/ Fault /\ PollFails
    /\ UNCHANGED <<chain, table, last, safe, lost, torn>>

\* One insert for the whole batch.  The table is UNIQUE(tx_hash, event_type,
\* sub_id): one row that is there already has all refused.  A failed call may
\* have inserted them all the same.
Save ==
    /\ pc = "saving"
    /\ \/ /\ Processed \cap rows = {} /\ Fine
          /\ rows' = rows \cup Processed /\ lost' = lost \ Processed
          /\ pc' = "advancing" /\ UNCHANGED <<retries, batch, rest, torn>>
       \/ /\ Processed \cap rows # {} /\ Fine
          /\ PollFails /\ UNCHANGED <<rows, lost, torn>>
       \/ /\ Fault /\ PollFails
          /\ \/ UNCHANGED <<rows, lost, torn>>
             \/ /\ Processed \cap rows = {}
                /\ rows' = rows \cup Processed /\ lost' = lost \ Processed
                /\ torn' = TRUE
    /\ UNCHANGED <<chain, cursor, last, safe>>

\* The result of the upsert is not looked at.
Advance ==
    /\ pc = "advancing"
    /\ last' = Max(batch)
    /\ lost' = lost \cup rest
    /\ \/ Fine /\ cursor' = {Max(batch)} /\ UNCHANGED torn
       \/ Fault /\ torn' = TRUE /\ UNCHANGED cursor
    /\ PollDone
    /\ UNCHANGED <<chain, rows, safe>>

-----------------------------------------------------------------------------

\* The process ends, in the middle of whatever it does, and starts again.
Restart ==
    /\ Fault
    /\ last' \in {LastLedger, 0}
    /\ safe' = 0 /\ batch' = {} /\ rest' = {} /\ retries' = 0 /\ pc' = "idle"
    /\ lost' = IF pc = "resetting" THEN lost \cup Emptied ELSE lost
    /\ torn' = (torn \/ pc = "advancing" \/ last' # LastLedger)
    /\ UNCHANGED <<chain, table>>

Listen ==
    \/ Poll \/ Fetch \/ Save \/ Advance
    \/ Select \/ Delete \/ Reset \/ ReadCursor

Next == Close \/ Listen \/ Restart

Spec == Init /\ [][Next]_vars

\* The poll loop goes on: each call returns or throws.
FairSpec == Spec /\ WF_vars(Listen)

-----------------------------------------------------------------------------
(* Properties.                                                             *)

\* The cursor never runs ahead of the log: every event at or below it is
\* saved, however lagging answers, rollbacks, failures and restarts followed
\* one another, except what a rollback deleted and then did not go back for,
\* and what an answer left out that ended inside a ledger.
NothingSkipped ==
    \A i \in Ledger :
        /\ content[i] = "event" /\ i <= LastLedger
        /\ pc = "resetting" => i < safe
        => i \in rows \cup lost

\* No event is ever inserted twice, which the table would refuse each time
\* from then on: a rollback deletes exactly what is fetched again, and only a
\* call cut off between rows and cursor makes the two disagree.
NothingRepeated == pc = "saving" /\ Processed \cap rows # {} => torn

\* Every event ends up in the log for good, unless its rows and the cursor
\* were torn apart, it was lost, an error answer taken for ledger 0 sent the
\* cursor to where no node answers, an event cannot be read, or the listener has
\* stopped: it does so after MaxRetries failures in a row, and then no recovery
\* of the node and no poll brings it back, only a restart of the process.
KeepsUp ==
    \A i \in Ledger :
        content[i] = "event" ~>
            [](i \in rows \cup lost \/ torn \/ last < 0 \/ pc = "failed"
                   \/ \E j \in Ledger : content[j] = "unreadable")
=============================================================================
