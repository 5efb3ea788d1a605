----------------------------- MODULE ChannelBook -----------------------------
(***************************************************************************)
(* The off-chain book of one channel: the row of payment_channels that     *)
(* payment-channel-service and channel-state keep, written by requests, by *)
(* the hourly monitor (expiry, watchtower sweep) and by the daily          *)
(* settlement job.  Every call reads the row, awaits, and writes the whole *)
(* channel_state it computed from what it read; nothing compares sequence  *)
(* numbers at the write.  Handlers interleave freely; overlapped remembers *)
(* whether two calls ever met between a read and its write, since much of  *)
(* what the book promises holds only as long as none do.                   *)
(***************************************************************************)
EXTENDS Integers, Sequences

CONSTANTS
    Request,        \* handlers that may be in a call at the same time
    Job,            \* the settlement job, a handler too
    Amount,         \* amounts of renewals and top-ups
    Deposit,        \* the deposit of openChannel
    MaxSeq,         \* bound on the sequence number
    MaxDeposits,    \* bound on the deposits, those of calls in progress apart
    MaxFailed       \* bound: settlement runs that fail after the enqueue

ASSUME BookConstants ==
    /\ Job \notin Request /\ Amount \subseteq Nat \ {0}
    /\ Deposit \in Nat /\ MaxDeposits \in Nat /\ MaxSeq \in Nat /\ MaxFailed \in Nat

VARIABLES
    row,            \* the row: state and channel_state
    doing,          \* per handler: {} or the call between its read and its write
    listed,         \* the sweep's candidate: {} or the row as it was listed
    due,            \* the job's candidate: {} or [amount, queued]
    deposited,      \* history: deposits acknowledged
    queue,          \* amounts handed to settlementBatcher.enqueue
    failed,         \* history: runs that failed after the enqueue
    overlapped      \* history: two calls have overlapped

vars == <<row, doing, listed, due, deposited, queue, failed, overlapped>>

Handler == Request \cup {Job}
Op == {"renew", "topUp", "close", "dispute", "register", "deregister",
       "submit", "expire", "finalize"}

ChannelState == [seq : Nat, user : Nat, exec : Nat, total : Nat, tower : BOOLEAN]
Row == [state : {"active", "closing", "dispute", "closed"}, cs : ChannelState]

TypeOK ==
    /\ row \in Row
    /\ doing \in [Handler -> SUBSET [op : Op, new : ChannelState, added : Nat]]
    /\ listed \in SUBSET Row
    /\ due \in SUBSET [amount : Nat, queued : BOOLEAN]
    /\ deposited \in Nat
    /\ queue \in Seq(Nat)
    /\ failed \in 0..MaxFailed
    /\ overlapped \in BOOLEAN

\* openChannel.
Init ==
    /\ row = [state |-> "active",
              cs |-> [seq |-> 0, user |-> Deposit, exec |-> 0, total |-> Deposit,
                      tower |-> FALSE]]
    /\ doing = [h \in Handler |-> {}]
    /\ listed = {} /\ due = {}
    /\ deposited = Deposit
    /\ queue = << >>
    /\ failed = 0
    /\ overlapped = FALSE

-----------------------------------------------------------------------------
(* What a call makes of the state it read.                                 *)

RenewedM(cs, n) == [cs EXCEPT !.seq = @ + 1, !.exec = @ + n]
Renewed(cs, n) == [cs EXCEPT !.seq = @ + 1, !.user = @ - n, !.exec = @ + n]
ToppedUpM(cs, n) == [cs EXCEPT !.user = @ + n, !.total = @ + n]
ToppedUp(cs, n) == [cs EXCEPT !.seq = @ + 1, !.user = @ + n, !.total = @ + n]

InWindowM == row.state # "active"
InWindow == row.state \in {"closing", "dispute"}

\* Handlers other than h that have read and not yet written.
Pending(h) == {g \in Handler \ {h} : \E p \in doing[g] : p.op # "finalize"}
Meet(h) == overlapped' = (overlapped \/ Pending(h) # {})

\* Handler h reads the row and computes the state it will write.
Read(h, op, new) ==
    /\ doing[h] = {}
    /\ Meet(h)
    /\ doing' = [doing EXCEPT ![h] = {[op |-> op, new |-> new, added |-> new.total - row.cs.total]}]

Active(h, op, new) == row.state = "active" /\ Read(h, op, new)

(* Calls, up to the read.                                                  *)

Begin(h) ==
    /\ \/ \E n \in Amount :
              \/ /\ row.cs.user >= n /\ row.cs.seq < MaxSeq
                 /\ Active(h, "renew", Renewed(row.cs, n))
              \/ /\ row.cs.seq < MaxSeq /\ deposited < MaxDeposits
                 /\ Active(h, "topUp", ToppedUp(row.cs, n))
       \/ Active(h, "close", row.cs)
       \/ Active(h, "dispute", row.cs)
       \/ Active(h, "expire", row.cs)
       \/ ~row.cs.tower /\ Active(h, "register", [row.cs EXCEPT !.tower = TRUE])
       \/ row.cs.tower /\ Active(h, "deregister", [row.cs EXCEPT !.tower = FALSE])
    /\ UNCHANGED <<row, listed, due, deposited, queue, failed>>

\* getChannelsNeedingWatchtower.
ListSweep ==
    /\ listed = {}
    /\ InWindow /\ row.cs.tower
    /\ listed' = {row}
    /\ UNCHANGED <<row, doing, due, deposited, queue, failed, overlapped>>

\* The sweep submits the balances it listed under the next number, through
\* submitWatchtowerState, which reads the row again.
Sweep(h) ==
    /\ listed' = {}
    /\ \E l \in listed :
           IF InWindow /\ row.cs.tower /\ l.cs.seq + 1 > row.cs.seq /\ l.cs.seq < MaxSeq
           THEN Read(h, "submit", [row.cs EXCEPT !.seq = l.cs.seq + 1,
                                       !.user = l.cs.user, !.exec = l.cs.exec])
           ELSE UNCHANGED <<doing, overlapped>>
    /\ UNCHANGED <<row, due, deposited, queue, failed>>

(* The write, and the end of the call.                                     *)

NextStateOf(op) ==
    CASE op = "close" \/ op = "expire" -> "closing"
      [] op = "dispute" \/ op = "submit" -> "dispute"
      [] OTHER -> row.state

\* An expired channel is closed and then finalized, in two calls.
Write(h) ==
    /\ \E p \in doing[h] :
          /\ p.op # "finalize"
          /\ row' = [state |-> NextStateOf(p.op), cs |-> p.new]
          /\ deposited' = deposited + p.added
          /\ doing' = [doing EXCEPT ![h] =
                 IF p.op = "expire" THEN {[p EXCEPT !.op = "finalize", !.new = row.cs]} ELSE {}]
    /\ due' = IF h = Job THEN {} ELSE due
    /\ UNCHANGED <<listed, queue, failed, overlapped>>

\* finalizeClose reads for its log only.
Finalize(h) ==
    /\ \E p \in doing[h] : p.op = "finalize"
    /\ Meet(h)
    /\ row' = [row EXCEPT !.state = "closed"]
    /\ doing' = [doing EXCEPT ![h] = {}]
    /\ UNCHANGED <<listed, due, deposited, queue, failed>>

-----------------------------------------------------------------------------
(* The settlement job: list, enqueue, initiateClose, mark.  The mark ends   *)
(* the run and matters no more: the channel is not active again.            *)

DueM == row.cs.exec > 0
Due == row.state = "active" /\ row.cs.exec > 0

ListDue ==
    /\ due = {} /\ Due
    /\ due' = {[amount |-> row.cs.exec, queued |-> FALSE]}
    /\ UNCHANGED <<row, doing, listed, deposited, queue, failed, overlapped>>

Enqueue ==
    /\ \E d \in due : /\ ~d.queued
                      /\ queue' = Append(queue, d.amount)
                      /\ due' = {[d EXCEPT !.queued = TRUE]}
    /\ UNCHANGED <<row, doing, listed, deposited, failed, overlapped>>

CloseDue ==
    /\ \E d \in due : d.queued
    /\ Active(Job, "close", row.cs)
    /\ UNCHANGED <<row, listed, due, deposited, queue, failed>>

\* initiateClose throws: the channel is no longer active, or the database fails.
CloseFails ==
    /\ \E d \in due : d.queued
    /\ doing[Job] = {} /\ failed < MaxFailed
    /\ due' = {} /\ failed' = failed + 1
    /\ UNCHANGED <<row, doing, listed, deposited, queue, overlapped>>

Next ==
    \/ \E h \in Request : Begin(h) \/ Sweep(h) \/ Finalize(h)
    \/ \E h \in Handler : Write(h)
    \/ ListSweep \/ ListDue \/ Enqueue \/ CloseDue \/ CloseFails

Spec == Init /\ [][Next]_vars

-----------------------------------------------------------------------------
(* Properties.                                                             *)

\* payment-channel-protocol.md:247: the book never shows more than the deposits
\* acknowledged, and unless calls overlapped the two balances add up to all of them.
Balanced ==
    /\ row.cs.total <= deposited
    /\ ~overlapped => /\ row.cs.total = deposited
                      /\ row.cs.user + row.cs.exec = deposited

\* payment-channel-protocol.md:248: unless calls overlapped, the sequence number
\* never goes back, and goes up whenever a balance changes.
SequenceRises ==
    [][ ~overlapped => /\ row.cs.seq <= row'.cs.seq
                       /\ <<row.cs.user, row.cs.exec>> # <<row'.cs.user, row'.cs.exec>>
                              => row.cs.seq < row'.cs.seq ]_row

\* A channel that left the active state never returns to it.  Unless calls
\* overlapped, neither side is debited after that, whatever the sweep submits, and
\* a closed channel is not disputed again.
FrozenOnceClosing ==
    [][ row.state # "active" =>
            /\ row'.state # "active"
            /\ ~overlapped =>
                   /\ <<row'.cs.user, row'.cs.exec>> = <<row.cs.user, row.cs.exec>>
                   /\ row.state = "closed" => row'.state = "closed" ]_row

\* A channel is enqueued for settlement once, plus once for each run that failed
\* after its enqueue; and, unless calls overlapped, never for more than the
\* executor's recorded balance.
SettledOnce ==
    /\ Len(queue) <= 1 + failed
    /\ ~overlapped => \A i \in DOMAIN queue : queue[i] <= row.cs.exec
=============================================================================
