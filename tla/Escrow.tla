------------------------------- MODULE Escrow -------------------------------
(***************************************************************************)
(* The escrow contract (contracts/contracts/escrow).  One action per entry *)
(* point that changes state; a panic rolls the transaction back and is no  *)
(* step.  Payer and payee are roles: validate_arbiter_set keeps both out   *)
(* of the arbiters.  approve_release is approve_release_by_arbiter for the *)
(* arbiter on record, who is one of the set.  resolve_dispute appears as   *)
(* its guard only, since no reachable state passes it (QuorumResolves,     *)
(* and the theorem NeverResolvable of EscrowProofs).                       *)
(***************************************************************************)
EXTENDS Integers, FiniteSets

CONSTANTS
    Arbiter,        \* addresses that may arbitrate
    MaxEscrows,     \* bound: agreements ever created
    Amount,         \* amounts a payer may lock
    Grace,          \* ESCAPE_HATCH_GRACE_PERIOD_SECS
    MaxTime         \* bound on the ledger clock

ASSUME EscrowConstants ==
    /\ IsFiniteSet(Arbiter) /\ MaxEscrows \in Nat /\ Amount \subseteq Nat
    /\ Grace \in Nat /\ MaxTime \in Nat

VARIABLES
    now,            \* env.ledger().timestamp()
    admin,          \* DataKey::Admin is set
    pausedSince,    \* DataKey::PausedSince: {} or the one timestamp
    count,          \* EscrowCount
    escrow,         \* DataKey::Escrow(id)
    vault,          \* the token balance of the contract
    paid,           \* history: paid out of each escrow, by role
    fresh,          \* history: arbiters who approved since the last dispute or rotation
    cleared         \* history: since the last dispute a full quorum approved

vars == <<now, admin, pausedSince, count, escrow, vault, paid, fresh, cleared>>

Id == 1..MaxEscrows

States == {"Absent", "Created", "Funded", "Approved", "Released", "Refunded", "Disputed"}

\* What validate_arbiter_set accepts.
ArbiterSet ==
    {s \in [arbiters : SUBSET Arbiter, threshold : 1..Cardinality(Arbiter)] :
        s.threshold <= Cardinality(s.arbiters)}

EscrowAgreement ==
    [state : States, amount : Nat, deposited : Nat, expires_at : Nat,
     arbiters : SUBSET Arbiter, threshold : Nat,
     arbiter_approved : BOOLEAN, arbiter_approvals : SUBSET Arbiter]

Role == {"payer", "payee"}

TypeOK ==
    /\ now \in 0..MaxTime
    /\ admin \in BOOLEAN
    /\ pausedSince \in SUBSET Nat
    /\ count \in 0..MaxEscrows
    /\ escrow \in [Id -> EscrowAgreement]
    /\ vault \in Nat
    /\ paid \in [Id -> [Role -> Nat]]
    /\ fresh \in [Id -> SUBSET Arbiter]
    /\ cleared \in [Id -> BOOLEAN]

-----------------------------------------------------------------------------

NoEscrow ==
    [state |-> "Absent", amount |-> 0, deposited |-> 0, expires_at |-> 0,
     arbiters |-> {}, threshold |-> 1,
     arbiter_approved |-> FALSE, arbiter_approvals |-> {}]

Init ==
    /\ now = 0
    /\ admin = FALSE
    /\ pausedSince = {}
    /\ count = 0
    /\ escrow = [e \in Id |-> NoEscrow]
    /\ vault = 0
    /\ paid = [e \in Id |-> [r \in Role |-> 0]]
    /\ fresh = [e \in Id |-> {}]
    /\ cleared = [e \in Id |-> FALSE]

InState(e, S) == escrow[e].state \in S

Held(e) == InState(e, {"Funded", "Approved", "Disputed"})

Enough(e, approvals) == Cardinality(approvals) >= escrow[e].threshold

quorum_reached(e) == Cardinality(escrow[e].arbiter_approvals) >= escrow[e].threshold

\* The deposit of e goes to one side and the agreement ends in state st.
PayOut(e, role, st) ==
    /\ vault >= escrow[e].deposited
    /\ vault' = vault - escrow[e].deposited
    /\ paid' = [paid EXCEPT ![e][role] = @ + escrow[e].deposited]
    /\ escrow' = [escrow EXCEPT ![e].state = st]
    /\ UNCHANGED <<now, admin, pausedSince, count, fresh, cleared>>

-----------------------------------------------------------------------------
(* Entry points.                                                           *)

Initialize ==
    /\ ~admin
    /\ admin' = TRUE
    /\ UNCHANGED <<now, pausedSince, count, escrow, vault, paid, fresh, cleared>>

create_escrow(amount, expires, set) ==
    /\ amount > 0
    /\ expires > now
    /\ count < MaxEscrows
    /\ count' = count + 1
    /\ escrow' = [escrow EXCEPT ![count + 1] =
           [NoEscrow EXCEPT !.state = "Created", !.amount = amount,
                !.expires_at = expires, !.arbiters = set.arbiters,
                !.threshold = set.threshold]]
    /\ UNCHANGED <<now, admin, pausedSince, vault, paid, fresh, cleared>>

deposit(e) ==
    /\ InState(e, {"Created"})
    /\ vault' = vault + escrow[e].amount
    /\ escrow' = [escrow EXCEPT ![e].state = "Funded", ![e].deposited = escrow[e].amount]
    /\ UNCHANGED <<now, admin, pausedSince, count, paid, fresh, cleared>>

\* The approval that reaches the threshold takes the escrow to Approved, out of
\* a dispute too.
approve_release(e, a) ==
    LET approvals == escrow[e].arbiter_approvals \cup {a}
        enough == Enough(e, approvals)
    IN  /\ InState(e, {"Funded", "Disputed"})
        /\ a \in escrow[e].arbiters \ escrow[e].arbiter_approvals
        /\ escrow' = [escrow EXCEPT
               ![e].arbiter_approvals = approvals,
               ![e].arbiter_approved = @ \/ enough,
               ![e].state = IF enough THEN "Approved" ELSE @]
        /\ fresh' = [fresh EXCEPT ![e] = @ \cup {a}]
        /\ cleared' = [cleared EXCEPT ![e] =
               @ \/ Cardinality(fresh[e] \cup {a}) >= escrow[e].threshold]
        /\ UNCHANGED <<now, admin, pausedSince, count, vault, paid>>

release(e) ==
    /\ InState(e, {"Approved"})
    /\ PayOut(e, "payee", "Released")

RefundableM(e) == ~InState(e, {"Absent", "Refunded"})
Refundable(e) == InState(e, {"Funded", "Approved"})

refund(e) ==
    /\ Refundable(e)
    /\ now >= escrow[e].expires_at \/ ~escrow[e].arbiter_approved
    /\ PayOut(e, "payer", "Refunded")

ClearApprovalsM(e, st, set) ==
    [escrow EXCEPT ![e].state = st, ![e].arbiters = set.arbiters,
                   ![e].threshold = set.threshold, ![e].arbiter_approved = FALSE]
\* Approvals start again, in state st and under this set of arbiters.
ClearApprovals(e, st, set) ==
    [escrow EXCEPT ![e].state = st, ![e].arbiters = set.arbiters,
                   ![e].threshold = set.threshold, ![e].arbiter_approved = FALSE,
                   ![e].arbiter_approvals = {}]

raise_dispute(e) ==
    /\ InState(e, {"Funded", "Approved"})
    /\ escrow' = ClearApprovals(e, "Disputed", escrow[e])
    /\ fresh' = [fresh EXCEPT ![e] = {}]
    /\ cleared' = [cleared EXCEPT ![e] = FALSE]
    /\ UNCHANGED <<now, admin, pausedSince, count, vault, paid>>

\* Both parties replace the arbiters; the state stays what it was.
rotate_arbiter_set(e, set) ==
    /\ e <= count
    /\ ~InState(e, {"Disputed"})
    /\ escrow' = ClearApprovals(e, escrow[e].state, set)
    /\ fresh' = [fresh EXCEPT ![e] = {}]
    /\ UNCHANGED <<now, admin, pausedSince, count, vault, paid, cleared>>

\* The conditions resolve_dispute checks before it moves money.
CanResolve(e) == InState(e, {"Disputed"}) /\ quorum_reached(e)

\* The bound leaves the clock time to end the grace period.
pause ==
    /\ admin
    /\ pausedSince = {}
    /\ now + Grace <= MaxTime
    /\ pausedSince' = {now}
    /\ UNCHANGED <<now, admin, count, escrow, vault, paid, fresh, cleared>>

unpause ==
    /\ admin
    /\ pausedSince' = {}
    /\ UNCHANGED <<now, admin, count, escrow, vault, paid, fresh, cleared>>

EscapableM(e) == InState(e, {"Funded", "Approved"})
Escapable(e) == Held(e)

escape_hatch_withdraw(e) ==
    /\ \E since \in pausedSince : now - since >= Grace
    /\ Escapable(e)
    /\ PayOut(e, "payer", "Refunded")

Tick ==
    /\ now < MaxTime
    /\ now' = now + 1
    /\ UNCHANGED <<admin, pausedSince, count, escrow, vault, paid, fresh, cleared>>

-----------------------------------------------------------------------------

Next ==
    \/ Initialize \/ pause \/ unpause \/ Tick
    \/ \E amount \in Amount, expires \in 1..MaxTime, set \in ArbiterSet :
           create_escrow(amount, expires, set)
    \/ \E e \in Id :
           \/ deposit(e) \/ release(e) \/ refund(e) \/ raise_dispute(e)
           \/ escape_hatch_withdraw(e)
           \/ \E a \in Arbiter : approve_release(e, a)
           \/ \E set \in ArbiterSet : rotate_arbiter_set(e, set)

Spec == Init /\ [][Next]_vars

\* Ledgers keep closing, and a payer whose money is locked behind a pause keeps
\* calling the escape hatch.  Nothing is assumed of payees, arbiters or the admin.
FairSpec == Spec /\ WF_vars(Tick) /\ \A e \in Id : WF_vars(escape_hatch_withdraw(e))

-----------------------------------------------------------------------------
(* Properties.                                                             *)

\* Money in, money out: an escrow holds its deposit until one side has been paid
\* all of it, once, and no call on one escrow moves the money of another.
Ledger == INSTANCE ChannelLedger WITH
    Breachable <- {},
    held <- [e \in Id |-> IF Held(e) THEN escrow[e].deposited ELSE 0],
    paid <- [e \in Id |-> paid[e]["payer"] + paid[e]["payee"]],
    settled <- [e \in Id |-> InState(e, {"Released", "Refunded"})]
ImplementsLedger == Ledger!LedgerSpec

\* The contract owns exactly what its unfinished escrows hold, so that the
\* transfer of a payout never fails for want of tokens.
Solvent == vault = Cardinality(Ledger!Token)

\* However approvals, rotations and disputes alternate: an escrow that can be or
\* was released had, after its last dispute, the approval of a full quorum of
\* the arbiters of that time (release itself looks only at the state, lib.rs:462).
ReleaseCleared == \A e \in Id : InState(e, {"Approved", "Released"}) => cleared[e]

\* ESCAPE_HATCH_RUNBOOK.md:6: if the contract stays paused, every payer gets
\* the money back, whatever the payee, the arbiters and the admin do or fail to do.
EscapeHatchWorks ==
    \A e \in Id : Held(e) ~> \/ InState(e, {"Released", "Refunded"})
                             \/ pausedSince = {}

-----------------------------------------------------------------------------
(* What the decision record and the tests say of disputes                  *)

\* ADR-006:31, lib.rs:1090-1098: resolve_dispute lets the arbiters rule on a
\* disputed escrow.  At the latest once they have a quorum, which it asks for, a
\* call must pass its guards.  (The approval that completes the quorum takes
\* the escrow out of Disputed, which it asks for too.)
QuorumResolves ==
    [][\A e \in Id : InState(e, {"Disputed"}) /\ quorum_reached(e)' => CanResolve(e)']_vars
=============================================================================
