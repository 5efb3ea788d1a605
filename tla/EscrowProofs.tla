---------------------------- MODULE EscrowProofs ----------------------------
(* The escrow pays out exactly, once and only when cleared, and never        *)
(* resolves a dispute, for any arbiters, thresholds, amounts and bounds.     *)
EXTENDS Escrow, FiniteSetTheorems, TLAPS

-----------------------------------------------------------------------------
(* What the entry points do to one agreement, field by field.               *)

LEMMA AgreementTypes ==
    ASSUME TypeOK, NEW e \in Id
    PROVE  /\ escrow[e] \in EscrowAgreement
           /\ escrow[e].state \in States
           /\ escrow[e].amount \in Nat /\ escrow[e].deposited \in Nat
           /\ escrow[e].arbiters \in SUBSET Arbiter /\ escrow[e].threshold \in Nat
           /\ escrow[e].arbiter_approvals \in SUBSET Arbiter
           /\ escrow[e].arbiter_approved \in BOOLEAN
  BY DEF TypeOK, EscrowAgreement

\* The other escrows stay as they are, and e becomes v.
Becomes(e, v) ==
    /\ escrow' \in [Id -> EscrowAgreement]
    /\ escrow'[e] = v
    /\ \A k \in Id : k # e => escrow'[k] = escrow[k]

LEMMA Becoming ==
    ASSUME TypeOK, NEW e \in Id, NEW v \in EscrowAgreement,
           escrow' = [escrow EXCEPT ![e] = v]
    PROVE  Becomes(e, v)
  BY DEF TypeOK, Becomes

LEMMA PayOutEffect ==
    ASSUME TypeOK, NEW e \in Id, NEW role \in Role, NEW st \in States, PayOut(e, role, st)
    PROVE  /\ \E v \in EscrowAgreement :
                 /\ Becomes(e, v)
                 /\ v.state = st /\ v.deposited = escrow[e].deposited
                 /\ v.amount = escrow[e].amount
                 /\ v.arbiters = escrow[e].arbiters /\ v.threshold = escrow[e].threshold
                 /\ v.arbiter_approvals = escrow[e].arbiter_approvals
           /\ vault' \in Nat
           /\ paid' \in [Id -> [Role -> Nat]]
           /\ paid'[e][role] = paid[e][role] + escrow[e].deposited
           /\ \A k \in Id, r \in Role : k # e \/ r # role => paid'[k][r] = paid[k][r]
  <1> DEFINE v == [escrow[e] EXCEPT !.state = st]
  <1>1. v \in EscrowAgreement
    BY AgreementTypes DEF EscrowAgreement
  <1>2. escrow' = [escrow EXCEPT ![e] = v]
    BY DEF PayOut
  <1>3. /\ v.state = st /\ v.deposited = escrow[e].deposited
        /\ v.amount = escrow[e].amount
        /\ v.arbiters = escrow[e].arbiters /\ v.threshold = escrow[e].threshold
        /\ v.arbiter_approvals = escrow[e].arbiter_approvals
    BY AgreementTypes DEF EscrowAgreement
  <1> HIDE DEF v
  <1>4. Becomes(e, v)
    BY <1>1, <1>2, Becoming
  <1>5. vault' \in Nat
    BY AgreementTypes DEF PayOut, TypeOK
  <1>6. /\ paid' \in [Id -> [Role -> Nat]]
        /\ paid'[e][role] = paid[e][role] + escrow[e].deposited
        /\ \A k \in Id, r \in Role : k # e \/ r # role => paid'[k][r] = paid[k][r]
    <2>1. /\ paid \in [Id -> [Role -> Nat]] /\ escrow[e].deposited \in Nat
          /\ paid' = [paid EXCEPT ![e][role] = @ + escrow[e].deposited]
      BY AgreementTypes DEF PayOut, TypeOK
    <2> QED
      BY <2>1
  <1> QED
    BY <1>1, <1>3, <1>4, <1>5, <1>6

\* Raising a dispute and rotating the arbiters.
LEMMA ClearEffect ==
    ASSUME TypeOK, NEW e \in Id, NEW st \in States, NEW set,
           set.arbiters \in SUBSET Arbiter, set.threshold \in Nat,
           escrow' = ClearApprovals(e, st, set)
    PROVE  \E v \in EscrowAgreement :
              /\ Becomes(e, v)
              /\ v.state = st /\ v.amount = escrow[e].amount
              /\ v.deposited = escrow[e].deposited
              /\ v.arbiters = set.arbiters /\ v.threshold = set.threshold
              /\ v.arbiter_approvals = {}
  <1> DEFINE v == [escrow[e] EXCEPT !.state = st, !.arbiters = set.arbiters,
                       !.threshold = set.threshold, !.arbiter_approved = FALSE,
                       !.arbiter_approvals = {}]
  <1>1. v \in EscrowAgreement
    BY AgreementTypes DEF EscrowAgreement
  <1>2. escrow' = [escrow EXCEPT ![e] = v]
    BY DEF ClearApprovals
  <1>3. /\ v.state = st /\ v.amount = escrow[e].amount
        /\ v.deposited = escrow[e].deposited
        /\ v.arbiters = set.arbiters /\ v.threshold = set.threshold
        /\ v.arbiter_approvals = {}
    BY AgreementTypes DEF EscrowAgreement
  <1> HIDE DEF v
  <1> QED
    BY <1>1, <1>2, <1>3, Becoming

LEMMA DepositEffect ==
    ASSUME TypeOK, NEW e \in Id, deposit(e)
    PROVE  \E v \in EscrowAgreement :
              /\ Becomes(e, v)
              /\ v.state = "Funded" /\ v.deposited = escrow[e].amount
              /\ v.amount = escrow[e].amount
              /\ v.arbiters = escrow[e].arbiters /\ v.threshold = escrow[e].threshold
              /\ v.arbiter_approvals = escrow[e].arbiter_approvals
  <1> DEFINE v == [escrow[e] EXCEPT !.state = "Funded", !.deposited = escrow[e].amount]
  <1>1. v \in EscrowAgreement
    BY AgreementTypes DEF EscrowAgreement, States
  <1>2. escrow' = [escrow EXCEPT ![e] = v]
    BY DEF deposit
  <1>3. /\ v.state = "Funded" /\ v.deposited = escrow[e].amount
        /\ v.amount = escrow[e].amount
        /\ v.arbiters = escrow[e].arbiters /\ v.threshold = escrow[e].threshold
        /\ v.arbiter_approvals = escrow[e].arbiter_approvals
    BY AgreementTypes DEF EscrowAgreement
  <1> HIDE DEF v
  <1> QED
    BY <1>1, <1>2, <1>3, Becoming

LEMMA CreateEffect ==
    ASSUME TypeOK, NEW amount \in Amount, NEW expires \in 1..MaxTime, NEW set \in ArbiterSet,
           create_escrow(amount, expires, set)
    PROVE  /\ count \in Nat /\ count' = count + 1 /\ count' \in Id
           /\ \E v \in EscrowAgreement :
                 /\ Becomes(count + 1, v)
                 /\ v.state = "Created" /\ v.amount = amount /\ v.deposited = 0
                 /\ v.arbiters = set.arbiters /\ v.threshold = set.threshold
                 /\ v.arbiter_approvals = {}
  <1> DEFINE v == [NoEscrow EXCEPT !.state = "Created", !.amount = amount,
                       !.expires_at = expires, !.arbiters = set.arbiters,
                       !.threshold = set.threshold]
  <1>1. /\ amount \in Nat /\ expires \in Nat
        /\ set.arbiters \in SUBSET Arbiter /\ set.threshold \in Nat
    BY EscrowConstants, FS_CardinalityType DEF ArbiterSet
  <1>2. v \in EscrowAgreement
    BY <1>1 DEF NoEscrow, EscrowAgreement, States
  <1>3. /\ v.state = "Created" /\ v.amount = amount /\ v.deposited = 0
        /\ v.arbiters = set.arbiters /\ v.threshold = set.threshold
        /\ v.arbiter_approvals = {}
    BY DEF NoEscrow
  <1>4. count \in Nat /\ count' = count + 1 /\ count + 1 \in Id
    BY EscrowConstants DEF TypeOK, Id, create_escrow
  <1>5. escrow' = [escrow EXCEPT ![count + 1] = v]
    BY DEF create_escrow
  <1> HIDE DEF v
  <1> QED
    BY <1>2, <1>3, <1>4, <1>5, Becoming

\* The flag and the state are kept opaque: what they are matters only at the end.
LEMMA ApproveEffect ==
    ASSUME TypeOK, NEW e \in Id, NEW a \in Arbiter, approve_release(e, a)
    PROVE  LET approvals == escrow[e].arbiter_approvals \cup {a}
           IN  \E v \in EscrowAgreement :
                 /\ Becomes(e, v)
                 /\ v.state = IF Enough(e, approvals) THEN "Approved" ELSE escrow[e].state
                 /\ v.deposited = escrow[e].deposited /\ v.amount = escrow[e].amount
                 /\ v.arbiters = escrow[e].arbiters /\ v.threshold = escrow[e].threshold
                 /\ v.arbiter_approvals = approvals
  <1> DEFINE approvals == escrow[e].arbiter_approvals \cup {a}
             flag == escrow[e].arbiter_approved \/ Enough(e, approvals)
             st == IF Enough(e, approvals) THEN "Approved" ELSE escrow[e].state
             v == [escrow[e] EXCEPT !.arbiter_approvals = approvals,
                       !.arbiter_approved = flag, !.state = st]
  <1>1. approvals \in SUBSET Arbiter
    BY AgreementTypes
  <1>2. flag \in BOOLEAN
    OBVIOUS
  <1>3. st \in States
    BY AgreementTypes DEF States
  <1>4. escrow' = [escrow EXCEPT ![e] = v]
    BY DEF approve_release
  <1> HIDE DEF approvals, flag, st
  <1>5. v \in EscrowAgreement
    BY <1>1, <1>2, <1>3, AgreementTypes DEF EscrowAgreement
  <1>6. /\ v.state = st
        /\ v.deposited = escrow[e].deposited /\ v.amount = escrow[e].amount
        /\ v.arbiters = escrow[e].arbiters /\ v.threshold = escrow[e].threshold
        /\ v.arbiter_approvals = approvals
    BY AgreementTypes DEF EscrowAgreement
  <1> HIDE DEF v
  <1>7. Becomes(e, v)
    BY <1>4, <1>5, Becoming
  <1> QED
    BY <1>5, <1>6, <1>7 DEF approvals, st

-----------------------------------------------------------------------------
(* The inductive invariant.                                                 *)

Finished(e) == escrow[e].state \in {"Released", "Refunded"}

\* What is true of each agreement: it exists once its number was given out, it
\* holds money only when funded, approvals are those since the last dispute or
\* rotation and short of the threshold while it is undecided, and a releasable
\* one was cleared.
EscrowInv(e) ==
    /\ escrow[e].threshold >= 1
    /\ escrow[e].state = "Absent" <=> e > count
    /\ escrow[e].state # "Absent" => escrow[e].amount > 0
    /\ escrow[e].state \in {"Absent", "Created"} => escrow[e].arbiter_approvals = {}
    /\ escrow[e].state \in {"Funded", "Approved", "Disputed"} => escrow[e].deposited > 0
    /\ escrow[e].state \in {"Funded", "Disputed"} =>
           Cardinality(escrow[e].arbiter_approvals) < escrow[e].threshold
    /\ fresh[e] = escrow[e].arbiter_approvals
    /\ escrow[e].state \in {"Approved", "Released"} => cleared[e] = TRUE

IInv == TypeOK /\ \A e \in Id : EscrowInv(e)

LEMMA EmptySet == Cardinality({}) = 0
  BY FS_EmptySet

\* A step on e leaves the invariant of the others alone.
LEMMA Others ==
    ASSUME IInv, NEW e, NEW v, Becomes(e, v),
           \A k \in Id : k # e => /\ fresh'[k] = fresh[k] /\ cleared'[k] = cleared[k]
                                  /\ (k > count') <=> (k > count)
    PROVE  \A k \in Id : k # e => EscrowInv(k)'
  BY DEF IInv, EscrowInv, Becomes

LEMMA InitIInv == Init => IInv
  <1> SUFFICES ASSUME Init PROVE IInv
    OBVIOUS
  <1>1. NoEscrow \in EscrowAgreement
    BY DEF NoEscrow, EscrowAgreement, States
  <1>2. escrow \in [Id -> EscrowAgreement] /\ \A e \in Id : escrow[e] = NoEscrow
    BY <1>1 DEF Init
  <1>3. TypeOK
    <2>1. now \in 0..MaxTime /\ count \in 0..MaxEscrows /\ vault \in Nat
      BY EscrowConstants DEF Init
    <2>3. admin \in BOOLEAN /\ pausedSince \in SUBSET Nat
      BY DEF Init
    <2>2. paid \in [Id -> [Role -> Nat]] /\ fresh \in [Id -> SUBSET Arbiter]
          /\ cleared \in [Id -> BOOLEAN]
      BY DEF Init
    <2> QED
      BY <1>2, <2>1, <2>2, <2>3 DEF TypeOK
  <1>4. ASSUME NEW e \in Id PROVE EscrowInv(e)
    <2>1. e > count
      BY EscrowConstants DEF Init, Id
    <2>2. fresh[e] = {}
      BY DEF Init
    <2> QED
      BY <1>2, <2>1, <2>2 DEF EscrowInv, NoEscrow
  <1> QED
    BY <1>3, <1>4 DEF IInv

-----------------------------------------------------------------------------
(* Steps, one lemma per entry point that touches an agreement.              *)

LEMMA CreateKeeps ==
    ASSUME IInv, NEW amount \in Amount, NEW expires \in 1..MaxTime, NEW set \in ArbiterSet,
           create_escrow(amount, expires, set)
    PROVE  IInv'
  <1>0. PICK e \in Id : e = count + 1
    BY CreateEffect DEF IInv
  <1>1. PICK v \in EscrowAgreement :
            /\ Becomes(e, v)
            /\ v.state = "Created" /\ v.amount = amount /\ v.deposited = 0
            /\ v.arbiters = set.arbiters /\ v.threshold = set.threshold
            /\ v.arbiter_approvals = {}
    BY <1>0, CreateEffect DEF IInv
  <1>2. /\ count \in Nat /\ count' = count + 1
        /\ UNCHANGED <<now, admin, pausedSince, vault, paid, fresh, cleared>>
        /\ amount > 0
    BY CreateEffect DEF IInv, create_escrow
  <1>3. set.threshold >= 1
    BY FS_CardinalityType, EscrowConstants DEF ArbiterSet
  <1>4. TypeOK'
    BY <1>0, <1>1, <1>2 DEF IInv, TypeOK, Becomes, Id
  <1>5. \A k \in Id : k # e => EscrowInv(k)'
    <2>1. \A k \in Id : k # e => ((k > count') <=> (k > count))
      BY <1>0, <1>2 DEF Id
    <2> QED
      BY <1>1, <1>2, <2>1, Others
  <1>6. EscrowInv(e)'
    <2>1. escrow[e].state = "Absent"
      BY <1>0, <1>2 DEF IInv, EscrowInv
    <2>2. fresh'[e] = {}
      BY <1>2, <2>1 DEF IInv, EscrowInv
    <2>3. ~(e > count')
      BY <1>0, <1>2
    <2>4. escrow'[e] = v
      BY <1>1 DEF Becomes
    <2> QED
      BY <1>1, <1>2, <1>3, <2>2, <2>3, <2>4 DEF EscrowInv
  <1> QED
    BY <1>4, <1>5, <1>6 DEF IInv

LEMMA DepositKeeps ==
    ASSUME IInv, NEW e \in Id, deposit(e)
    PROVE  IInv'
  <1>1. PICK v \in EscrowAgreement :
            /\ Becomes(e, v)
            /\ v.state = "Funded" /\ v.deposited = escrow[e].amount
            /\ v.amount = escrow[e].amount
            /\ v.arbiters = escrow[e].arbiters /\ v.threshold = escrow[e].threshold
            /\ v.arbiter_approvals = escrow[e].arbiter_approvals
    BY DepositEffect DEF IInv
  <1>2. /\ UNCHANGED <<now, admin, pausedSince, count, paid, fresh, cleared>>
        /\ vault' = vault + escrow[e].amount
        /\ escrow[e].state = "Created"
    BY DEF deposit, InState
  <1>3. TypeOK'
    <2>1. vault' \in Nat
      BY <1>2, AgreementTypes DEF IInv, TypeOK
    <2> QED
      BY <1>1, <1>2, <2>1 DEF IInv, TypeOK, Becomes
  <1>4. \A k \in Id : k # e => EscrowInv(k)'
    BY <1>1, <1>2, Others
  <1>5. EscrowInv(e)'
    <2>1. EscrowInv(e) /\ escrow'[e] = v /\ escrow[e].threshold \in Nat
      BY <1>1, AgreementTypes DEF IInv, Becomes
    <2>2. v.arbiter_approvals = {} /\ v.threshold >= 1
      BY <1>1, <1>2, <2>1 DEF EscrowInv
    <2>3. Cardinality(v.arbiter_approvals) = 0
      BY <2>2, EmptySet, Zenon
    <2>4. Cardinality(v.arbiter_approvals) < v.threshold
      BY <1>1, <2>1, <2>2, <2>3
    <2> QED
      BY <1>1, <1>2, <2>1, <2>4 DEF EscrowInv
  <1> QED
    BY <1>3, <1>4, <1>5 DEF IInv

LEMMA PayOutKeeps ==
    ASSUME IInv, NEW e \in Id, NEW role \in Role, NEW st \in {"Released", "Refunded"},
           PayOut(e, role, st), escrow[e].state # "Absent",
           st = "Released" => escrow[e].state = "Approved"
    PROVE  IInv'
  <1>0. st \in States
    BY DEF States
  <1>1. PICK v \in EscrowAgreement :
            /\ Becomes(e, v)
            /\ v.state = st /\ v.deposited = escrow[e].deposited
            /\ v.amount = escrow[e].amount
            /\ v.arbiters = escrow[e].arbiters /\ v.threshold = escrow[e].threshold
            /\ v.arbiter_approvals = escrow[e].arbiter_approvals
    BY <1>0, PayOutEffect DEF IInv
  <1>2. UNCHANGED <<now, admin, pausedSince, count, fresh, cleared>>
    BY DEF PayOut
  <1>3. TypeOK'
    <2>1. vault' \in Nat /\ paid' \in [Id -> [Role -> Nat]]
      BY <1>0, PayOutEffect DEF IInv
    <2> QED
      BY <1>1, <1>2, <2>1 DEF IInv, TypeOK, Becomes
  <1>4. \A k \in Id : k # e => EscrowInv(k)'
    BY <1>1, <1>2, Others
  <1>5. EscrowInv(e)'
    BY <1>1, <1>2 DEF IInv, EscrowInv, Becomes
  <1> QED
    BY <1>3, <1>4, <1>5 DEF IInv

LEMMA DisputeKeeps ==
    ASSUME IInv, NEW e \in Id, raise_dispute(e)
    PROVE  IInv'
  <1>1. escrow[e].arbiters \in SUBSET Arbiter /\ escrow[e].threshold \in Nat
        /\ "Disputed" \in States
    BY AgreementTypes DEF IInv, States
  <1>2. PICK v \in EscrowAgreement :
            /\ Becomes(e, v)
            /\ v.state = "Disputed" /\ v.amount = escrow[e].amount
            /\ v.deposited = escrow[e].deposited
            /\ v.arbiters = escrow[e].arbiters /\ v.threshold = escrow[e].threshold
            /\ v.arbiter_approvals = {}
    BY <1>1, ClearEffect DEF IInv, raise_dispute
  <1>3. /\ UNCHANGED <<now, admin, pausedSince, count, vault, paid>>
        /\ fresh' = [fresh EXCEPT ![e] = {}]
        /\ cleared' = [cleared EXCEPT ![e] = FALSE]
        /\ escrow[e].state \in {"Funded", "Approved"}
    BY DEF raise_dispute, InState
  <1>4. /\ fresh \in [Id -> SUBSET Arbiter] /\ cleared \in [Id -> BOOLEAN]
    BY DEF IInv, TypeOK
  <1>5. /\ fresh' \in [Id -> SUBSET Arbiter] /\ cleared' \in [Id -> BOOLEAN]
        /\ fresh'[e] = {}
        /\ \A k \in Id : k # e => fresh'[k] = fresh[k] /\ cleared'[k] = cleared[k]
    BY <1>3, <1>4
  <1>6. TypeOK'
    BY <1>2, <1>3, <1>5 DEF IInv, TypeOK, Becomes
  <1>7. \A k \in Id : k # e => EscrowInv(k)'
    BY <1>2, <1>3, <1>5, Others
  <1>8. EscrowInv(e)'
    <2>1. EscrowInv(e) /\ escrow'[e] = v /\ escrow[e].threshold \in Nat
      BY <1>2, AgreementTypes DEF IInv, Becomes
    <2>2. Cardinality(v.arbiter_approvals) < v.threshold
      BY <1>2, <2>1, EmptySet DEF EscrowInv
    <2> QED
      BY <1>2, <1>3, <1>5, <2>1, <2>2 DEF EscrowInv
  <1> QED
    BY <1>6, <1>7, <1>8 DEF IInv

LEMMA RotateKeeps ==
    ASSUME IInv, NEW e \in Id, NEW set \in ArbiterSet, rotate_arbiter_set(e, set)
    PROVE  IInv'
  <1>1. /\ set.arbiters \in SUBSET Arbiter /\ set.threshold \in Nat /\ set.threshold >= 1
        /\ escrow[e].state \in States
    BY AgreementTypes, FS_CardinalityType, EscrowConstants DEF IInv, ArbiterSet
  <1>2. PICK v \in EscrowAgreement :
            /\ Becomes(e, v)
            /\ v.state = escrow[e].state /\ v.amount = escrow[e].amount
            /\ v.deposited = escrow[e].deposited
            /\ v.arbiters = set.arbiters /\ v.threshold = set.threshold
            /\ v.arbiter_approvals = {}
    BY <1>1, ClearEffect DEF IInv, rotate_arbiter_set
  <1>3. /\ UNCHANGED <<now, admin, pausedSince, count, vault, paid, cleared>>
        /\ fresh' = [fresh EXCEPT ![e] = {}]
    BY DEF rotate_arbiter_set
  <1>4. fresh \in [Id -> SUBSET Arbiter]
    BY DEF IInv, TypeOK
  <1>5. /\ fresh' \in [Id -> SUBSET Arbiter] /\ fresh'[e] = {}
        /\ \A k \in Id : k # e => fresh'[k] = fresh[k] /\ cleared'[k] = cleared[k]
    BY <1>3, <1>4
  <1>6. TypeOK'
    BY <1>2, <1>3, <1>5 DEF IInv, TypeOK, Becomes
  <1>7. \A k \in Id : k # e => EscrowInv(k)'
    BY <1>2, <1>3, <1>5, Others
  <1>8. EscrowInv(e)'
    BY <1>1, <1>2, <1>3, <1>5, EmptySet DEF IInv, EscrowInv, Becomes
  <1> QED
    BY <1>6, <1>7, <1>8 DEF IInv

\* Short of the threshold the new approval is one more of the same dispute; at
\* the threshold it clears the release.
LEMMA ApproveKeeps ==
    ASSUME IInv, NEW e \in Id, NEW a \in Arbiter, approve_release(e, a)
    PROVE  IInv'
  <1> DEFINE approvals == escrow[e].arbiter_approvals \cup {a}
  <1>1. PICK v \in EscrowAgreement :
            /\ Becomes(e, v)
            /\ v.state = IF Enough(e, approvals) THEN "Approved" ELSE escrow[e].state
            /\ v.deposited = escrow[e].deposited /\ v.amount = escrow[e].amount
            /\ v.arbiters = escrow[e].arbiters /\ v.threshold = escrow[e].threshold
            /\ v.arbiter_approvals = approvals
    BY ApproveEffect DEF IInv
  <1>2. /\ UNCHANGED <<now, admin, pausedSince, count, vault, paid>>
        /\ fresh' = [fresh EXCEPT ![e] = @ \cup {a}]
        /\ cleared' = [cleared EXCEPT ![e] =
               @ \/ Cardinality(fresh[e] \cup {a}) >= escrow[e].threshold]
        /\ escrow[e].state \in {"Funded", "Disputed"}
    BY DEF approve_release, InState
  <1>3. fresh[e] = escrow[e].arbiter_approvals
    BY DEF IInv, EscrowInv
  <1>4. approvals \in SUBSET Arbiter /\ Cardinality(approvals) \in Nat
        /\ escrow[e].threshold \in Nat
    <2>1. approvals \in SUBSET Arbiter /\ escrow[e].threshold \in Nat
      BY AgreementTypes DEF IInv
    <2>2. IsFiniteSet(approvals)
      BY <2>1, EscrowConstants, FS_Subset
    <2> QED
      BY <2>1, <2>2, FS_CardinalityType
  <1>5. /\ fresh' \in [Id -> SUBSET Arbiter] /\ fresh'[e] = approvals
        /\ \A k \in Id : k # e => fresh'[k] = fresh[k]
    <2>1. fresh' = [fresh EXCEPT ![e] = approvals] /\ fresh \in [Id -> SUBSET Arbiter]
      BY <1>2, <1>3 DEF IInv, TypeOK
    <2> QED
      BY <1>4, <2>1
  <1>6. /\ cleared' \in [Id -> BOOLEAN]
        /\ Cardinality(approvals) >= escrow[e].threshold => cleared'[e] = TRUE
        /\ \A k \in Id : k # e => cleared'[k] = cleared[k]
    <2> DEFINE flag == cleared[e] \/ Cardinality(fresh[e] \cup {a}) >= escrow[e].threshold
    <2>1. flag \in BOOLEAN
      OBVIOUS
    <2>2. Cardinality(approvals) >= escrow[e].threshold => flag = TRUE
      BY <1>3
    <2>3. cleared' = [cleared EXCEPT ![e] = flag] /\ cleared \in [Id -> BOOLEAN]
      BY <1>2 DEF IInv, TypeOK
    <2> HIDE DEF flag
    <2> QED
      BY <2>1, <2>2, <2>3
  <1>7. TypeOK'
    BY <1>1, <1>2, <1>5, <1>6 DEF IInv, TypeOK, Becomes
  <1>8. \A k \in Id : k # e => EscrowInv(k)'
    BY <1>1, <1>2, <1>5, <1>6, Others
  <1>9. EscrowInv(e)'
    <2>1. EscrowInv(e) /\ escrow'[e] = v
      BY <1>1 DEF IInv, Becomes
    <2>2. CASE Cardinality(approvals) >= escrow[e].threshold
      <3>1. v.state = "Approved" /\ cleared'[e] = TRUE
        BY <1>1, <1>6, <2>2 DEF Enough
      <3> HIDE DEF approvals
      <3> QED
        BY <1>1, <1>2, <1>5, <2>1, <3>1 DEF EscrowInv
    <2>3. CASE ~(Cardinality(approvals) >= escrow[e].threshold)
      <3>1. v.state = escrow[e].state /\ Cardinality(approvals) < escrow[e].threshold
        BY <1>1, <1>4, <2>3 DEF Enough
      <3> HIDE DEF approvals
      <3> QED
        BY <1>1, <1>2, <1>5, <2>1, <3>1 DEF EscrowInv
    <2> QED
      BY <2>2, <2>3
  <1> QED
    BY <1>7, <1>8, <1>9 DEF IInv

LEMMA QuietKeeps ==
    ASSUME IInv, Initialize \/ pause \/ unpause \/ Tick \/ UNCHANGED vars
    PROVE  IInv'
  <1>1. UNCHANGED <<count, escrow, vault, paid, fresh, cleared>>
    BY DEF Initialize, pause, unpause, Tick, vars
  <1>2. TypeOK
    BY DEF IInv
  <1>3. now' \in 0..MaxTime
    BY <1>2, EscrowConstants DEF TypeOK, Initialize, pause, unpause, Tick, vars
  <1>4. admin' \in BOOLEAN
    BY <1>2 DEF TypeOK, Initialize, pause, unpause, Tick, vars
  <1>5. pausedSince' \in SUBSET Nat
    <2>1. CASE pause
      BY <1>2, <2>1, EscrowConstants DEF TypeOK, pause
    <2>2. CASE unpause
      BY <2>2 DEF unpause
    <2>3. CASE Initialize \/ Tick \/ UNCHANGED vars
      BY <1>2, <2>3 DEF TypeOK, Initialize, Tick, vars
    <2> QED
      BY <2>1, <2>2, <2>3
  <1> QED
    BY <1>1, <1>3, <1>4, <1>5 DEF IInv, TypeOK, EscrowInv

\* Whatever the caller, a call that pays out meets what PayOutKeeps asks for.
LEMMA Payments ==
    ASSUME IInv, NEW e \in Id,
           release(e) \/ refund(e) \/ escape_hatch_withdraw(e)
    PROVE  \E role \in Role, st \in {"Released", "Refunded"} :
               /\ PayOut(e, role, st)
               /\ escrow[e].state \in {"Funded", "Approved", "Disputed"}
               /\ st = "Released" => escrow[e].state = "Approved"
  <1>1. CASE release(e)
    BY <1>1 DEF release, InState, Role
  <1>2. CASE refund(e)
    BY <1>2 DEF refund, Refundable, InState, Role
  <1>3. CASE escape_hatch_withdraw(e)
    BY <1>3 DEF escape_hatch_withdraw, Escapable, Held, InState, Role
  <1> QED
    BY <1>1, <1>2, <1>3

LEMMA NextKeeps == IInv /\ [Next]_vars => IInv'
  <1> SUFFICES ASSUME IInv, [Next]_vars PROVE IInv'
    OBVIOUS
  <1>1. CASE Initialize \/ pause \/ unpause \/ Tick \/ UNCHANGED vars
    BY <1>1, QuietKeeps
  <1>2. ASSUME NEW amount \in Amount, NEW expires \in 1..MaxTime, NEW set \in ArbiterSet,
               create_escrow(amount, expires, set)
        PROVE  IInv'
    BY <1>2, CreateKeeps
  <1>3. ASSUME NEW e \in Id, release(e) \/ refund(e) \/ escape_hatch_withdraw(e)
        PROVE  IInv'
    BY <1>3, Payments, PayOutKeeps
  <1>4. ASSUME NEW e \in Id, deposit(e) PROVE IInv'
    BY <1>4, DepositKeeps
  <1>5. ASSUME NEW e \in Id, raise_dispute(e) PROVE IInv'
    BY <1>5, DisputeKeeps
  <1>6. ASSUME NEW e \in Id, NEW a \in Arbiter, approve_release(e, a) PROVE IInv'
    BY <1>6, ApproveKeeps
  <1>7. ASSUME NEW e \in Id, NEW set \in ArbiterSet, rotate_arbiter_set(e, set) PROVE IInv'
    BY <1>7, RotateKeeps
  <1> QED
    BY <1>1, <1>2, <1>3, <1>4, <1>5, <1>6, <1>7 DEF Next

-----------------------------------------------------------------------------
(* What follows.                                                            *)

\* IInv holds in every state.
THEOREM Invariance == Spec => []IInv
  BY InitIInv, NextKeeps, PTL DEF Spec

\* Every variable keeps its type; in particular the vault never goes below zero.
THEOREM TypeCorrect == Spec => []TypeOK
  <1>1. IInv => TypeOK
    BY DEF IInv
  <1> QED
    BY <1>1, Invariance, PTL

\* An escrow that can be or was released had a full quorum's approval since its
\* last dispute, whatever approvals, disputes and rotations came in which order.
THEOREM ClearedRelease == Spec => []ReleaseCleared
  <1>1. IInv => ReleaseCleared
    BY DEF IInv, EscrowInv, ReleaseCleared, InState
  <1> QED
    BY <1>1, Invariance, PTL

Unresolvable == \A e \in Id : ~CanResolve(e)

\* resolve_dispute never goes through, for any arbiters, threshold and order of
\* calls: no disputed escrow ever has a quorum, and so no split is ever paid.
THEOREM NeverResolvable == Spec => []Unresolvable
  <1>1. ASSUME IInv, NEW e \in Id PROVE ~CanResolve(e)
    <2>1. escrow[e].threshold \in Nat /\ Cardinality(escrow[e].arbiter_approvals) \in Nat
      <3>1. escrow[e].arbiter_approvals \in SUBSET Arbiter /\ escrow[e].threshold \in Nat
        BY <1>1, AgreementTypes DEF IInv
      <3> QED
        BY <3>1, EscrowConstants, FS_Subset, FS_CardinalityType
    <2> QED
      BY <1>1, <2>1 DEF IInv, EscrowInv, CanResolve, InState, quorum_reached
  <1>2. IInv => Unresolvable
    BY <1>1 DEF Unresolvable
  <1> QED
    BY <1>2, Invariance, PTL

-----------------------------------------------------------------------------
(* The escrow keeps the promise of ChannelLedger.                           *)

HeldIn(e) == IF Held(e) THEN escrow[e].deposited ELSE 0
HeldBy == [e \in Id |-> HeldIn(e)]
PaidBy == [e \in Id |-> paid[e]["payer"] + paid[e]["payee"]]
SettledBy == [e \in Id |-> InState(e, {"Released", "Refunded"})]

\* What a step that turns e into v means to the ledger.
LEMMA LedgerEffect ==
    ASSUME TypeOK, NEW e \in Id, NEW v \in EscrowAgreement, Becomes(e, v)
    PROVE  /\ HeldBy' = [HeldBy EXCEPT ![e] =
                  IF v.state \in {"Funded", "Approved", "Disputed"} THEN v.deposited ELSE 0]
           /\ SettledBy' = [SettledBy EXCEPT ![e] = v.state \in {"Released", "Refunded"}]
  <1> DEFINE h == IF v.state \in {"Funded", "Approved", "Disputed"} THEN v.deposited ELSE 0
             f == v.state \in {"Released", "Refunded"}
  <1>1. HeldIn(e)' = h /\ \A k \in Id : k # e => HeldIn(k)' = HeldIn(k)
    BY DEF Becomes, HeldIn, Held, InState
  <1>2. HeldBy' = [HeldBy EXCEPT ![e] = h]
    <2> HIDE DEF h
    <2> QED
      BY <1>1 DEF HeldBy
  <1>3. /\ InState(e, {"Released", "Refunded"})' = f
        /\ \A k \in Id : k # e => InState(k, {"Released", "Refunded"})'
                                    = InState(k, {"Released", "Refunded"})
    BY DEF Becomes, InState
  <1>4. SettledBy' = [SettledBy EXCEPT ![e] = f]
    <2> HIDE DEF f
    <2> QED
      BY <1>3, Zenon DEF SettledBy
  <1> QED
    BY <1>2, <1>4

\* A step that moves no money and keeps e on the same side of funded and finished.
LEMMA LedgerStutter ==
    ASSUME TypeOK, NEW e \in Id, NEW v \in EscrowAgreement, Becomes(e, v),
           paid' = paid, vault' = vault,
           v.state \in {"Funded", "Approved", "Disputed"} <=> Held(e),
           Held(e) => v.deposited = escrow[e].deposited,
           v.state \in {"Released", "Refunded"} <=> escrow[e].state \in {"Released", "Refunded"}
    PROVE  UNCHANGED <<HeldBy, PaidBy, SettledBy, vault>>
  <1>1. HeldIn(e)' = HeldIn(e) /\ \A k \in Id : k # e => HeldIn(k)' = HeldIn(k)
    BY DEF Becomes, HeldIn, Held, InState
  <1>2. HeldBy' = HeldBy
    BY <1>1 DEF HeldBy
  <1>3. \A k \in Id : InState(k, {"Released", "Refunded"})'
                         = InState(k, {"Released", "Refunded"})
    BY DEF Becomes, InState
  <1>4. SettledBy' = SettledBy
    BY <1>3, Zenon DEF SettledBy
  <1>5. PaidBy' = PaidBy
    BY DEF PaidBy
  <1> QED
    BY <1>2, <1>4, <1>5

LEMMA LedgerLock ==
    ASSUME IInv, NEW e \in Id, deposit(e)
    PROVE  Ledger!Lock(e)
  <1>1. PICK v \in EscrowAgreement :
            /\ Becomes(e, v)
            /\ v.state = "Funded" /\ v.deposited = escrow[e].amount
    BY DepositEffect DEF IInv
  <1>2. /\ escrow[e].state = "Created" /\ paid' = paid
        /\ escrow[e].amount \in Nat /\ escrow[e].amount > 0
    BY AgreementTypes DEF deposit, InState, IInv, EscrowInv
  <1>3. /\ HeldBy' = [HeldBy EXCEPT ![e] = escrow[e].amount]
        /\ SettledBy' = [SettledBy EXCEPT ![e] = FALSE]
    <2>1. (v.state \in {"Released", "Refunded"}) = FALSE
      BY <1>1
    <2>2. v.state \in {"Funded", "Approved", "Disputed"}
      BY <1>1
    <2> QED
      BY <1>1, <2>1, <2>2, LedgerEffect DEF IInv
  <1>4. HeldBy[e] = 0 /\ SettledBy[e] = FALSE /\ ~SettledBy[e]
    <2>1. HeldBy[e] = 0
      BY <1>2 DEF HeldBy, HeldIn, Held, InState
    <2>2. (escrow[e].state \in {"Released", "Refunded"}) = FALSE
      BY <1>2
    <2>3. SettledBy[e] = FALSE
      BY <2>2, Zenon DEF SettledBy, InState
    <2> QED
      BY <2>1, <2>3
  <1>5. HeldBy = [k \in Id |-> HeldBy[k]] /\ SettledBy = [k \in Id |-> SettledBy[k]]
    BY DEF HeldBy, SettledBy
  <1>6. PaidBy' = PaidBy
    BY <1>2 DEF PaidBy
  <1>8. vault' = vault + HeldBy'[e] - HeldBy[e]
    <2>1. HeldBy'[e] = escrow[e].amount
      <3> HIDE DEF HeldBy
      <3> QED
        BY <1>3, <1>5
    <2>2. vault' = vault + escrow[e].amount /\ vault \in Nat
      BY DEF deposit, IInv, TypeOK
    <2> QED
      BY <1>2, <1>4, <2>1, <2>2
  <1>7. /\ HeldBy' = [HeldBy EXCEPT ![e] = HeldBy'[e]] /\ HeldBy'[e] > HeldBy[e]
        /\ SettledBy' = SettledBy
    <2> HIDE DEF HeldBy, SettledBy
    <2> QED
      BY <1>2, <1>3, <1>4, <1>5
  <1> QED
    BY <1>4, <1>6, <1>7, <1>8 DEF Ledger!Lock, Ledger!Move, HeldBy, HeldIn, PaidBy, SettledBy

LEMMA LedgerPayment ==
    ASSUME IInv, NEW e \in Id, NEW role \in Role, NEW st \in {"Released", "Refunded"},
           PayOut(e, role, st), Held(e)
    PROVE  Ledger!Release(e)
  <1>0. st \in States
    BY DEF States
  <1>1. PICK v \in EscrowAgreement : Becomes(e, v) /\ v.state = st
    BY <1>0, PayOutEffect DEF IInv
  <1>2. /\ HeldBy' = [HeldBy EXCEPT ![e] = 0]
        /\ SettledBy' = [SettledBy EXCEPT ![e] = TRUE]
    <2>1. (v.state \in {"Released", "Refunded"}) = TRUE
      BY <1>1
    <2>2. v.state \notin {"Funded", "Approved", "Disputed"}
      BY <1>1
    <2> QED
      BY <1>1, <2>1, <2>2, LedgerEffect DEF IInv
  <1>3. /\ HeldBy[e] = escrow[e].deposited /\ escrow[e].deposited \in Nat
        /\ ~SettledBy[e]
    BY AgreementTypes DEF IInv, HeldBy, HeldIn, Held, SettledBy, InState
  <1>4. HeldBy'[e] = 0 /\ HeldBy = [k \in Id |-> HeldBy[k]]
    <2>1. HeldBy = [k \in Id |-> HeldBy[k]]
      BY DEF HeldBy
    <2> HIDE DEF HeldBy
    <2> QED
      BY <1>2, <2>1
  <1>5. PaidBy' = [PaidBy EXCEPT ![e] = @ + HeldBy[e] - HeldBy'[e]]
    <2>1. /\ paid \in [Id -> [Role -> Nat]] /\ paid' \in [Id -> [Role -> Nat]]
          /\ paid'[e][role] = paid[e][role] + escrow[e].deposited
          /\ \A k \in Id, r \in Role : k # e \/ r # role => paid'[k][r] = paid[k][r]
      BY <1>0, PayOutEffect DEF IInv, TypeOK
    <2>2. paid'[e]["payer"] + paid'[e]["payee"]
            = paid[e]["payer"] + paid[e]["payee"] + escrow[e].deposited - 0
      BY <1>3, <2>1 DEF Role
    <2>3. \A k \in Id : k # e =>
             paid'[k]["payer"] + paid'[k]["payee"] = paid[k]["payer"] + paid[k]["payee"]
      BY <2>1 DEF Role
    <2> HIDE DEF HeldBy
    <2> QED
      BY <1>3, <1>4, <2>2, <2>3 DEF PaidBy
  <1>6. HeldBy' = [HeldBy EXCEPT ![e] = HeldBy'[e]] /\ 0 <= HeldBy'[e] /\ HeldBy'[e] <= HeldBy[e]
    <2> HIDE DEF HeldBy
    <2> QED
      BY <1>2, <1>3, <1>4
  <1>7. vault' = vault + HeldBy'[e] - HeldBy[e]
    <2>1. vault' = vault - escrow[e].deposited /\ vault \in Nat
      BY DEF PayOut, IInv, TypeOK
    <2> QED
      BY <1>3, <1>4, <2>1
  <1> QED
    BY <1>2, <1>3, <1>4, <1>5, <1>6, <1>7
       DEF Ledger!Release, Ledger!Move, HeldBy, HeldIn, PaidBy, SettledBy

LEMMA LedgerQuiet ==
    ASSUME IInv,
           \/ Initialize \/ pause \/ unpause \/ Tick \/ UNCHANGED vars
           \/ \E amount \in Amount, expires \in 1..MaxTime, set \in ArbiterSet :
                  create_escrow(amount, expires, set)
           \/ \E e \in Id : \/ raise_dispute(e)
                            \/ \E a \in Arbiter : approve_release(e, a)
                            \/ \E set \in ArbiterSet : rotate_arbiter_set(e, set)
    PROVE  UNCHANGED <<HeldBy, PaidBy, SettledBy, vault>>
  <1>1. CASE Initialize \/ pause \/ unpause \/ Tick \/ UNCHANGED vars
    <2>1. UNCHANGED <<escrow, paid, vault>>
      BY <1>1 DEF Initialize, pause, unpause, Tick, vars
    <2> QED
      BY <2>1 DEF HeldBy, HeldIn, Held, PaidBy, SettledBy, InState
  <1>2. ASSUME NEW amount \in Amount, NEW expires \in 1..MaxTime, NEW set \in ArbiterSet,
               create_escrow(amount, expires, set)
        PROVE  UNCHANGED <<HeldBy, PaidBy, SettledBy, vault>>
    <2>1. PICK e \in Id : e = count + 1
      BY <1>2, CreateEffect DEF IInv
    <2>2. PICK v \in EscrowAgreement : Becomes(e, v) /\ v.state = "Created"
      BY <1>2, <2>1, CreateEffect DEF IInv
    <2>3. paid' = paid /\ vault' = vault /\ count \in Nat
      BY <1>2, CreateEffect DEF IInv, create_escrow
    <2>4. escrow[e].state = "Absent"
      BY <2>1, <2>3 DEF IInv, EscrowInv
    <2> QED
      BY <2>2, <2>3, <2>4, LedgerStutter DEF IInv, Held, InState
  <1>3. ASSUME NEW e \in Id, raise_dispute(e)
        PROVE  UNCHANGED <<HeldBy, PaidBy, SettledBy, vault>>
    <2>1. escrow[e].arbiters \in SUBSET Arbiter /\ escrow[e].threshold \in Nat
          /\ "Disputed" \in States
      BY AgreementTypes DEF IInv, States
    <2>2. PICK v \in EscrowAgreement : /\ Becomes(e, v) /\ v.state = "Disputed"
                                       /\ v.deposited = escrow[e].deposited
      BY <1>3, <2>1, ClearEffect DEF IInv, raise_dispute
    <2>3. escrow[e].state \in {"Funded", "Approved"} /\ paid' = paid /\ vault' = vault
      BY <1>3 DEF raise_dispute, InState
    <2> QED
      BY <2>2, <2>3, LedgerStutter DEF IInv, Held, InState
  <1>4. ASSUME NEW e \in Id, NEW a \in Arbiter, approve_release(e, a)
        PROVE  UNCHANGED <<HeldBy, PaidBy, SettledBy, vault>>
    <2>1. PICK v \in EscrowAgreement : /\ Becomes(e, v)
                                       /\ v.state \in {"Approved", escrow[e].state}
                                       /\ v.deposited = escrow[e].deposited
      BY <1>4, ApproveEffect DEF IInv
    <2>2. escrow[e].state \in {"Funded", "Disputed"} /\ paid' = paid /\ vault' = vault
      BY <1>4 DEF approve_release, InState
    <2> QED
      BY <2>1, <2>2, LedgerStutter DEF IInv, Held, InState
  <1>5. ASSUME NEW e \in Id, NEW set \in ArbiterSet, rotate_arbiter_set(e, set)
        PROVE  UNCHANGED <<HeldBy, PaidBy, SettledBy, vault>>
    <2>1. /\ set.arbiters \in SUBSET Arbiter /\ set.threshold \in Nat
          /\ escrow[e].state \in States
      BY <1>5, AgreementTypes, FS_CardinalityType, EscrowConstants DEF IInv, ArbiterSet
    <2>2. PICK v \in EscrowAgreement : /\ Becomes(e, v) /\ v.state = escrow[e].state
                                       /\ v.deposited = escrow[e].deposited
      BY <1>5, <2>1, ClearEffect DEF IInv, rotate_arbiter_set
    <2>3. paid' = paid /\ vault' = vault
      BY <1>5 DEF rotate_arbiter_set
    <2> QED
      BY <2>2, <2>3, LedgerStutter DEF IInv, Held, InState
  <1> QED
    BY <1>1, <1>2, <1>3, <1>4, <1>5

LEMMA LedgerStarts == Init => Ledger!LedgerInit
  <1> SUFFICES ASSUME Init PROVE Ledger!LedgerInit
    OBVIOUS
  <1>1. \A e \in Id : escrow[e].state = "Absent" /\ paid[e]["payer"] = 0 /\ paid[e]["payee"] = 0
    BY DEF Init, NoEscrow, Role
  <1>2. HeldBy = [e \in Id |-> 0]
    BY <1>1 DEF HeldBy, HeldIn, Held, InState
  <1>3. PaidBy = [e \in Id |-> 0]
    BY <1>1 DEF PaidBy
  <1>4. \A e \in Id : InState(e, {"Released", "Refunded"}) = FALSE
    BY <1>1 DEF InState
  <1>5. SettledBy = [e \in Id |-> FALSE]
    BY <1>4, Zenon DEF SettledBy
  <1>6. vault = 0
    BY DEF Init
  <1> QED
    BY <1>2, <1>3, <1>5, <1>6 DEF Ledger!LedgerInit, HeldBy, HeldIn, PaidBy, SettledBy

LEMMA LedgerSteps == IInv /\ [Next]_vars => [Ledger!LedgerNext]_(Ledger!lvars)
  <1> SUFFICES ASSUME IInv, [Next]_vars PROVE Ledger!LedgerNext \/ UNCHANGED Ledger!lvars
    OBVIOUS
  <1>1. ASSUME UNCHANGED <<HeldBy, PaidBy, SettledBy, vault>> PROVE UNCHANGED Ledger!lvars
    BY <1>1 DEF HeldBy, HeldIn, PaidBy, SettledBy, Ledger!lvars
  <1>2. ASSUME NEW e \in Id, deposit(e) PROVE Ledger!LedgerNext
    BY <1>2, LedgerLock DEF Ledger!LedgerNext
  <1>3. ASSUME NEW e \in Id, release(e) \/ refund(e) \/ escape_hatch_withdraw(e)
        PROVE  Ledger!LedgerNext
    <2>1. PICK role \in Role, st \in {"Released", "Refunded"} :
              PayOut(e, role, st) /\ escrow[e].state \in {"Funded", "Approved", "Disputed"}
      BY <1>3, Payments
    <2>2. Ledger!Release(e)
      BY <2>1, LedgerPayment DEF Held, InState
    <2> QED
      BY <2>2 DEF Ledger!LedgerNext
  <1> QED
    BY <1>1, <1>2, <1>3, LedgerQuiet DEF Next

\* Every escrow behaves like an account of ChannelLedger: its deposit leaves it
\* once, whole, to one side, and no call on one escrow touches another.
THEOREM KeepsLedger == Spec => ImplementsLedger
  BY LedgerStarts, LedgerSteps, Invariance, PTL DEF Spec, ImplementsLedger, Ledger!LedgerSpec

-----------------------------------------------------------------------------
(* The vault.  Every token an escrow holds is a pair of the escrow and a       *)
(* number, so that counting tokens is adding up what the escrows hold.         *)

Tokens(f) == UNION {{c} \X (1..f[c]) : c \in Id}

LEMMA TokensOfOne ==
    ASSUME NEW c, NEW n \in Nat
    PROVE  IsFiniteSet({c} \X (1..n)) /\ Cardinality({c} \X (1..n)) = n
  <1>1. IsFiniteSet({c}) /\ Cardinality({c}) = 1
    BY FS_Singleton
  <1>2. IsFiniteSet(1..n) /\ Cardinality(1..n) = n
    BY FS_Interval
  <1>3. /\ IsFiniteSet({c} \X (1..n))
        /\ Cardinality({c} \X (1..n)) = Cardinality({c}) * Cardinality(1..n)
    BY <1>1, <1>2, FS_Product, Zenon
  <1> QED
    BY <1>1, <1>2, <1>3

\* Two finite sets that share nothing.
LEMMA Disjoint ==
    ASSUME NEW S, NEW T, IsFiniteSet(S), IsFiniteSet(T), S \cap T = {}
    PROVE  IsFiniteSet(S \cup T) /\ Cardinality(S \cup T) = Cardinality(S) + Cardinality(T)
  <1>1. /\ IsFiniteSet(S \cup T)
        /\ Cardinality(S \cup T) = Cardinality(S) + Cardinality(T) - Cardinality(S \cap T)
    BY FS_Union, Zenon
  <1>2. Cardinality(S \cap T) = 0
    BY FS_EmptySet, Zenon
  <1>3. Cardinality(S) \in Nat /\ Cardinality(T) \in Nat
    BY FS_CardinalityType, Zenon
  <1> QED
    BY <1>1, <1>2, <1>3

\* When one account changes, so does the number of all tokens, by as many.
LEMMA Recount ==
    ASSUME NEW f \in [Id -> Nat], NEW g \in [Id -> Nat], NEW c \in Id,
           \A k \in Id : k # c => g[k] = f[k],
           IsFiniteSet(Tokens(f))
    PROVE  /\ IsFiniteSet(Tokens(g))
           /\ Cardinality(Tokens(g)) = Cardinality(Tokens(f)) + g[c] - f[c]
  <1> DEFINE Rest == UNION {{k} \X (1..f[k]) : k \in Id \ {c}}
             F == {c} \X (1..f[c])
             G == {c} \X (1..g[c])
  <1>1. /\ IsFiniteSet(F) /\ Cardinality(F) = f[c]
        /\ IsFiniteSet(G) /\ Cardinality(G) = g[c]
    BY TokensOfOne
  <1>2. Rest \cap F = {} /\ Rest \cap G = {}
    OBVIOUS
  <1>3. Tokens(f) = Rest \cup F
    BY DEF Tokens
  <1>4. Tokens(g) = Rest \cup G
    <2>1. \A k \in Id \ {c} : {k} \X (1..g[k]) = {k} \X (1..f[k])
      OBVIOUS
    <2>2. Rest = UNION {{k} \X (1..g[k]) : k \in Id \ {c}}
      BY <2>1, Zenon
    <2> QED
      BY <2>2 DEF Tokens
  <1> HIDE DEF Rest, F, G
  <1>5. IsFiniteSet(Rest)
    BY <1>3, FS_Subset
  <1>6. Cardinality(Rest) \in Nat
    BY <1>5, FS_CardinalityType
  <1>7. /\ IsFiniteSet(Rest \cup G)
        /\ Cardinality(Rest \cup G) = Cardinality(Rest) + Cardinality(G)
    BY <1>1, <1>2, <1>5, Disjoint, Zenon
  <1>8. Cardinality(Rest \cup F) = Cardinality(Rest) + Cardinality(F)
    BY <1>1, <1>2, <1>5, Disjoint, Zenon
  <1> QED
    BY <1>1, <1>3, <1>4, <1>6, <1>7, <1>8

\* A finite number of tokens, as many as the vault holds.
Balanced == IsFiniteSet(Tokens(HeldBy)) /\ vault = Cardinality(Tokens(HeldBy))

HeldOK == HeldBy \in [Id -> Nat]

LEMMA HeldTypes == IInv => HeldOK
  BY AgreementTypes DEF HeldOK, HeldBy, HeldIn, IInv

LEMMA InitBalanced == Init => Balanced
  <1> SUFFICES ASSUME Init PROVE Balanced
    OBVIOUS
  <1>1. HeldBy = [c \in Id |-> 0] /\ vault = 0
    BY LedgerStarts DEF Ledger!LedgerInit, HeldBy, HeldIn
  <1>2. Tokens(HeldBy) = {}
    BY <1>1 DEF Tokens
  <1> QED
    BY <1>1, <1>2, FS_EmptySet DEF Balanced

LEMMA NextBalanced ==
    ASSUME HeldOK, HeldOK', Balanced, [Ledger!LedgerNext]_(Ledger!lvars)
    PROVE  Balanced'
  <1>1. HeldBy \in [Id -> Nat] /\ HeldBy' \in [Id -> Nat]
    BY DEF HeldOK
  <1>2. CASE UNCHANGED Ledger!lvars
    <2>1. HeldBy' = HeldBy /\ vault' = vault
      BY <1>2 DEF Ledger!lvars, HeldBy, HeldIn
    <2> QED
      BY <2>1 DEF Balanced, Tokens
  <1>3. ASSUME NEW c \in Id, Ledger!Lock(c) \/ Ledger!Release(c)
        PROVE  Balanced'
    <2>1. /\ HeldBy' = [HeldBy EXCEPT ![c] = HeldBy'[c]]
          /\ vault' = vault + HeldBy'[c] - HeldBy[c]
      BY <1>3 DEF Ledger!Lock, Ledger!Release, Ledger!Move, HeldBy, HeldIn
    <2>2. \A k \in Id : k # c => HeldBy'[k] = HeldBy[k]
      BY <1>1, <2>1
    <2>3. /\ IsFiniteSet(Tokens(HeldBy'))
          /\ Cardinality(Tokens(HeldBy')) = Cardinality(Tokens(HeldBy)) + HeldBy'[c] - HeldBy[c]
      BY <1>1, <2>2, Recount DEF Balanced
    <2>4. Tokens(HeldBy)' = Tokens(HeldBy')
      BY DEF Tokens
    <2> QED
      BY <2>1, <2>3, <2>4 DEF Balanced
  <1> QED
    BY <1>2, <1>3 DEF Ledger!LedgerNext, Ledger!Breach

LEMMA AlwaysBalanced == Spec => []Balanced
  <1>1. IInv /\ HeldOK /\ HeldOK' /\ Balanced /\ [Next]_vars => Balanced'
    BY LedgerSteps, NextBalanced
  <1> QED
    BY <1>1, InitBalanced, HeldTypes, Invariance, PTL DEF Spec

\* The token balance of the contract is what its unfinished escrows hold together.
THEOREM VaultIsHeld == Spec => []Solvent
  <1>1. Balanced => Solvent
    <2>1. Ledger!Token = Tokens(HeldBy)
      BY DEF Ledger!Token, Tokens, HeldBy, HeldIn
    <2> QED
      BY <2>1 DEF Solvent, Balanced
  <1> QED
    BY <1>1, AlwaysBalanced, PTL

\* No payout ever traps for want of tokens: while an escrow holds its deposit the
\* vault has it, whatever was paid from other escrows.
Covered == \A e \in Id : Held(e) => vault >= escrow[e].deposited

THEOREM PayoutsCovered == Spec => []Covered
  <1>1. ASSUME IInv, Balanced, NEW e \in Id, Held(e)
        PROVE  vault >= escrow[e].deposited
    <2>1. HeldBy[e] = escrow[e].deposited /\ escrow[e].deposited \in Nat
      BY <1>1, AgreementTypes DEF HeldBy, HeldIn, IInv
    <2>2. {e} \X (1..HeldBy[e]) \subseteq Tokens(HeldBy)
      BY DEF Tokens
    <2>3. Cardinality({e} \X (1..HeldBy[e])) <= Cardinality(Tokens(HeldBy))
      BY <1>1, <2>2, FS_Subset DEF Balanced
    <2> QED
      BY <1>1, <2>1, <2>3, TokensOfOne DEF Balanced
  <1>2. IInv /\ Balanced => Covered
    BY <1>1 DEF Covered
  <1> QED
    BY <1>2, AlwaysBalanced, Invariance, PTL
=============================================================================
