-------------------------- MODULE MeteredCallProofs --------------------------
(***************************************************************************)
(* Proofs about the gateway's paid requests, for any number of concurrent  *)
(* requests, channels and nonces, and any prices and caps.                 *)
(***************************************************************************)
EXTENDS MeteredCall, FiniteSetTheorems, TLAPS

\* A step of Next, action by action.
LEMMA NextCases ==
    ASSUME [Next]_vars
    PROVE  \/ \E c \in Calls, ch \in Channels, s \in Seqs, n \in Nonces : Admit(c, ch, s, n)
           \/ \E c \in Calls : Answer(c) \/ Fail(c) \/ Disconnect(c)
           \/ \E n \in Nonces : Forget(n)
           \/ \E amount \in Payable : SettleOnChain(amount)
           \/ CacheCap \/ EndCap \/ Reconcile \/ Restart
           \/ UNCHANGED vars
  BY DEF Next, Proof, Outcome, Refuse

LEMMA PayableAmounts ==
    ASSUME TypeOK, NEW amount \in Payable
    PROVE  amount \in Nat /\ amount > 0 /\ amount <= consumed /\ amount <= chainCap
  BY DEF Payable, TypeOK

-----------------------------------------------------------------------------
(* Types                                                                   *)

LEMMA TypeInit == ASSUME Init PROVE TypeOK
  BY MeteredConstants DEF Init, TypeOK, NoCalls, NoReservations, NoProofs, NoUses, MeteredConstants

LEMMA TypeAdmit ==
    ASSUME TypeOK, NEW c \in Calls, NEW ch \in Channels, NEW s \in Seqs, NEW n \in Nonces,
           Admit(c, ch, s, n)
    PROVE  TypeOK'
  <1>1. uses' \in [Channels \X Seqs -> Nat]
    BY DEF TypeOK, Admit
  <1>2. latest' \in [Channels -> 0..MaxSeq] /\ seen' \in SUBSET Nonces
    BY MeteredConstants DEF TypeOK, Admit, Seqs, MeteredConstants
  <1>3. call' \in [Calls -> {"idle", "upstream"}]
        /\ reservation' \in [Calls -> {"none", "reserved", "committed", "released"}]
    BY DEF TypeOK, Admit
  <1> QED
    BY <1>1, <1>2, <1>3 DEF TypeOK, Admit, capVars, chainVars

\* What release and commit do to the reservations.
LEMMA TypeRelease ==
    ASSUME TypeOK, NEW c \in Calls, Release(c)
    PROVE  /\ reservation' \in [Calls -> {"none", "reserved", "committed", "released"}]
           /\ released' \in Nat
  BY DEF TypeOK, Release

LEMMA TypeCommit ==
    ASSUME TypeOK, NEW c \in Calls, Commit(c)
    PROVE  /\ reservation' \in [Calls -> {"none", "reserved", "committed", "released"}]
           /\ committed' \in Nat
  BY DEF TypeOK, Commit

LEMMA TypeOutcome ==
    ASSUME TypeOK, NEW c \in Calls, Answer(c) \/ Fail(c) \/ Disconnect(c)
    PROVE  TypeOK'
  <1>1. CASE Answer(c)
    BY <1>1, TypeCommit, MeteredConstants
    DEF TypeOK, Answer, proofVars, chainVars, MeteredConstants
  <1>2. CASE Fail(c)
    BY <1>2, TypeRelease DEF TypeOK, Fail, capVars, proofVars, chainVars
  <1>3. CASE Disconnect(c)
    BY <1>3, TypeRelease DEF TypeOK, Disconnect, capVars, proofVars, chainVars
  <1> QED BY <1>1, <1>2, <1>3

LEMMA TypeChain ==
    ASSUME TypeOK,
           \/ \E amount \in Payable : SettleOnChain(amount)
           \/ CacheCap \/ EndCap \/ Reconcile
    PROVE  TypeOK'
  <1>1. ASSUME NEW amount \in Payable, SettleOnChain(amount) PROVE TypeOK'
    BY <1>1, PayableAmounts, MeteredConstants
    DEF TypeOK, SettleOnChain, capVars, proofVars, tally, MeteredConstants
  <1>2. CASE CacheCap
    BY <1>2 DEF TypeOK, CacheCap, proofVars, chainVars, tally
  <1>3. CASE EndCap
    BY <1>3 DEF TypeOK, EndCap, proofVars, chainVars, tally
  <1>4. CASE Reconcile
    BY <1>4 DEF TypeOK, Reconcile, StillConsumed, proofVars, tally
  <1> QED BY <1>1, <1>2, <1>3, <1>4

LEMMA TypeRestart == ASSUME TypeOK, Restart PROVE TypeOK'
  BY MeteredConstants
  DEF Restart, TypeOK, NoCalls, NoReservations, NoProofs, NoUses, MeteredConstants

LEMMA TypeNext == ASSUME TypeOK, [Next]_vars PROVE TypeOK'
  <1>1. ASSUME NEW n \in Nonces, Forget(n) PROVE TypeOK'
    BY <1>1 DEF TypeOK, Forget, capVars, chainVars, tally
  <1>2. CASE UNCHANGED vars
    BY <1>2 DEF TypeOK, vars, capVars, proofVars, chainVars, tally
  <1> QED
    BY <1>1, <1>2, NextCases, TypeAdmit, TypeOutcome, TypeChain, TypeRestart

\* The state of the gateway always has its declared types; in particular a
\* settlement never takes the cap on chain below zero.
THEOREM TypeCorrect == Spec => []TypeOK
  <1>1. Init => TypeOK BY TypeInit
  <1>2. TypeOK /\ [Next]_vars => TypeOK' BY TypeNext
  <1> QED BY <1>1, <1>2, PTL DEF Spec

-----------------------------------------------------------------------------
(* A proof pays once                                                       *)

\* A number above the newest accepted one was never accepted.
UnusedAhead == \A ch \in Channels, s \in Seqs : s > latest[ch] => uses[<<ch, s>>] = 0

ProofInv == TypeOK /\ UnusedAhead /\ ProofPaysOnce

LEMMA ProofInit == ASSUME Init PROVE ProofInv
  BY TypeInit DEF Init, ProofInv, UnusedAhead, ProofPaysOnce, NoUses

LEMMA ProofAdmit ==
    ASSUME ProofInv, NEW c \in Calls, NEW ch \in Channels, NEW s \in Seqs, NEW n \in Nonces,
           Admit(c, ch, s, n)
    PROVE  UnusedAhead' /\ ProofPaysOnce'
  <1>1. s \in Int /\ s > latest[ch] /\ uses[<<ch, s>>] = 0
    BY DEF Admit, Acceptable, ProofInv, UnusedAhead, Seqs
  <1>2. /\ uses'[<<ch, s>>] = 1
        /\ \A p \in (Channels \X Seqs) \ {<<ch, s>>} : uses'[p] = uses[p]
    BY <1>1 DEF Admit, ProofInv, TypeOK
  <1>3. latest'[ch] = s /\ \A d \in Channels \ {ch} : latest'[d] = latest[d]
    BY DEF Admit, ProofInv, TypeOK
  <1>4. ProofPaysOnce'
    BY <1>2 DEF ProofPaysOnce, ProofInv
  <1>5. ASSUME NEW d \in Channels, NEW t \in Seqs, t > latest'[d] PROVE uses'[<<d, t>>] = 0
    <2>1. t \in Int /\ latest[ch] \in Int BY DEF Seqs, ProofInv, TypeOK
    <2>2. t > latest[d] /\ <<d, t>> # <<ch, s>>
      BY <1>1, <1>3, <1>5, <2>1
    <2>3. uses[<<d, t>>] = 0
      BY <2>2 DEF ProofInv, UnusedAhead
    <2> QED BY <1>2, <2>2, <2>3
  <1> QED BY <1>4, <1>5 DEF UnusedAhead

LEMMA ProofNext == ASSUME ProofInv, [Next]_vars PROVE ProofInv'
  <1>1. TypeOK' BY TypeNext DEF ProofInv
  <1>2. CASE \E c \in Calls, ch \in Channels, s \in Seqs, n \in Nonces : Admit(c, ch, s, n)
    BY <1>1, <1>2, ProofAdmit DEF ProofInv
  <1>3. CASE Restart
    BY <1>1, <1>3 DEF Restart, ProofInv, UnusedAhead, ProofPaysOnce, NoUses
  <1>4. CASE UNCHANGED <<latest, uses>>
    BY <1>1, <1>4 DEF ProofInv, UnusedAhead, ProofPaysOnce
  <1>5. \/ \E c \in Calls, ch \in Channels, s \in Seqs, n \in Nonces : Admit(c, ch, s, n)
        \/ Restart \/ UNCHANGED <<latest, uses>>
    BY NextCases
    DEF Answer, Fail, Disconnect, Forget, SettleOnChain, CacheCap, EndCap, Reconcile,
        vars, proofVars
  <1> QED BY <1>2, <1>3, <1>4, <1>5

\* No sequence number of a channel pays for two calls, whatever nonces were
\* forgotten in the meantime.
THEOREM OnePaymentPerProof == Spec => []ProofPaysOnce
  <1>1. Init => ProofInv BY ProofInit
  <1>2. ProofInv /\ [Next]_vars => ProofInv' BY ProofNext
  <1>3. ProofInv => ProofPaysOnce BY DEF ProofInv
  <1> QED BY <1>1, <1>2, <1>3, PTL DEF Spec
-----------------------------------------------------------------------------
(* The cap                                                                 *)

\* Two facts of arithmetic that the prices need.
LEMMA PriceOfOneMore ==
    ASSUME NEW price \in Nat, NEW k \in Nat
    PROVE  price * (k + 1) = price * k + price
  OBVIOUS

LEMMA PriceMonotone ==
    ASSUME NEW price \in Nat, NEW k \in Nat, NEW m \in Nat, k <= m
    PROVE  price * k <= price * m
  <1>1. m - k \in Nat /\ price * (m - k) >= 0 OBVIOUS
  <1>2. price * m = price * k + price * (m - k) BY <1>1
  <1> QED BY <1>1, <1>2

Concurrency == Cardinality(Calls)
Ahead == consumed + ActualPrice * Cardinality(Waiting)

LEMMA WaitingFinite ==
    /\ IsFiniteSet(Waiting)
    /\ Cardinality(Waiting) \in Nat /\ Concurrency \in Nat
    /\ Cardinality(Waiting) <= Concurrency
    /\ ActualPrice \in Nat /\ ActualPrice * Cardinality(Waiting) \in Nat
    /\ ActualPrice * Concurrency \in Nat
  <1>1. Waiting \subseteq Calls /\ IsFiniteSet(Calls)
    BY MeteredConstants DEF Waiting, MeteredConstants
  <1>2. IsFiniteSet(Waiting) /\ Cardinality(Waiting) <= Concurrency
    BY <1>1, FS_Subset DEF Concurrency
  <1>3. Cardinality(Waiting) \in Nat /\ Concurrency \in Nat
    BY <1>1, <1>2, FS_CardinalityType DEF Concurrency
  <1>4. ActualPrice \in Nat
    BY MeteredConstants DEF MeteredConstants
  <1> QED BY <1>2, <1>3, <1>4

\* A request that begins to wait, and one that ends.
LEMMA WaitingBegins ==
    ASSUME TypeOK, NEW c \in Calls, call[c] = "idle",
           call' = [call EXCEPT ![c] = "upstream"]
    PROVE  /\ Cardinality(Waiting') = Cardinality(Waiting) + 1
           /\ ActualPrice * Cardinality(Waiting') = ActualPrice * Cardinality(Waiting) + ActualPrice
           /\ Cardinality(Waiting) + 1 <= Concurrency
  <1>1. c \notin Waiting /\ Waiting' = Waiting \cup {c}
    BY DEF Waiting, TypeOK
  <1>2. Cardinality(Waiting') = Cardinality(Waiting) + 1
    BY <1>1, WaitingFinite, FS_AddElement
  <1>3. IsFiniteSet(Calls) /\ Waiting' \subseteq Calls
    BY MeteredConstants DEF Waiting, MeteredConstants
  <1>4. Cardinality(Waiting') <= Concurrency
    BY <1>3, FS_Subset DEF Concurrency
  <1> QED BY <1>2, <1>4, WaitingFinite, PriceOfOneMore

LEMMA WaitingEnds ==
    ASSUME TypeOK, NEW c \in Calls, call[c] = "upstream",
           call' = [call EXCEPT ![c] = "idle"]
    PROVE  /\ Cardinality(Waiting) = Cardinality(Waiting') + 1
           /\ Cardinality(Waiting') \in Nat
           /\ ActualPrice * Cardinality(Waiting) = ActualPrice * Cardinality(Waiting') + ActualPrice
  <1>1. c \in Waiting /\ Waiting' = Waiting \ {c}
    BY DEF Waiting, TypeOK
  <1>2. IsFiniteSet(Waiting') /\ Cardinality(Waiting') = Cardinality(Waiting) - 1
    BY <1>1, WaitingFinite, FS_RemoveElement
  <1>3. Cardinality(Waiting') \in Nat
    BY <1>2, FS_CardinalityType
  <1> QED BY <1>2, <1>3, WaitingFinite, PriceOfOneMore

\* A process that has no cap cached has done nothing yet.
Fresh ==
    capState = "none" =>
        /\ cap = 0 /\ consumed = 0 /\ settling = 0
        /\ granted = 0 /\ charged = 0 /\ Waiting = {}

\* The cached cap lags behind the chain by what is not reconciled yet.
ChainView ==
    capState # "none" => cap = chainCap + settling /\ settling <= consumed

CapInv == TypeOK /\ Fresh /\ ChainView /\ NoDrift /\ OvershootBounded

LEMMA CapInit == ASSUME Init PROVE CapInv
  <1>1. Waiting = {} BY DEF Init, Waiting, NoCalls
  <1>2. Cardinality(Waiting) = 0 BY <1>1, FS_EmptySet
  <1>3. ActualPrice * Cardinality(Waiting) = 0 BY <1>2, WaitingFinite
  <1> QED BY TypeInit, <1>1, <1>3 DEF Init, CapInv, Fresh, ChainView, NoDrift, OvershootBounded

LEMMA CapAdmit ==
    ASSUME CapInv, NEW c \in Calls, NEW ch \in Channels, NEW s \in Seqs, NEW n \in Nonces,
           Admit(c, ch, s, n)
    PROVE  Fresh' /\ ChainView' /\ NoDrift' /\ OvershootBounded'
  <1>1. capState = "active" /\ UpperBound <= cap - consumed
    BY DEF Admit, CanTransact
  <1>2. UNCHANGED <<capState, cap, consumed, chainCap, settling, granted, charged>>
    BY DEF Admit, capVars, chainVars
  <1>3. ActualPrice * Cardinality(Waiting') = ActualPrice * Cardinality(Waiting) + ActualPrice
        /\ Cardinality(Waiting) + 1 <= Concurrency
    BY WaitingBegins DEF Admit, CapInv
  <1>4. ActualPrice * Cardinality(Waiting) + ActualPrice <= ActualPrice * Concurrency
    BY <1>3, WaitingFinite, PriceOfOneMore, PriceMonotone
  <1>5. consumed \in Int /\ cap \in Int /\ UpperBound \in Int
    BY MeteredConstants DEF CapInv, TypeOK, MeteredConstants
  <1>6. OvershootBounded'
    BY <1>1, <1>2, <1>3, <1>4, <1>5, WaitingFinite DEF OvershootBounded, Concurrency
  <1> QED BY <1>1, <1>2, <1>6 DEF CapInv, Fresh, ChainView, NoDrift

LEMMA CapAnswer ==
    ASSUME CapInv, NEW c \in Calls, Answer(c)
    PROVE  Fresh' /\ ChainView' /\ NoDrift' /\ OvershootBounded'
  <1>1. /\ consumed' = consumed + ActualPrice /\ charged' = charged + ActualPrice
        /\ UNCHANGED <<capState, cap, chainCap, settling, granted>>
    BY DEF Answer, chainVars
  <1>2. ActualPrice * Cardinality(Waiting) = ActualPrice * Cardinality(Waiting') + ActualPrice
        /\ Cardinality(Waiting') \in Nat
    BY WaitingEnds DEF Answer, CapInv
  <1>3. c \in Waiting /\ capState # "none"
    BY DEF Answer, Waiting, CapInv, Fresh
  <1>4. /\ consumed \in Nat /\ charged \in Nat /\ cap \in Int /\ granted \in Int
        /\ settling \in Nat /\ chainCap \in Int /\ ActualPrice \in Nat
    BY WaitingFinite DEF CapInv, TypeOK
  <1>5. consumed' + ActualPrice * Cardinality(Waiting') = Ahead
    BY <1>1, <1>2, <1>4, WaitingFinite DEF Ahead
  <1>6. OvershootBounded'
    BY <1>1, <1>5 DEF OvershootBounded, CapInv, Ahead
  <1>7. NoDrift' /\ ChainView' /\ Fresh'
    BY <1>1, <1>3, <1>4 DEF CapInv, NoDrift, ChainView, Fresh
  <1> QED BY <1>6, <1>7

LEMMA CapFail ==
    ASSUME CapInv, NEW c \in Calls, Fail(c)
    PROVE  Fresh' /\ ChainView' /\ NoDrift' /\ OvershootBounded'
  <1>1. UNCHANGED <<capState, cap, consumed, chainCap, settling, granted, charged>>
    BY DEF Fail, capVars, chainVars
  <1>2. ActualPrice * Cardinality(Waiting) = ActualPrice * Cardinality(Waiting') + ActualPrice
        /\ Cardinality(Waiting') \in Nat
    BY WaitingEnds DEF Fail, CapInv
  <1>3. c \in Waiting /\ capState # "none"
    BY DEF Fail, Waiting, CapInv, Fresh
  <1>4. consumed \in Nat /\ cap \in Int /\ ActualPrice \in Nat
    BY WaitingFinite DEF CapInv, TypeOK
  <1>5. ActualPrice * Cardinality(Waiting') \in Nat
    BY <1>2, <1>4
  <1>6. Ahead > 0 => Ahead + UpperBound <= cap + ActualPrice * Concurrency
    BY DEF CapInv, OvershootBounded, Ahead, Concurrency
  <1>7. /\ Ahead = consumed + ActualPrice * Cardinality(Waiting') + ActualPrice
        /\ UpperBound \in Int
    BY <1>2, <1>4, <1>5, MeteredConstants DEF Ahead, MeteredConstants
  <1>8. OvershootBounded'
    BY <1>1, <1>4, <1>5, <1>6, <1>7, WaitingFinite DEF OvershootBounded, Concurrency
  <1> QED BY <1>1, <1>3, <1>8 DEF CapInv, Fresh, ChainView, NoDrift

LEMMA CapReconcile ==
    ASSUME CapInv, Reconcile
    PROVE  Fresh' /\ ChainView' /\ NoDrift' /\ OvershootBounded'
  <1>1. /\ settling > 0 /\ settling' = 0 /\ cap' = chainCap /\ consumed' = StillConsumed(settling)
        /\ UNCHANGED <<call, capState, chainCap, granted, charged>>
    BY DEF Reconcile
  <1>2. /\ consumed \in Nat /\ charged \in Nat /\ cap \in Int /\ granted \in Int
        /\ settling \in Nat /\ chainCap \in Int /\ UpperBound \in Int
    BY MeteredConstants DEF CapInv, TypeOK, MeteredConstants
  <1>3. capState # "none" /\ cap = chainCap + settling /\ settling <= consumed
    BY <1>1 DEF CapInv, Fresh, ChainView
  <1>4. consumed' = consumed - settling /\ cap' = cap - settling
    BY <1>1, <1>2, <1>3 DEF StillConsumed
  <1>5. Waiting' = Waiting BY <1>1 DEF Waiting
  <1>6. OvershootBounded'
    BY <1>1, <1>2, <1>4, <1>5, WaitingFinite DEF CapInv, OvershootBounded, Concurrency
  <1>7. NoDrift' /\ ChainView' /\ Fresh'
    BY <1>1, <1>2, <1>3, <1>4 DEF CapInv, NoDrift, ChainView, Fresh
  <1> QED BY <1>6, <1>7

LEMMA CapSettle ==
    ASSUME CapInv, NEW amount \in Payable, SettleOnChain(amount)
    PROVE  Fresh' /\ ChainView' /\ NoDrift' /\ OvershootBounded'
  <1>1. amount \in Nat /\ amount > 0 /\ amount <= consumed /\ chainCap \in Int /\ consumed \in Nat
    BY PayableAmounts DEF CapInv, TypeOK
  <1>2. /\ settling = 0 /\ settling' = amount /\ chainCap' = chainCap - amount
        /\ UNCHANGED <<call, capState, cap, consumed, granted, charged>>
    BY DEF SettleOnChain, capVars
  <1>3. capState # "none"
    BY <1>1 DEF CapInv, Fresh
  <1>4. Waiting' = Waiting BY <1>2 DEF Waiting
  <1>5. Fresh' /\ ChainView'
    BY <1>1, <1>2, <1>3 DEF CapInv, Fresh, ChainView
  <1>6. NoDrift' /\ OvershootBounded'
    BY <1>2, <1>4 DEF CapInv, NoDrift, OvershootBounded
  <1> QED BY <1>5, <1>6

LEMMA CapCache ==
    ASSUME CapInv, CacheCap
    PROVE  Fresh' /\ ChainView' /\ NoDrift' /\ OvershootBounded'
  <1>1. /\ capState = "none" /\ capState' = "active" /\ cap' = chainCap /\ granted' = chainCap
        /\ UNCHANGED <<call, consumed, settling, chainCap, charged>>
    BY DEF CacheCap, chainVars
  <1>2. consumed = 0 /\ settling = 0 /\ charged = 0 /\ Waiting = {}
    BY <1>1 DEF CapInv, Fresh
  <1>3. Waiting' = {} BY <1>1, <1>2 DEF Waiting
  <1>4. ActualPrice * Cardinality(Waiting') = 0
    BY <1>3, FS_EmptySet, WaitingFinite
  <1>5. chainCap \in Int BY DEF CapInv, TypeOK
  <1> QED BY <1>1, <1>2, <1>4, <1>5 DEF Fresh, ChainView, NoDrift, OvershootBounded

LEMMA CapRestart ==
    ASSUME CapInv, Restart
    PROVE  Fresh' /\ ChainView' /\ NoDrift' /\ OvershootBounded'
  <1>1. Waiting' = {} BY DEF Restart, Waiting, NoCalls
  <1>2. ActualPrice * Cardinality(Waiting') = 0
    BY <1>1, FS_EmptySet, WaitingFinite
  <1> QED BY <1>1, <1>2 DEF Restart, Fresh, ChainView, NoDrift, OvershootBounded

\* The steps that leave the cap and the calls alone.
LEMMA CapIdle ==
    ASSUME CapInv, UNCHANGED <<call, capState, cap, consumed, chainCap, settling, granted, charged>>
    PROVE  Fresh' /\ ChainView' /\ NoDrift' /\ OvershootBounded'
  BY DEF CapInv, Fresh, ChainView, NoDrift, OvershootBounded, Waiting

LEMMA CapEnd ==
    ASSUME CapInv, EndCap
    PROVE  Fresh' /\ ChainView' /\ NoDrift' /\ OvershootBounded'
  <1>1. /\ capState = "active" /\ capState' = "ended"
        /\ UNCHANGED <<call, cap, consumed, chainCap, settling, granted, charged>>
    BY DEF EndCap, chainVars
  <1> QED BY <1>1 DEF CapInv, Fresh, ChainView, NoDrift, OvershootBounded, Waiting

LEMMA CapNext == ASSUME CapInv, [Next]_vars PROVE CapInv'
  <1>1. TypeOK' BY TypeNext DEF CapInv
  <1>2. ASSUME NEW c \in Calls, Disconnect(c)
        PROVE  Fresh' /\ ChainView' /\ NoDrift' /\ OvershootBounded'
    BY <1>2, CapIdle DEF Disconnect, capVars, chainVars
  <1>3. ASSUME NEW n \in Nonces, Forget(n)
        PROVE  Fresh' /\ ChainView' /\ NoDrift' /\ OvershootBounded'
    BY <1>3, CapIdle DEF Forget, capVars, chainVars
  <1>4. ASSUME UNCHANGED vars
        PROVE  Fresh' /\ ChainView' /\ NoDrift' /\ OvershootBounded'
    BY <1>4, CapIdle DEF vars, capVars, chainVars
  <1>5. Fresh' /\ ChainView' /\ NoDrift' /\ OvershootBounded'
    BY <1>2, <1>3, <1>4, NextCases, CapAdmit, CapAnswer, CapFail, CapSettle, CapCache, CapEnd,
       CapReconcile, CapRestart
  <1> QED BY <1>1, <1>5 DEF CapInv

\* Whatever the number of concurrent requests, the consumption exceeds the cap
\* by less than what those requests cost.
THEOREM CapOvershoot == Spec => []OvershootBounded
  <1>1. Init => CapInv BY CapInit
  <1>2. CapInv /\ [Next]_vars => CapInv' BY CapNext
  <1>3. CapInv => OvershootBounded BY DEF CapInv
  <1> QED BY <1>1, <1>2, <1>3, PTL DEF Spec

\* Reconciliation loses no consumption and counts none twice.
THEOREM LocalViewExact == Spec => []NoDrift
  <1>1. Init => CapInv BY CapInit
  <1>2. CapInv /\ [Next]_vars => CapInv' BY CapNext
  <1>3. CapInv => NoDrift BY DEF CapInv
  <1> QED BY <1>1, <1>2, <1>3, PTL DEF Spec
-----------------------------------------------------------------------------
(* Reservations                                                            *)

ReservationInv == TypeOK /\ ReservationsSettledOnce

LEMMA ReservedFinite ==
    ASSUME TypeOK
    PROVE  /\ IsFiniteSet(Reserved) /\ Cardinality(Reserved) \in Nat
           /\ admitted \in Nat /\ committed \in Nat /\ released \in Nat
  <1>1. Reserved \subseteq Calls /\ IsFiniteSet(Calls)
    BY MeteredConstants DEF Reserved, MeteredConstants
  <1>2. IsFiniteSet(Reserved) BY <1>1, FS_Subset
  <1> QED BY <1>2, FS_CardinalityType DEF TypeOK

\* The reservation of c, if it is open, closes; the others stay.
LEMMA ReservedCloses ==
    ASSUME TypeOK, NEW c \in Calls, Release(c) \/ Commit(c)
    PROVE  /\ c \notin Reserved' /\ Reserved' = Reserved \ {c}
           /\ c \in Reserved => Cardinality(Reserved') = Cardinality(Reserved) - 1
           /\ c \notin Reserved => Cardinality(Reserved') = Cardinality(Reserved)
  <1>1. c \notin Reserved' /\ Reserved' = Reserved \ {c}
    BY DEF Release, Commit, Reserved, TypeOK
  <1>2. c \in Reserved => Cardinality(Reserved') = Cardinality(Reserved) - 1
    BY <1>1, ReservedFinite, FS_RemoveElement
  <1>3. c \notin Reserved => Reserved' = Reserved
    BY <1>1
  <1> QED BY <1>1, <1>2, <1>3

LEMMA ReservationAdmit ==
    ASSUME ReservationInv, NEW c \in Calls, NEW ch \in Channels, NEW s \in Seqs,
           NEW n \in Nonces, Admit(c, ch, s, n)
    PROVE  ReservationsSettledOnce'
  <1>1. c \notin Reserved
    BY DEF Admit, Waiting, ReservationInv, ReservationsSettledOnce
  <1>2. Reserved' = Reserved \cup {c} /\ Waiting' = Waiting \cup {c}
    BY DEF Admit, Reserved, Waiting, ReservationInv, TypeOK
  <1>3. Cardinality(Reserved') = Cardinality(Reserved) + 1
    BY <1>1, <1>2, ReservedFinite, FS_AddElement DEF ReservationInv
  <1>4. admitted' = admitted + 1 /\ UNCHANGED <<committed, released>>
    BY DEF Admit
  <1> QED
    BY <1>2, <1>3, <1>4, ReservedFinite DEF ReservationInv, ReservationsSettledOnce

LEMMA ReservationAnswer ==
    ASSUME ReservationInv, NEW c \in Calls, Answer(c)
    PROVE  ReservationsSettledOnce'
  <1>1. Commit(c) /\ UNCHANGED <<admitted, released>> BY DEF Answer
  <1>2. IF c \in Reserved THEN committed' = committed + 1 ELSE committed' = committed
    BY <1>1 DEF Commit
  <1>3. Waiting' = Waiting \ {c}
    BY DEF Answer, Waiting, ReservationInv, TypeOK
  <1>4. admitted' = committed' + released' + Cardinality(Reserved')
    BY <1>1, <1>2, ReservedCloses, ReservedFinite DEF ReservationInv, ReservationsSettledOnce
  <1>5. Reserved' \subseteq Waiting'
    BY <1>1, <1>3, ReservedCloses DEF ReservationInv, ReservationsSettledOnce
  <1> QED BY <1>4, <1>5 DEF ReservationsSettledOnce

LEMMA ReservationReleased ==
    ASSUME ReservationInv, NEW c \in Calls, Fail(c) \/ Disconnect(c)
    PROVE  ReservationsSettledOnce'
  <1>1. Release(c) /\ UNCHANGED <<admitted, committed>> BY DEF Fail, Disconnect
  <1>2. IF c \in Reserved THEN released' = released + 1 ELSE released' = released
    BY <1>1 DEF Release
  <1>3. Waiting \ {c} \subseteq Waiting'
    BY DEF Fail, Disconnect, Waiting, ReservationInv, TypeOK
  <1>4. admitted' = committed' + released' + Cardinality(Reserved')
    BY <1>1, <1>2, ReservedCloses, ReservedFinite DEF ReservationInv, ReservationsSettledOnce
  <1>5. Reserved' \subseteq Waiting'
    BY <1>1, <1>3, ReservedCloses DEF ReservationInv, ReservationsSettledOnce
  <1> QED BY <1>4, <1>5 DEF ReservationsSettledOnce

LEMMA ReservationEmpty ==
    ASSUME reservation = NoReservations, admitted = 0, committed = 0, released = 0
    PROVE  ReservationsSettledOnce
  <1>1. Reserved = {} BY DEF Reserved, NoReservations
  <1> QED BY <1>1, FS_EmptySet DEF ReservationsSettledOnce

LEMMA ReservationRestart ==
    ASSUME Restart PROVE ReservationsSettledOnce'
  <1>1. Reserved' = {} BY DEF Restart, Reserved, NoReservations
  <1> QED BY <1>1, FS_EmptySet DEF Restart, ReservationsSettledOnce

LEMMA ReservationNext == ASSUME ReservationInv, [Next]_vars PROVE ReservationInv'
  <1>1. TypeOK' BY TypeNext DEF ReservationInv
  <1>2. ASSUME UNCHANGED <<call, reservation, tally>> PROVE ReservationsSettledOnce'
    BY <1>2 DEF ReservationInv, ReservationsSettledOnce, Reserved, Waiting, tally
  <1>3. \/ \E c \in Calls, ch \in Channels, s \in Seqs, n \in Nonces : Admit(c, ch, s, n)
        \/ \E c \in Calls : Answer(c) \/ Fail(c) \/ Disconnect(c)
        \/ Restart \/ UNCHANGED <<call, reservation, tally>>
    BY NextCases DEF Forget, SettleOnChain, CacheCap, EndCap, Reconcile, vars
  <1>4. ReservationsSettledOnce'
    BY <1>2, <1>3, ReservationAdmit, ReservationAnswer, ReservationReleased, ReservationRestart
  <1> QED BY <1>1, <1>4 DEF ReservationInv

\* Every reservation is committed or released exactly once, in whatever order
\* the answer, the failure and the close event arrive.
THEOREM ReservationsExact == Spec => []ReservationsSettledOnce
  <1>1. Init => ReservationInv
    BY TypeInit, ReservationEmpty DEF Init, ReservationInv
  <1>2. ReservationInv /\ [Next]_vars => ReservationInv' BY ReservationNext
  <1>3. ReservationInv => ReservationsSettledOnce BY DEF ReservationInv
  <1> QED BY <1>1, <1>2, <1>3, PTL DEF Spec
=============================================================================
