------------------------ MODULE ChainSubmissionProofs ------------------------
(* Effects are bounded by the attempts given up blindly, and SUCCESS is only *)
(* reported when it is true, for any callers, keys, attempts and restarts.   *)
EXTENDS ChainSubmission, FiniteSetTheorems, TLAPS

-----------------------------------------------------------------------------
(* Bounds on finite sets.                                                   *)

AtMost(S, n) == IsFiniteSet(S) /\ Cardinality(S) <= n

LEMMA AtMostSubset ==
    ASSUME NEW S, NEW T, NEW m \in Nat, NEW n \in Nat,
           S \subseteq T, AtMost(T, m), m <= n
    PROVE  AtMost(S, n)
  <1>1. IsFiniteSet(T) /\ Cardinality(T) <= m
    BY DEF AtMost
  <1>2. IsFiniteSet(S) /\ Cardinality(S) <= Cardinality(T)
    BY <1>1, FS_Subset
  <1>3. Cardinality(S) \in Nat /\ Cardinality(T) \in Nat
    BY <1>1, <1>2, FS_CardinalityType
  <1> QED
    BY <1>1, <1>2, <1>3 DEF AtMost

LEMMA AtMostAdd ==
    ASSUME NEW S, NEW x, NEW n \in Nat, AtMost(S \ {x}, n)
    PROVE  AtMost(S, n + 1)
  <1> DEFINE R == S \ {x}
  <1>1. IsFiniteSet(R) /\ Cardinality(R) <= n
    BY DEF AtMost
  <1>2. Cardinality(R) \in Nat
    BY <1>1, FS_CardinalityType
  <1>3. /\ IsFiniteSet(R \cup {x})
        /\ Cardinality(R \cup {x}) = IF x \in R THEN Cardinality(R) ELSE Cardinality(R) + 1
    BY <1>1, FS_AddElement
  <1>4. Cardinality(R \cup {x}) <= n + 1
    <2> HIDE DEF R
    <2> QED
      BY <1>1, <1>2, <1>3
  <1>5. AtMost(R \cup {x}, n + 1)
    BY <1>3, <1>4 DEF AtMost
  <1>6. S \subseteq R \cup {x}
    OBVIOUS
  <1> HIDE DEF R
  <1> QED
    BY <1>5, <1>6, AtMostSubset

LEMMA AtMostEmpty == ASSUME NEW n \in Nat PROVE AtMost({}, n)
  BY FS_EmptySet DEF AtMost

-----------------------------------------------------------------------------
(* The invariant.                                                           *)

\* What took effect under k, or still may.
Possible(k) ==
    {x \in chain \cup {[tx |-> t, ok |-> TRUE] : t \in pool} : x.ok = TRUE /\ key[x.tx.by] = k}

\* How the transaction that c is about now would count.
Effect(c) == [tx |-> tx(c), ok |-> TRUE]

\* Everything the network ever received.
Sent == pool \cup {x.tx : x \in chain}

\* A transaction has one outcome, and has left the pool when it has one.
NetworkInv ==
    /\ \A x \in chain : x.tx \notin pool
    /\ \A x \in chain : x.tx.seq <= ledgerSeq
    /\ \A x, y \in chain : x.tx = y.tx => x.ok = y.ok

Happened(k) == \E x \in chain : x.ok = TRUE /\ key[x.tx.by] = k

\* A running call is the one on record for its key, has reported nothing, and its
\* transactions are those of its attempts so far.
CallInv(c) ==
    /\ pc[c] # "ended" => result[c] = "none"
    /\ pc[c] # "idle" => key[c] \in Key
    /\ pc[c] \in Active => inflight[key[c]] = c
    /\ result[c] = "SUCCESS" => Happened(key[c])
    /\ \A t \in Sent : t.by = c =>
           /\ pc[c] \notin {"idle", "joined"}
           /\ pc[c] \in Active => t.n <= attempt[c]
           /\ pc[c] \in {"queued", "building", "sending"} => t.n < attempt[c]

\* As long as no outcome is known for k: every transaction that may have taken
\* effect was given up blindly or lost to a restart, but for the current one.
Accounted(k) ==
    \/ AtMost(Possible(k), blind[k] + restarts)
    \/ \E c \in Caller :
           /\ inflight[k] = c /\ pc[c] \in {"confirming", "querying"}
           /\ AtMost(Possible(k) \ {Effect(c)}, blind[k] + restarts)

\* The record of a key: its running call, its outcome, and its effects.
KeyInv(k) ==
    /\ inflight[k] # Nobody => pc[inflight[k]] \in Active /\ key[inflight[k]] = k
    /\ completed[k] # "none" => inflight[k] = Nobody
    /\ completed[k] = "SUCCESS" => Happened(k)
    /\ AtMost(Possible(k), blind[k] + restarts + 1)
    /\ completed[k] = "none" => Accounted(k)

IInv ==
    /\ TypeOK
    /\ NetworkInv
    /\ \A c \in Caller : CallInv(c)
    /\ \A k \in Key : KeyInv(k)

LEMMA Types ==
    ASSUME TypeOK, NEW c \in Caller
    PROVE  /\ attempt[c] \in 1..MaxAttempts /\ attempt[c] \in Nat /\ seq[c] \in Nat
           /\ key[c] \in Key \cup {Nobody}
           /\ pc[c] \in Active \cup {"idle", "joined", "ended"}
           /\ result[c] \in Outcome
           /\ tx(c) \in Tx /\ tx(c).by = c /\ tx(c).n = attempt[c]
  <1>1. /\ attempt[c] \in 1..MaxAttempts /\ seq[c] \in Nat
        /\ key[c] \in Key \cup {Nobody}
        /\ pc[c] \in Active \cup {"idle", "joined", "ended"}
        /\ result[c] \in Outcome
    BY DEF TypeOK
  <1>2. attempt[c] \in Nat
    BY <1>1, SubmissionConstants
  <1>3. tx(c) \in Tx /\ tx(c).by = c /\ tx(c).n = attempt[c]
    BY <1>1 DEF tx, Tx
  <1> QED
    BY <1>1, <1>2, <1>3

LEMMA InitIInv == Init => IInv
  <1> SUFFICES ASSUME Init PROVE IInv
    OBVIOUS
  <1>1. TypeOK
    <2>1. /\ pc \in [Caller -> Active \cup {"idle", "joined", "ended"}]
          /\ key \in [Caller -> Key \cup {Nobody}]
          /\ result \in [Caller -> Outcome]
          /\ lock \in Caller \cup {Nobody}
          /\ inflight \in [Key -> Caller \cup {Nobody}]
          /\ completed \in [Key -> Outcome]
      BY DEF Init, Outcome
    <2>2. attempt \in [Caller -> 1..MaxAttempts]
      BY SubmissionConstants DEF Init
    <2>3. /\ seq \in [Caller -> Nat] /\ blind \in [Key -> Nat]
          /\ ledgerSeq \in Nat /\ restarts \in 0..MaxRestarts
      BY SubmissionConstants DEF Init
    <2>4. cached \in SUBSET Nat /\ pool \in SUBSET Tx /\ chain \in SUBSET [tx : Tx, ok : BOOLEAN]
      BY DEF Init
    <2> QED
      BY <2>1, <2>2, <2>3, <2>4 DEF TypeOK
  <1>2. NetworkInv
    BY DEF Init, NetworkInv
  <1>3. pool = {} /\ chain = {}
    BY DEF Init
  <1>4. \A c \in Caller : CallInv(c)
    <2>1. Sent = {}
      BY <1>3 DEF Sent
    <2> QED
      BY <2>1 DEF Init, CallInv, Active
  <1>5. ASSUME NEW k \in Key PROVE KeyInv(k)
    <2>1. Possible(k) = {}
      BY <1>3 DEF Possible
    <2>2. blind[k] + restarts = 0 /\ blind[k] + restarts + 1 = 1
      BY DEF Init
    <2>3. AtMost(Possible(k), blind[k] + restarts) /\ AtMost(Possible(k), blind[k] + restarts + 1)
      BY <2>1, <2>2, AtMostEmpty
    <2>4. inflight[k] = Nobody /\ completed[k] = "none"
      BY DEF Init
    <2> QED
      BY <2>3, <2>4 DEF KeyInv, Accounted
  <1> QED
    BY <1>1, <1>2, <1>4, <1>5 DEF IInv

-----------------------------------------------------------------------------
(* What a step may do to the possible effects of a key.                     *)

\* A step that sends at most the transaction of c adds at most its effect to the
\* key of c, and nothing to other keys.
LEMMA SendEffect ==
    ASSUME TypeOK, NEW c \in Caller, NEW k \in Key,
           pool' \subseteq pool \cup {tx(c)}, chain' = chain, key' = key
    PROVE  /\ Possible(k)' \ {Effect(c)} \subseteq Possible(k)
           /\ key[c] # k => Possible(k)' \subseteq Possible(k)
           /\ pool' = pool => Possible(k)' = Possible(k)
  <1>1. tx(c).by = c
    BY Types
  <1> QED
    BY <1>1 DEF Possible, Effect

LEMMA CountTypes ==
    ASSUME TypeOK, NEW k \in Key
    PROVE  blind[k] \in Nat /\ restarts \in Nat /\ blind[k] + restarts \in Nat
  BY SubmissionConstants DEF TypeOK

LEMMA OneMore ==
    ASSUME NEW P, NEW n \in Nat, AtMost(P, n) \/ \E e : AtMost(P \ {e}, n)
    PROVE  AtMost(P, n + 1)
  <1>1. CASE AtMost(P, n)
    BY <1>1, AtMostSubset
  <1>2. ASSUME NEW e, AtMost(P \ {e}, n) PROVE AtMost(P, n + 1)
    BY <1>2, AtMostAdd
  <1> QED
    BY <1>1, <1>2

-----------------------------------------------------------------------------
(* A step of one running call.                                              *)

\* It goes on at l; the step itself has to show that its own transactions and the
\* effects of its own key are still accounted for.
LEMMA LocalStep ==
    ASSUME IInv, TypeOK', NetworkInv', NEW c \in Caller, NEW l \in Active,
           pc[c] \in Active, pc' = [pc EXCEPT ![c] = l],
           UNCHANGED <<key, result, inflight, completed, restarts, chain>>,
           pool' \subseteq pool \cup {tx(c)},
           \A d \in Caller : d # c => attempt'[d] = attempt[d] /\ seq'[d] = seq[d],
           \A k \in Key : k # key[c] => blind'[k] = blind[k],
           \A t \in Sent' : t.by = c =>
               /\ t.n <= attempt'[c]
               /\ l \in {"queued", "building", "sending"} => t.n < attempt'[c],
           Accounted(key[c])'
    PROVE  IInv'
  <1>0. TypeOK /\ pc \in [Caller -> Active \cup {"idle", "joined", "ended"}]
    BY DEF IInv, TypeOK
  <1>1. pc'[c] = l /\ \A d \in Caller : d # c => pc'[d] = pc[d]
    BY <1>0
  <1>2. key[c] \in Key /\ inflight[key[c]] = c /\ result[c] = "none"
    BY DEF IInv, CallInv, Active
  <1>3. ASSUME NEW d \in Caller, d # c PROVE CallInv(d)'
    <2>1. \A t \in Sent' : t.by = d => t \in Sent
      <3>1. tx(c).by = c
        BY <1>0, Types
      <3> QED
        BY <1>3, <3>1 DEF Sent
    <2>2. CallInv(d)
      BY DEF IInv
    <2>3. Happened(key[d]) => Happened(key[d])'
      BY DEF Happened
    <2> QED
      BY <1>1, <1>3, <2>1, <2>2, <2>3 DEF CallInv
  <1>4. CallInv(c)'
    BY <1>1, <1>2 DEF CallInv, Active
  <1>5. ASSUME NEW k \in Key, k # key[c] PROVE KeyInv(k)'
    <2>1. KeyInv(k) /\ blind'[k] = blind[k]
      BY <1>5 DEF IInv
    <2>2. Possible(k)' \subseteq Possible(k)
      BY <1>0, <1>5, SendEffect
    <2>3. inflight[k] # c
      BY <1>5, <2>1, SubmissionConstants DEF KeyInv
    <2>4. blind[k] + restarts \in Nat /\ blind[k] + restarts + 1 \in Nat
      BY <1>0, CountTypes
    <2>5. AtMost(Possible(k), blind[k] + restarts + 1) => AtMost(Possible(k)', blind[k] + restarts + 1)
      BY <2>2, <2>4, AtMostSubset
    <2>6. Accounted(k) => Accounted(k)'
      <3>1. CASE AtMost(Possible(k), blind[k] + restarts)
        <4>1. AtMost(Possible(k)', blind[k] + restarts)
          BY <2>2, <2>4, <3>1, AtMostSubset
        <4> QED
          BY <2>1, <4>1 DEF Accounted
      <3>2. ASSUME NEW d \in Caller, inflight[k] = d, pc[d] \in {"confirming", "querying"},
                   AtMost(Possible(k) \ {Effect(d)}, blind[k] + restarts)
            PROVE  Accounted(k)'
        <4>1. d # c /\ Effect(d)' = Effect(d) /\ pc'[d] = pc[d]
          BY <1>1, <2>3, <3>2 DEF Effect, tx
        <4>2. AtMost(Possible(k)' \ {Effect(d)}, blind[k] + restarts)
          BY <2>2, <2>4, <3>2, AtMostSubset
        <4> QED
          BY <2>1, <3>2, <4>1, <4>2 DEF Accounted
      <3> QED
        BY <3>1, <3>2 DEF Accounted
    <2>7. inflight[k] # Nobody => pc'[inflight[k]] = pc[inflight[k]]
      <3>1. inflight[k] \in Caller \cup {Nobody}
        BY <1>0 DEF TypeOK
      <3> QED
        BY <1>1, <2>3, <3>1
    <2>8. Happened(k) => Happened(k)'
      BY DEF Happened
    <2> QED
      BY <2>1, <2>5, <2>6, <2>7, <2>8 DEF KeyInv
  <1>6. KeyInv(key[c])'
    <2>1. KeyInv(key[c])
      BY <1>2 DEF IInv
    <2>2. key'[c] = key[c] /\ inflight'[key[c]] = c
      BY <1>2
    <2>3. AtMost(Possible(key[c]), blind[key[c]] + restarts + 1)'
      <3> DEFINE P == Possible(key[c])'
                 n == blind'[key[c]] + restarts'
      <3>1. n \in Nat
        BY <1>2, SubmissionConstants DEF TypeOK
      <3>2. AtMost(P, n) \/ \E e : AtMost(P \ {e}, n)
        BY <2>2 DEF Accounted
      <3> HIDE DEF P, n
      <3>3. AtMost(P, n + 1)
        BY <3>1, <3>2, OneMore
      <3> QED
        BY <2>2, <3>3 DEF P, n
    <2>4. completed[key[c]] = "none"
      BY <1>2, <2>1, SubmissionConstants DEF KeyInv
    <2> QED
      BY <1>1, <1>2, <2>2, <2>3, <2>4 DEF KeyInv
  <1> QED
    BY <1>2, <1>3, <1>4, <1>5, <1>6 DEF IInv

LEMMA SettleEffect ==
    ASSUME TypeOK, NEW c \in Caller, NEW r \in Outcome, Settle(c, r)
    PROVE  \E W \in SUBSET Caller :
              /\ c \in W
              /\ \A d \in W : d # c => pc[d] = "joined" /\ key[d] = key[c]
              /\ \A d \in Caller \ W : /\ pc'[d] = pc[d] /\ result'[d] = result[d]
                                       /\ attempt'[d] = attempt[d] /\ seq'[d] = seq[d]
              /\ \A d \in Caller : d # c => attempt'[d] = attempt[d] /\ seq'[d] = seq[d]
              /\ \A d \in W : pc'[d] = "ended" /\ result'[d] = r
  <1> DEFINE W == {d \in Caller : pc[d] = "joined" /\ key[d] = key[c]} \cup {c}
  <1>1. /\ pc' = [d \in Caller |-> IF d \in W THEN "ended" ELSE pc[d]]
        /\ result' = [d \in Caller |-> IF d \in W THEN r ELSE result[d]]
    BY DEF Settle
  <1>2. \A d \in Caller : d # c => attempt'[d] = attempt[d] /\ seq'[d] = seq[d]
    BY DEF Settle, Forget
  <1>3. /\ W \in SUBSET Caller /\ c \in W
        /\ \A d \in W : d # c => pc[d] = "joined" /\ key[d] = key[c]
    OBVIOUS
  <1> HIDE DEF W
  <1> QED
    BY <1>1, <1>2, <1>3

LEMMA SettleTypes ==
    ASSUME TypeOK, NEW c \in Caller, key[c] \in Key, NEW r \in Outcome, Settle(c, r)
    PROVE  /\ pc' \in [Caller -> Active \cup {"idle", "joined", "ended"}]
           /\ attempt' \in [Caller -> 1..MaxAttempts] /\ seq' \in [Caller -> Nat]
           /\ result' \in [Caller -> Outcome]
           /\ inflight' \in [Key -> Caller \cup {Nobody}] /\ inflight'[key[c]] = Nobody
           /\ \A k \in Key : k # key[c] => inflight'[k] = inflight[k] /\ completed'[k] = completed[k]
           /\ completed' \in [Key -> Outcome]
           /\ completed'[key[c]] = IF r = "error" THEN completed[key[c]] ELSE r
  <1>1. pc' \in [Caller -> Active \cup {"idle", "joined", "ended"}]
    BY DEF TypeOK, Settle
  <1>2. attempt' \in [Caller -> 1..MaxAttempts] /\ seq' \in [Caller -> Nat]
    BY SubmissionConstants DEF TypeOK, Settle, Forget
  <1>3. result' \in [Caller -> Outcome]
    BY DEF TypeOK, Settle
  <1>4. /\ inflight' \in [Key -> Caller \cup {Nobody}] /\ inflight'[key[c]] = Nobody
        /\ \A k \in Key : k # key[c] => inflight'[k] = inflight[k]
    BY DEF TypeOK, Settle
  <1>5. /\ completed' \in [Key -> Outcome]
        /\ completed'[key[c]] = IF r = "error" THEN completed[key[c]] ELSE r
        /\ \A k \in Key : k # key[c] => completed'[k] = completed[k]
    <2> DEFINE v == IF r = "error" THEN completed[key[c]] ELSE r
    <2>1. completed' = [completed EXCEPT ![key[c]] = v] /\ completed \in [Key -> Outcome]
      BY DEF TypeOK, Settle
    <2>2. v \in Outcome
      BY <2>1
    <2> HIDE DEF v
    <2>3. /\ completed' \in [Key -> Outcome] /\ completed'[key[c]] = v
          /\ \A k \in Key : k # key[c] => completed'[k] = completed[k]
      BY <2>1, <2>2
    <2> QED
      BY <2>3 DEF v
  <1> QED
    BY <1>1, <1>2, <1>3, <1>4, <1>5

\* The call of c ends with r: truthfully, and with nothing unaccounted for if the
\* outcome is not recorded.
LEMMA SettleStep ==
    ASSUME IInv, TypeOK', NEW c \in Caller, NEW r \in {"SUCCESS", "FAILED", "error"},
           pc[c] \in Active, Settle(c, r),
           UNCHANGED <<key, pool, chain, ledgerSeq, blind, restarts>>,
           r = "SUCCESS" => Happened(key[c]),
           r = "error" => AtMost(Possible(key[c]), blind[key[c]] + restarts)
    PROVE  IInv'
  <1>0. TypeOK /\ r \in Outcome
    BY DEF IInv, Outcome
  <1>1. key[c] \in Key /\ inflight[key[c]] = c
    BY DEF IInv, CallInv, Active
  <1>2. PICK W \in SUBSET Caller :
              /\ c \in W
              /\ \A d \in W : d # c => pc[d] = "joined" /\ key[d] = key[c]
              /\ \A d \in Caller \ W : /\ pc'[d] = pc[d] /\ result'[d] = result[d]
                                       /\ attempt'[d] = attempt[d] /\ seq'[d] = seq[d]
              /\ \A d \in Caller : d # c => attempt'[d] = attempt[d] /\ seq'[d] = seq[d]
              /\ \A d \in W : pc'[d] = "ended" /\ result'[d] = r
    BY <1>0, SettleEffect
  <1>3. /\ inflight'[key[c]] = Nobody
        /\ \A k \in Key : k # key[c] => inflight'[k] = inflight[k] /\ completed'[k] = completed[k]
        /\ completed'[key[c]] = IF r = "error" THEN completed[key[c]] ELSE r
    BY <1>0, <1>1, SettleTypes
  <1>4. /\ \A k : Possible(k)' = Possible(k)
        /\ \A k : Happened(k)' <=> Happened(k)
        /\ Sent' = Sent
    BY DEF Possible, Happened, Sent
  <1>5. NetworkInv'
    BY DEF IInv, NetworkInv, Settle
  <1>6. ASSUME NEW d \in Caller PROVE CallInv(d)'
    <2>1. CallInv(d)
      BY DEF IInv
    <2>2. CASE d \in W
      <3>1. pc'[d] = "ended" /\ result'[d] = r /\ key[d] = key[c] /\ key'[d] = key[d]
        BY <1>2, <2>2
      <3> QED
        BY <1>1, <1>4, <3>1 DEF CallInv, Active
    <2>3. CASE d \notin W
      <3>1. /\ pc'[d] = pc[d] /\ result'[d] = result[d] /\ attempt'[d] = attempt[d]
            /\ key'[d] = key[d] /\ d # c
        BY <1>2, <2>3
      <3>2. pc[d] \in Active => key[d] # key[c]
        BY <1>1, <2>1, <3>1 DEF CallInv
      <3>3. pc[d] \in Active => inflight'[key[d]] = inflight[key[d]]
        BY <1>3, <2>1, <3>2 DEF CallInv, Active
      <3> QED
        BY <1>4, <2>1, <3>1, <3>3 DEF CallInv
    <2> QED
      BY <2>2, <2>3
  <1>7. ASSUME NEW k \in Key, k # key[c] PROVE KeyInv(k)'
    <2>1. KeyInv(k) /\ inflight'[k] = inflight[k] /\ completed'[k] = completed[k]
      BY <1>3, <1>7 DEF IInv
    <2>2. inflight[k] # Nobody => /\ inflight[k] \in Caller \ W
                                  /\ pc'[inflight[k]] = pc[inflight[k]]
      <3>1. inflight[k] \in Caller \cup {Nobody}
        BY <1>0 DEF TypeOK
      <3>2. inflight[k] # Nobody => key[inflight[k]] = k /\ pc[inflight[k]] \in Active
        BY <2>1 DEF KeyInv
      <3>3. inflight[k] # Nobody => inflight[k] \notin W
        BY <1>2, <1>7, <3>2
      <3> QED
        BY <1>2, <3>1, <3>3
    <2>3. Accounted(k) => Accounted(k)'
      <3>1. ASSUME NEW d \in Caller, inflight[k] = d, pc[d] \in {"confirming", "querying"}
            PROVE  Effect(d)' = Effect(d) /\ pc'[d] = pc[d]
        <4>1. d \in Caller \ W
          BY <2>2, <3>1, SubmissionConstants
        <4> QED
          BY <1>2, <4>1 DEF Effect, tx
      <3> QED
        BY <1>4, <2>1, <3>1 DEF Accounted
    <2> QED
      BY <1>4, <2>1, <2>2, <2>3 DEF KeyInv
  <1>8. KeyInv(key[c])'
    <2>1. KeyInv(key[c]) /\ key' = key
      BY <1>1 DEF IInv
    <2>2. completed[key[c]] = "none"
      BY <1>1, <2>1, SubmissionConstants DEF KeyInv
    <2>3. completed'[key[c]] = "none" => r = "error"
      BY <1>3
    <2>4. completed'[key[c]] = "SUCCESS" => r = "SUCCESS"
      BY <1>3, <2>2
    <2>5. r = "error" => Accounted(key[c])'
      BY <1>4, <2>1 DEF Accounted
    <2> QED
      BY <1>3, <1>4, <2>1, <2>2, <2>3, <2>4, <2>5 DEF KeyInv
  <1> QED
    BY <1>1, <1>5, <1>6, <1>7, <1>8 DEF IInv

-----------------------------------------------------------------------------
(* The steps of a call.                                                     *)

\* Between two sends everything is accounted for; after one, all but that send.
LEMMA Count ==
    ASSUME IInv, NEW c \in Caller, pc[c] \in Active
    PROVE  /\ key[c] \in Key /\ inflight[key[c]] = c
           /\ blind[key[c]] + restarts \in Nat /\ blind[key[c]] \in Nat /\ restarts \in Nat
           /\ pc[c] \in {"confirming", "querying"} =>
                  AtMost(Possible(key[c]) \ {Effect(c)}, blind[key[c]] + restarts)
           /\ pc[c] \notin {"confirming", "querying"} =>
                  AtMost(Possible(key[c]), blind[key[c]] + restarts)
  <1>1. key[c] \in Key /\ inflight[key[c]] = c
    BY DEF IInv, CallInv, Active
  <1>2. blind[key[c]] + restarts \in Nat /\ blind[key[c]] \in Nat /\ restarts \in Nat
    BY <1>1, CountTypes DEF IInv
  <1>3. Accounted(key[c])
    BY <1>1, SubmissionConstants DEF IInv, KeyInv
  <1>4. ASSUME AtMost(Possible(key[c]), blind[key[c]] + restarts)
        PROVE  AtMost(Possible(key[c]) \ {Effect(c)}, blind[key[c]] + restarts)
    BY <1>2, <1>4, AtMostSubset
  <1> QED
    BY <1>1, <1>2, <1>3, <1>4 DEF Accounted

LEMMA OwnSent ==
    ASSUME IInv, NEW c \in Caller, pc[c] \in Active
    PROVE  \A t \in Sent : t.by = c =>
               /\ t.n <= attempt[c]
               /\ pc[c] \in {"queued", "building", "sending"} => t.n < attempt[c]
  BY DEF IInv, CallInv

LEMMA AcquireKeeps ==
    ASSUME IInv, NEW c \in Caller, Acquire(c)
    PROVE  IInv'
  <1>0. TypeOK
    BY DEF IInv
  <1>1. /\ pc[c] = "queued" /\ pc' = [pc EXCEPT ![c] = "building"]
        /\ UNCHANGED <<key, attempt, result, inflight, completed, pool, chain, ledgerSeq, blind, restarts>>
        /\ lock' = c
    BY DEF Acquire, Goto, network
  <1>2. PICK s \in Nat : seq' = [seq EXCEPT ![c] = s] /\ cached' = {s}
    BY <1>0 DEF Acquire, TypeOK
  <1>3. TypeOK'
    BY <1>0, <1>1, <1>2 DEF TypeOK, Active
  <1>4. NetworkInv'
    BY <1>1 DEF IInv, NetworkInv
  <1>5. \A d \in Caller : d # c => attempt'[d] = attempt[d] /\ seq'[d] = seq[d]
    BY <1>0, <1>1, <1>2 DEF TypeOK
  <1>6. \A t \in Sent' : t.by = c => t.n <= attempt'[c] /\ t.n < attempt'[c]
    BY <1>1, OwnSent DEF Sent, Active
  <1>7. Accounted(key[c])'
    BY <1>1, Count DEF Accounted, Possible, Active
  <1> QED
    BY <1>1, <1>3, <1>4, <1>5, <1>6, <1>7, LocalStep DEF Active

LEMMA BuildKeeps ==
    ASSUME IInv, NEW c \in Caller, Build(c)
    PROVE  IInv'
  <1>0. TypeOK
    BY DEF IInv
  <1>1. /\ pc[c] = "building" /\ pc' = [pc EXCEPT ![c] = "sending"]
        /\ UNCHANGED <<key, attempt, result, inflight, completed, pool, chain, ledgerSeq, blind, restarts>>
        /\ lock' = Nobody /\ seq' = [seq EXCEPT ![c] = @ + 1] /\ cached' = {seq[c] + 1}
    BY DEF Build, Goto, network
  <1>2. TypeOK'
    BY <1>0, <1>1 DEF TypeOK, Active
  <1>3. NetworkInv'
    BY <1>1 DEF IInv, NetworkInv
  <1>4. \A d \in Caller : d # c => attempt'[d] = attempt[d] /\ seq'[d] = seq[d]
    BY <1>0, <1>1 DEF TypeOK
  <1>5. \A t \in Sent' : t.by = c => t.n <= attempt'[c] /\ t.n < attempt'[c]
    BY <1>1, OwnSent DEF Sent, Active
  <1>6. Accounted(key[c])'
    BY <1>1, Count DEF Accounted, Possible, Active
  <1> QED
    BY <1>1, <1>2, <1>3, <1>4, <1>5, <1>6, LocalStep DEF Active

LEMMA BuildFailsKeeps ==
    ASSUME IInv, NEW c \in Caller, BuildFails(c)
    PROVE  IInv'
  <1>0. TypeOK
    BY DEF IInv
  <1>1. /\ pc[c] = "building" /\ pc' = [pc EXCEPT ![c] = "backoff"]
        /\ UNCHANGED <<key, attempt, seq, result, inflight, completed, pool, chain, ledgerSeq, blind, restarts>>
        /\ lock' = Nobody /\ cached' \in {cached, {}}
    BY DEF BuildFails, Goto, network, Unlock, MaybeInvalidate
  <1>2. TypeOK'
    BY <1>0, <1>1 DEF TypeOK, Active
  <1>3. NetworkInv'
    BY <1>1 DEF IInv, NetworkInv
  <1>4. \A t \in Sent' : t.by = c => t.n <= attempt'[c]
    BY <1>1, OwnSent DEF Sent, Active
  <1>5. Accounted(key[c])'
    BY <1>1, Count DEF Accounted, Possible, Active
  <1> QED
    BY <1>0, <1>1, <1>2, <1>3, <1>4, <1>5, LocalStep DEF Active

\* What each outcome of a send leaves.
LEMMA SendCases ==
    ASSUME TypeOK, NEW c \in Caller, Send(c)
    PROVE  /\ pc[c] = "sending"
           /\ UNCHANGED <<key, attempt, seq, result, lock, inflight, completed, chain, ledgerSeq, restarts>>
           /\ cached' \in {cached, {}}
           /\ \/ /\ pool' \in {pool, pool \cup {tx(c)}} /\ blind' = blind
                 /\ \E l \in {"confirming", "querying"} : pc' = [pc EXCEPT ![c] = l]
              \/ /\ pool' \in {pool, pool \cup {tx(c)}}
                 /\ blind' = [blind EXCEPT ![key[c]] = @ + 1]
                 /\ pc' = [pc EXCEPT ![c] = "backoff"]
              \/ pool' = pool /\ blind' = blind /\ pc' = [pc EXCEPT ![c] = "backoff"]
  <1>1. /\ pc[c] = "sending"
        /\ UNCHANGED <<key, attempt, seq, result, lock, inflight, completed, restarts>>
    BY DEF Send
  <1>2. UNCHANGED <<chain, ledgerSeq>> /\ cached' \in {cached, {}}
    BY DEF Send, MaybeSent, MaybeInvalidate, network
  <1>3. \/ /\ pool' \in {pool, pool \cup {tx(c)}} /\ blind' = blind
           /\ \E l \in {"confirming", "querying"} : pc' = [pc EXCEPT ![c] = l]
        \/ /\ pool' \in {pool, pool \cup {tx(c)}}
           /\ blind' = [blind EXCEPT ![key[c]] = @ + 1]
           /\ pc' = [pc EXCEPT ![c] = "backoff"]
        \/ pool' = pool /\ blind' = blind /\ pc' = [pc EXCEPT ![c] = "backoff"]
    BY DEF Send, MaybeSent, Goto, Unknown, network
  <1> QED
    BY <1>1, <1>2, <1>3

LEMMA SendKeeps ==
    ASSUME IInv, NEW c \in Caller, Send(c)
    PROVE  IInv'
  <1>0. TypeOK
    BY DEF IInv
  <1>1. /\ pc[c] = "sending"
        /\ UNCHANGED <<key, attempt, seq, result, lock, inflight, completed, chain, ledgerSeq, restarts>>
        /\ cached' \in {cached, {}}
    BY <1>0, SendCases
  <1>2. /\ pool' \subseteq pool \cup {tx(c)} /\ pool \subseteq pool'
    BY <1>0, SendCases
  <1>3. PICK l \in {"confirming", "querying", "backoff"} : pc' = [pc EXCEPT ![c] = l]
    BY <1>0, SendCases
  <1>4. blind' \in [Key -> Nat] /\ \A k \in Key : k # key[c] => blind'[k] = blind[k]
    BY <1>0, SendCases DEF TypeOK
  <1>5. tx(c) \in Tx /\ tx(c).by = c /\ tx(c).n = attempt[c] /\ attempt[c] \in Nat
    BY <1>0, Types
  <1>6. TypeOK'
    <2>1. pc' \in [Caller -> Active \cup {"idle", "joined", "ended"}]
      BY <1>0, <1>3 DEF TypeOK, Active
    <2>2. pool' \in SUBSET Tx
      BY <1>0, <1>2, <1>5 DEF TypeOK
    <2> QED
      BY <1>0, <1>1, <1>4, <2>1, <2>2 DEF TypeOK
  <1>7. \A t \in Sent : t.by = c => t.n < attempt[c]
    BY <1>1, OwnSent DEF Active
  <1>8. tx(c) \notin Sent
    BY <1>5, <1>7
  <1>9. NetworkInv'
    BY <1>1, <1>2, <1>8 DEF IInv, NetworkInv, Sent
  <1>10. \A t \in Sent' : t.by = c => t.n <= attempt'[c]
    <2>1. \A t \in Sent' : t \in Sent \/ t = tx(c)
      BY <1>1, <1>2 DEF Sent
    <2>2. \A t \in Sent : t.by = c => t.n <= attempt[c]
      BY <1>1, OwnSent DEF Active
    <2> QED
      BY <1>1, <1>5, <2>1, <2>2
  <1>11. /\ key[c] \in Key /\ inflight[key[c]] = c
         /\ blind[key[c]] + restarts \in Nat /\ blind[key[c]] \in Nat /\ restarts \in Nat
         /\ AtMost(Possible(key[c]), blind[key[c]] + restarts)
    BY <1>1, Count DEF Active
  <1>12. Possible(key[c])' \ {Effect(c)} \subseteq Possible(key[c])
    BY <1>0, <1>1, <1>2, <1>11, SendEffect
  <1>13. AtMost(Possible(key[c])' \ {Effect(c)}, blind[key[c]] + restarts)
    BY <1>11, <1>12, AtMostSubset
  <1>14. Accounted(key[c])'
    <2>1. CASE blind' = blind /\ \E m \in {"confirming", "querying"} : pc' = [pc EXCEPT ![c] = m]
      <3>1. pc'[c] \in {"confirming", "querying"}
        BY <1>0, <2>1 DEF TypeOK
      <3>2. Effect(c)' = Effect(c)
        BY <1>1 DEF Effect, tx
      <3> QED
        BY <1>1, <1>11, <1>13, <2>1, <3>1, <3>2 DEF Accounted
    <2>2. CASE blind' = [blind EXCEPT ![key[c]] = @ + 1]
      <3>1. blind'[key[c]] + restarts' = blind[key[c]] + restarts + 1
        BY <1>0, <1>1, <1>11, <2>2 DEF TypeOK
      <3>2. AtMost(Possible(key[c])', blind[key[c]] + restarts + 1)
        BY <1>11, <1>13, AtMostAdd
      <3> QED
        BY <1>1, <3>1, <3>2 DEF Accounted
    <2>3. CASE pool' = pool /\ blind' = blind
      <3>1. Possible(key[c])' = Possible(key[c])
        BY <1>1, <2>3 DEF Possible
      <3> QED
        BY <1>1, <1>11, <2>3, <3>1 DEF Accounted
    <2> QED
      BY <1>0, <2>1, <2>2, <2>3, SendCases
  <1>15. l \in Active /\ l \notin {"queued", "building", "sending"}
    BY DEF Active
  <1> QED
    BY <1>0, <1>1, <1>2, <1>3, <1>4, <1>6, <1>9, <1>10, <1>14, <1>15, LocalStep DEF Active

\* A transaction that failed on the ledger can have no effect any more.
LEMMA FailedIsOut ==
    ASSUME IInv, NEW c \in Caller, Landed(c, FALSE)
    PROVE  Effect(c) \notin Possible(key[c])
  BY DEF IInv, NetworkInv, Landed, Possible, Effect

\* A step of c after the send that leaves the network alone and does not settle.
LEMMA LateStep ==
    ASSUME IInv, NEW c \in Caller, pc[c] \in {"confirming", "querying"},
           NEW l \in {"querying", "backoff"}, pc' = [pc EXCEPT ![c] = l],
           UNCHANGED <<key, attempt, seq, result, inflight, completed, lock, cached,
                       pool, chain, ledgerSeq, restarts>>,
           \/ l = "querying" /\ blind' = blind
           \/ l = "backoff" /\ blind' = [blind EXCEPT ![key[c]] = @ + 1]
           \/ Landed(c, FALSE) /\ blind' = blind
    PROVE  IInv'
  <1>0. TypeOK /\ pc[c] \in Active /\ l \in Active
    BY DEF IInv, Active
  <1>1. /\ key[c] \in Key /\ inflight[key[c]] = c
        /\ blind[key[c]] + restarts \in Nat /\ blind[key[c]] \in Nat /\ restarts \in Nat
        /\ AtMost(Possible(key[c]) \ {Effect(c)}, blind[key[c]] + restarts)
    BY <1>0, Count
  <1>2. blind' \in [Key -> Nat] /\ \A k \in Key : k # key[c] => blind'[k] = blind[k]
    <2>1. CASE blind' = blind
      BY <1>0, <2>1 DEF TypeOK
    <2>2. CASE blind' = [blind EXCEPT ![key[c]] = @ + 1]
      BY <1>0, <1>1, <2>2 DEF TypeOK
    <2> QED
      BY <2>1, <2>2
  <1>3. TypeOK'
    <2>1. pc' \in [Caller -> Active \cup {"idle", "joined", "ended"}]
      BY <1>0 DEF TypeOK
    <2> QED
      BY <1>0, <1>2, <2>1 DEF TypeOK
  <1>4. NetworkInv'
    BY DEF IInv, NetworkInv
  <1>5. \A t \in Sent' : t.by = c => t.n <= attempt'[c]
    BY <1>0, OwnSent DEF Sent
  <1>6. Possible(key[c])' = Possible(key[c]) /\ Effect(c)' = Effect(c)
    BY DEF Possible, Effect, tx
  <1>7. Accounted(key[c])'
    <2>1. CASE l = "querying" /\ blind' = blind
      <3>1. pc'[c] = "querying"
        BY <1>0, <2>1 DEF TypeOK
      <3> QED
        BY <1>1, <1>6, <2>1, <3>1 DEF Accounted
    <2>2. CASE blind' = [blind EXCEPT ![key[c]] = @ + 1]
      <3>1. blind'[key[c]] + restarts' = blind[key[c]] + restarts + 1
        BY <1>0, <1>1, <2>2 DEF TypeOK
      <3>2. AtMost(Possible(key[c]), blind[key[c]] + restarts + 1)
        BY <1>1, AtMostAdd
      <3> QED
        BY <1>6, <3>1, <3>2 DEF Accounted
    <2>3. CASE Landed(c, FALSE) /\ blind' = blind
      <3>1. Possible(key[c]) \ {Effect(c)} = Possible(key[c])
        BY <2>3, FailedIsOut
      <3>2. AtMost(Possible(key[c]), blind[key[c]] + restarts)
        BY <1>1, <3>1
      <3> QED
        BY <1>6, <2>3, <3>2 DEF Accounted
    <2> QED
      BY <2>1, <2>2, <2>3
  <1> QED
    BY <1>0, <1>2, <1>3, <1>4, <1>5, <1>7, LocalStep

LEMMA EndTypes ==
    ASSUME IInv, NEW c \in Caller, pc[c] \in Active, NEW r \in {"SUCCESS", "FAILED", "error"},
           Settle(c, r), UNCHANGED <<key, lock, cached, pool, chain, ledgerSeq, blind, restarts>>
    PROVE  TypeOK'
  <1>1. TypeOK /\ key[c] \in Key /\ r \in Outcome
    BY Count DEF IInv, Outcome
  <1> QED
    BY <1>1, SettleTypes DEF TypeOK

LEMMA ConfirmKeeps ==
    ASSUME IInv, NEW c \in Caller, Confirm(c)
    PROVE  IInv'
  <1>1. /\ pc[c] = "confirming" /\ pc[c] \in Active
        /\ UNCHANGED <<key, lock, cached, pool, chain, ledgerSeq, restarts>>
    BY DEF Confirm, network, Active
  <1>2. CASE Landed(c, TRUE) /\ Settle(c, "SUCCESS") /\ UNCHANGED blind
    <2>1. Happened(key[c])
      BY <1>2, Types DEF IInv, Landed, Happened
    <2> QED
      BY <1>1, <1>2, <2>1, EndTypes, SettleStep
  <1>3. CASE /\ \/ Landed(c, FALSE) /\ Goto(c, "backoff") /\ UNCHANGED blind
                \/ Goto(c, "querying") /\ UNCHANGED blind
                \/ Goto(c, "backoff") /\ Unknown(c)
             /\ UNCHANGED <<attempt, seq, result, inflight, completed>>
    BY <1>1, <1>3, LateStep DEF Goto, Unknown
  <1> QED
    BY <1>2, <1>3 DEF Confirm

LEMMA QueryKeeps ==
    ASSUME IInv, NEW c \in Caller, Query(c)
    PROVE  IInv'
  <1>1. /\ pc[c] = "querying" /\ pc[c] \in Active
        /\ UNCHANGED <<key, lock, cached, pool, chain, ledgerSeq, restarts>>
    BY DEF Query, network, Active
  <1>2. ASSUME NEW r \in {"SUCCESS", "FAILED"}, Found(c, r), Settle(c, r), UNCHANGED blind
        PROVE  IInv'
    <2>1. r = "SUCCESS" => Happened(key[c])
      BY <1>2, Types DEF IInv, Found, Landed, Happened
    <2> QED
      BY <1>1, <1>2, <2>1, EndTypes, SettleStep
  <1>3. CASE Goto(c, "backoff") /\ Unknown(c) /\ UNCHANGED <<attempt, seq, result, inflight, completed>>
    BY <1>1, <1>3, LateStep DEF Goto, Unknown
  <1> QED
    BY <1>2, <1>3 DEF Query

LEMMA BackoffKeeps ==
    ASSUME IInv, NEW c \in Caller, Backoff(c)
    PROVE  IInv'
  <1>0. TypeOK
    BY DEF IInv
  <1>1. /\ pc[c] = "backoff" /\ pc[c] \in Active
        /\ UNCHANGED <<key, lock, cached, pool, chain, ledgerSeq, blind, restarts>>
    BY DEF Backoff, network, Active
  <1>2. /\ key[c] \in Key /\ AtMost(Possible(key[c]), blind[key[c]] + restarts)
    BY <1>1, Count
  <1>3. CASE Settle(c, "error")
    BY <1>1, <1>2, <1>3, EndTypes, SettleStep
  <1>4. CASE /\ attempt[c] < MaxAttempts
             /\ attempt' = [attempt EXCEPT ![c] = @ + 1]
             /\ seq' = [seq EXCEPT ![c] = 0]
             /\ Goto(c, "queued") /\ UNCHANGED <<result, inflight, completed>>
    <2>1. pc' = [pc EXCEPT ![c] = "queued"]
      BY <1>4 DEF Goto
    <2>2. attempt[c] \in Nat /\ attempt[c] \in 1..MaxAttempts /\ attempt[c] + 1 \in 1..MaxAttempts
      BY <1>0, <1>4, Types, SubmissionConstants
    <2>3. TypeOK'
      <3>1. attempt' \in [Caller -> 1..MaxAttempts]
        BY <1>0, <1>4, <2>2 DEF TypeOK
      <3>2. seq' \in [Caller -> Nat] /\ pc' \in [Caller -> Active \cup {"idle", "joined", "ended"}]
        BY <1>0, <1>4, <2>1 DEF TypeOK, Active
      <3> QED
        BY <1>0, <1>1, <1>4, <3>1, <3>2 DEF TypeOK
    <2>4. NetworkInv'
      BY <1>1 DEF IInv, NetworkInv
    <2>5. /\ attempt'[c] = attempt[c] + 1
          /\ \A d \in Caller : d # c => attempt'[d] = attempt[d] /\ seq'[d] = seq[d]
      BY <1>0, <1>4 DEF TypeOK
    <2>6. \A t \in Sent' : t.by = c => t.n <= attempt'[c] /\ t.n < attempt'[c]
      <3>1. Sent' = Sent
        BY <1>1 DEF Sent
      <3>2. \A t \in Sent : t.n \in Nat
        BY <1>0, SubmissionConstants DEF Sent, TypeOK, Tx
      <3>3. \A t \in Sent : t.by = c => t.n <= attempt[c]
        BY <1>1, OwnSent
      <3> QED
        BY <2>2, <2>5, <3>1, <3>2, <3>3
    <2>7. Accounted(key[c])'
      BY <1>1, <1>2 DEF Accounted, Possible
    <2> QED
      BY <1>1, <1>4, <2>1, <2>3, <2>4, <2>5, <2>6, <2>7, LocalStep DEF Active
  <1> QED
    BY <1>3, <1>4 DEF Backoff

-----------------------------------------------------------------------------
(* A new call, and the environment.                                         *)

\* A call that sent nothing yet may be given a key without touching any other.
LEMMA SubmitKeeps ==
    ASSUME IInv, NEW c \in Caller, NEW k \in KeysOf[c], Submit(c, k)
    PROVE  IInv'
  <1>0. TypeOK /\ k \in Key
    BY SubmissionConstants DEF IInv
  <1>1. /\ pc[c] = "idle" /\ key' = [key EXCEPT ![c] = k]
        /\ UNCHANGED <<attempt, seq, lock, cached, completed, pool, chain, ledgerSeq, blind, restarts>>
    BY DEF Submit, network
  <1>2. /\ CallInv(c) /\ result[c] = "none" /\ \A t \in Sent : t.by # c
    BY <1>1 DEF IInv, CallInv
  <1>3. /\ key' \in [Caller -> Key \cup {Nobody}] /\ key'[c] = k
        /\ \A d \in Caller : d # c => key'[d] = key[d]
    BY <1>0, <1>1 DEF TypeOK
  <1>4. \A t \in Sent : t.by \in Caller /\ key'[t.by] = key[t.by]
    <2>1. \A t \in Sent : t \in Tx
      BY <1>0 DEF Sent, TypeOK
    <2> QED
      BY <1>2, <1>3, <2>1 DEF Tx
  <1>5. \A q : Possible(q)' = Possible(q)
    BY <1>1, <1>4 DEF Possible, Sent
  <1>6. \A q : Happened(q)' <=> Happened(q)
    BY <1>1, <1>4 DEF Happened, Sent
  <1>7. NetworkInv' /\ Sent' = Sent
    BY <1>1 DEF IInv, NetworkInv, Sent
  <1>8. PICK l \in {"ended", "joined", "queued"}, r \in Outcome :
            /\ pc' = [pc EXCEPT ![c] = l] /\ result' = [result EXCEPT ![c] = r]
            /\ l # "ended" => r = "none"
            /\ r = "SUCCESS" => completed[k] = "SUCCESS"
            /\ l = "queued" => /\ inflight' = [inflight EXCEPT ![k] = c]
                               /\ completed[k] = "none" /\ inflight[k] = Nobody
            /\ l # "queued" => inflight' = inflight
    <2>1. CASE /\ completed[k] # "none"
               /\ Goto(c, "ended") /\ result' = [result EXCEPT ![c] = completed[k]]
               /\ UNCHANGED inflight
      <3>1. completed[k] \in Outcome
        BY <1>0 DEF TypeOK
      <3> QED
        BY <2>1, <3>1 DEF Goto
    <2>2. result = [result EXCEPT ![c] = "none"] /\ "none" \in Outcome
      BY <1>0, <1>2 DEF TypeOK, Outcome
    <2>3. CASE /\ completed[k] = "none" /\ Running(k)
               /\ Goto(c, "joined") /\ UNCHANGED <<result, inflight>>
      BY <2>2, <2>3 DEF Goto
    <2>4. CASE /\ completed[k] = "none" /\ ~Running(k)
               /\ Goto(c, "queued") /\ inflight' = [inflight EXCEPT ![k] = c]
               /\ UNCHANGED result
      BY <2>2, <2>4 DEF Goto, Running
    <2> QED
      BY <2>1, <2>3, <2>4 DEF Submit
  <1>9. /\ pc'[c] = l /\ result'[c] = r
        /\ \A d \in Caller : d # c => pc'[d] = pc[d] /\ result'[d] = result[d]
        /\ pc' \in [Caller -> Active \cup {"idle", "joined", "ended"}]
        /\ result' \in [Caller -> Outcome]
    BY <1>0, <1>8 DEF TypeOK, Active
  <1>10. /\ inflight' \in [Key -> Caller \cup {Nobody}]
         /\ \A q \in Key : q # k => inflight'[q] = inflight[q]
         /\ l = "queued" => inflight'[k] = c
    BY <1>0, <1>8 DEF TypeOK
  <1>11. TypeOK'
    BY <1>0, <1>1, <1>3, <1>9, <1>10 DEF TypeOK
  <1>12. CallInv(c)'
    <2>1. completed[k] = "SUCCESS" => Happened(k)
      BY <1>0 DEF IInv, KeyInv
    <2> QED
      BY <1>0, <1>2, <1>3, <1>6, <1>7, <1>8, <1>9, <1>10, <2>1 DEF CallInv, Active
  <1>13. ASSUME NEW d \in Caller, d # c PROVE CallInv(d)'
    <2>1. CallInv(d)
      BY DEF IInv
    <2>2. pc[d] \in Active => inflight'[key[d]] = inflight[key[d]]
      <3>1. pc[d] \in Active => key[d] \in Key /\ inflight[key[d]] = d
        BY <2>1 DEF CallInv, Active
      <3>2. CASE l = "queued"
        <4>1. inflight[k] = Nobody
          BY <1>8, <3>2
        <4>2. pc[d] \in Active => key[d] # k
          BY <3>1, <4>1, SubmissionConstants
        <4> QED
          BY <1>10, <3>1, <4>2
      <3>3. CASE l # "queued"
        BY <1>8, <3>3
      <3> QED
        BY <3>2, <3>3
    <2> QED
      BY <1>1, <1>3, <1>6, <1>7, <1>9, <1>13, <2>1, <2>2 DEF CallInv
  <1>14. ASSUME NEW q \in Key PROVE KeyInv(q)'
    <2>1. KeyInv(q)
      BY DEF IInv
    <2>2. inflight[q] \in Caller => inflight[q] # c
      BY <1>1, <2>1, SubmissionConstants DEF KeyInv, Active
    <2>3. CASE inflight'[q] = inflight[q]
      <3>1. inflight[q] # Nobody => /\ pc'[inflight[q]] = pc[inflight[q]]
                                    /\ key'[inflight[q]] = key[inflight[q]]
        <4>1. inflight[q] \in Caller \cup {Nobody}
          BY <1>0 DEF TypeOK
        <4> QED
          BY <1>3, <1>9, <2>2, <4>1
      <3>2. Accounted(q) => Accounted(q)'
        <4>1. ASSUME NEW d \in Caller, inflight[q] = d
              PROVE  Effect(d)' = Effect(d) /\ pc'[d] = pc[d]
          BY <1>1, <1>9, <2>2, <4>1 DEF Effect, tx
        <4> QED
          BY <1>1, <1>5, <2>3, <4>1 DEF Accounted
      <3> QED
        BY <1>1, <1>5, <1>6, <2>1, <2>3, <3>1, <3>2 DEF KeyInv
    <2>4. CASE q = k /\ l = "queued"
      <3>1. /\ inflight'[q] = c /\ pc'[c] = "queued" /\ key'[c] = q
            /\ completed[q] = "none" /\ inflight[q] = Nobody
        BY <1>3, <1>8, <1>9, <1>10, <2>4
      <3>2. AtMost(Possible(q), blind[q] + restarts)
        BY <2>1, <3>1, SubmissionConstants DEF KeyInv, Accounted
      <3>3. Accounted(q)'
        BY <1>1, <1>5, <3>2 DEF Accounted
      <3> QED
        BY <1>1, <1>5, <1>6, <2>1, <3>1, <3>3 DEF KeyInv, Active
    <2> QED
      BY <1>8, <1>10, <2>3, <2>4
  <1> QED
    BY <1>7, <1>11, <1>12, <1>13, <1>14 DEF IInv

LEMMA LandKeeps ==
    ASSUME IInv, NEW t \in pool, Land(t)
    PROVE  IInv'
  <1>0. TypeOK /\ t \in Tx /\ t.seq \in Nat /\ t.by \in Caller
    BY DEF IInv, TypeOK, Tx
  <1>1. /\ t.seq = ledgerSeq + 1 /\ ledgerSeq' = t.seq /\ pool' = {u \in pool : u.seq > t.seq}
        /\ UNCHANGED <<key, pc, attempt, seq, result, lock, cached, inflight, completed,
                       blind, restarts>>
    BY DEF Land, memory
  <1>2. PICK ok \in BOOLEAN : chain' = chain \cup {[tx |-> t, ok |-> ok]}
    BY DEF Land
  <1>3. TypeOK'
    <2>1. chain' \in SUBSET [tx : Tx, ok : BOOLEAN]
      BY <1>0, <1>2 DEF TypeOK
    <2>2. pool' \in SUBSET Tx /\ ledgerSeq' \in Nat
      BY <1>0, <1>1 DEF TypeOK
    <2> QED
      BY <1>0, <1>1, <2>1, <2>2 DEF TypeOK
  <1>4. NetworkInv'
    <2>1. \A x \in chain : x.tx \in Tx /\ x.tx.seq \in Nat /\ x.tx.seq <= ledgerSeq /\ x.tx \notin pool
      BY <1>0 DEF IInv, NetworkInv, TypeOK, Tx
    <2>2. ledgerSeq \in Nat
      BY <1>0 DEF TypeOK
    <2>3. \A x \in chain : x.tx # t
      BY <2>1
    <2>4. \A x \in chain' : x.tx \notin pool'
      BY <1>0, <1>1, <1>2, <2>1
    <2>5. \A x \in chain' : x.tx.seq <= ledgerSeq'
      BY <1>0, <1>1, <1>2, <2>1, <2>2
    <2>6. \A x, y \in chain' : x.tx = y.tx => x.ok = y.ok
      BY <1>2, <2>3 DEF IInv, NetworkInv
    <2> QED
      BY <2>4, <2>5, <2>6 DEF NetworkInv
  <1>5. Sent' \subseteq Sent
    BY <1>1, <1>2 DEF Sent
  <1>6. \A q : Happened(q) => Happened(q)'
    BY <1>1, <1>2 DEF Happened
  <1>7. \A q : Possible(q)' \subseteq Possible(q)
    BY <1>1, <1>2 DEF Possible
  <1>8. ASSUME NEW d \in Caller PROVE CallInv(d)'
    BY <1>1, <1>5, <1>6 DEF IInv, CallInv
  <1>9. ASSUME NEW q \in Key PROVE KeyInv(q)'
    <2>1. KeyInv(q) /\ blind[q] + restarts \in Nat /\ blind[q] + restarts + 1 \in Nat
      BY <1>0, CountTypes DEF IInv
    <2>2. ASSUME NEW n \in Nat, NEW S PROVE AtMost(Possible(q) \ S, n) => AtMost(Possible(q)' \ S, n)
      BY <1>7, AtMostSubset
    <2>3. AtMost(Possible(q), blind[q] + restarts + 1) => AtMost(Possible(q)', blind[q] + restarts + 1)
      BY <1>7, <2>1, AtMostSubset
    <2>4. AtMost(Possible(q), blind[q] + restarts) => AtMost(Possible(q)', blind[q] + restarts)
      BY <1>7, <2>1, AtMostSubset
    <2>5. \A d : Effect(d)' = Effect(d)
      BY <1>1 DEF Effect, tx
    <2>6. Accounted(q) => Accounted(q)'
      BY <1>1, <2>1, <2>2, <2>4, <2>5 DEF Accounted
    <2> QED
      BY <1>1, <1>6, <2>1, <2>3, <2>6 DEF KeyInv
  <1> QED
    BY <1>3, <1>4, <1>8, <1>9 DEF IInv

LEMMA RestartKeeps == ASSUME IInv, Restart PROVE IInv'
  <1>0. TypeOK
    BY DEF IInv
  <1>1. /\ restarts < MaxRestarts /\ restarts' = restarts + 1
        /\ pc' = [c \in Caller |-> IF pc[c] = "idle" THEN "idle" ELSE "ended"]
        /\ result' = [c \in Caller |->
               IF pc[c] \in {"idle", "ended"} THEN result[c] ELSE "error"]
        /\ lock' = Nobody /\ cached' = {}
        /\ inflight' = [k \in Key |-> Nobody] /\ completed' = [k \in Key |-> "none"]
        /\ UNCHANGED <<key, pool, chain, ledgerSeq, blind>>
    BY DEF Restart, network
  <1>2. /\ attempt' \in [Caller -> 1..MaxAttempts] /\ seq' \in [Caller -> Nat]
    BY <1>0, SubmissionConstants DEF Restart, Forget, TypeOK
  <1>3. TypeOK'
    <2>1. pc' \in [Caller -> Active \cup {"idle", "joined", "ended"}]
      BY <1>1
    <2>2. result' \in [Caller -> Outcome] /\ completed' \in [Key -> Outcome]
      BY <1>0, <1>1 DEF TypeOK, Outcome
    <2>3. restarts' \in 0..MaxRestarts
      BY <1>0, <1>1, SubmissionConstants DEF TypeOK
    <2>4. lock' \in Caller \cup {Nobody} /\ inflight' \in [Key -> Caller \cup {Nobody}]
          /\ cached' \in SUBSET Nat
      BY <1>1
    <2> QED
      BY <1>0, <1>1, <1>2, <2>1, <2>2, <2>3, <2>4 DEF TypeOK
  <1>4. /\ NetworkInv' /\ Sent' = Sent
        /\ \A q : Possible(q)' = Possible(q)
        /\ \A q : Happened(q)' <=> Happened(q)
    BY <1>1 DEF IInv, NetworkInv, Sent, Possible, Happened
  <1>5. ASSUME NEW d \in Caller PROVE CallInv(d)'
    <2>1. CallInv(d)
      BY DEF IInv
    <2>2. pc'[d] = IF pc[d] = "idle" THEN "idle" ELSE "ended"
      BY <1>1
    <2>3. result'[d] = IF pc[d] \in {"idle", "ended"} THEN result[d] ELSE "error"
      BY <1>1
    <2> QED
      BY <1>1, <1>4, <2>1, <2>2, <2>3 DEF CallInv, Active
  <1>6. ASSUME NEW q \in Key PROVE KeyInv(q)'
    <2>1. KeyInv(q) /\ blind[q] \in Nat /\ restarts \in Nat
      BY <1>0, CountTypes DEF IInv
    <2>2. inflight'[q] = Nobody /\ completed'[q] = "none"
      BY <1>1
    <2>3. AtMost(Possible(q), blind[q] + restarts + 1)
      BY <2>1 DEF KeyInv
    <2>4. blind'[q] + restarts' = blind[q] + restarts + 1
      BY <1>1, <2>1
    <2>5. AtMost(Possible(q)', blind'[q] + restarts')
      BY <1>4, <2>3, <2>4
    <2>6. blind'[q] + restarts' \in Nat /\ blind'[q] + restarts' + 1 \in Nat
      BY <2>1, <2>4
    <2>7. AtMost(Possible(q)', blind'[q] + restarts' + 1)
      BY <2>5, <2>6, AtMostSubset
    <2> QED
      BY <2>2, <2>5, <2>7 DEF KeyInv, Accounted
  <1> QED
    BY <1>3, <1>4, <1>5, <1>6 DEF IInv

LEMMA NextKeeps == IInv /\ [Next]_vars => IInv'
  <1> SUFFICES ASSUME IInv, [Next]_vars PROVE IInv'
    OBVIOUS
  <1>1. ASSUME NEW c \in Caller, Step(c) PROVE IInv'
    BY <1>1, AcquireKeeps, BuildKeeps, BuildFailsKeeps, SendKeeps, ConfirmKeeps,
       QueryKeeps, BackoffKeeps DEF Step
  <1>2. ASSUME NEW c \in Caller, NEW k \in KeysOf[c], Submit(c, k) PROVE IInv'
    BY <1>2, SubmitKeeps
  <1>3. ASSUME NEW t \in pool, Land(t) PROVE IInv'
    BY <1>3, LandKeeps
  <1>4. CASE Restart
    BY <1>4, RestartKeeps
  <1>5. CASE UNCHANGED vars
    <2>1. UNCHANGED <<pc, key, attempt, seq, result, lock, cached, inflight, completed,
                      ledgerSeq, pool, chain, blind, restarts>>
      BY <1>5 DEF vars, memory, network
    <2>2. TypeOK' /\ NetworkInv'
      BY <2>1 DEF IInv, TypeOK, NetworkInv
    <2>3. /\ \A q : Possible(q)' = Possible(q) /\ (Happened(q)' <=> Happened(q))
          /\ Sent' = Sent /\ \A d : Effect(d)' = Effect(d)
      BY <2>1 DEF Possible, Happened, Sent, Effect, tx
    <2>4. \A c \in Caller : CallInv(c)'
      BY <2>1, <2>3 DEF IInv, CallInv
    <2>5. \A k \in Key : KeyInv(k)'
      BY <2>1, <2>3 DEF IInv, KeyInv, Accounted
    <2> QED
      BY <2>2, <2>4, <2>5 DEF IInv
  <1> QED
    BY <1>1, <1>2, <1>3, <1>4, <1>5 DEF Next

-----------------------------------------------------------------------------
(* What follows.                                                            *)

\* IInv holds in every state.
THEOREM Invariance == Spec => []IInv
  BY InitIInv, NextKeeps, PTL DEF Spec

\* Every variable keeps its type; in particular attempts never pass MaxAttempts.
THEOREM TypeCorrect == Spec => []TypeOK
  <1>1. IInv => TypeOK
    BY DEF IInv
  <1> QED
    BY <1>1, Invariance, PTL

\* One key takes effect once, plus at most once for each attempt given up without
\* knowing its fate and for each restart, whatever the network does.
THEOREM EffectsBounded == Spec => []LandsBounded
  <1>1. ASSUME IInv, NEW k \in Key
        PROVE  Cardinality(Successes(k)) <= 1 + blind[k] + restarts
    <2>1. Successes(k) \subseteq Possible(k)
      BY <1>1 DEF IInv, TypeOK, Successes, Possible
    <2>2. blind[k] \in Nat /\ restarts \in Nat
      BY <1>1, CountTypes DEF IInv
    <2>3. AtMost(Possible(k), blind[k] + restarts + 1)
      BY <1>1 DEF IInv, KeyInv
    <2>4. AtMost(Successes(k), blind[k] + restarts + 1)
      BY <2>1, <2>2, <2>3, AtMostSubset
    <2>5. blind[k] + restarts + 1 = 1 + blind[k] + restarts
      BY <2>2
    <2> QED
      BY <2>4, <2>5 DEF AtMost
  <1>2. IInv => LandsBounded
    BY <1>1 DEF LandsBounded
  <1> QED
    BY <1>2, Invariance, PTL

\* A caller is told SUCCESS only if a transaction under its key took effect,
\* also when it joined another call or was answered from the record.
THEOREM SuccessIsTrue == Spec => []ReportedTrue
  <1>1. ASSUME IInv, NEW c \in Caller, result[c] = "SUCCESS"
        PROVE  Successes(key[c]) # {}
    <2>1. Happened(key[c])
      BY <1>1 DEF IInv, CallInv
    <2> QED
      BY <2>1 DEF Happened, Successes
  <1>2. IInv => ReportedTrue
    BY <1>1 DEF ReportedTrue
  <1> QED
    BY <1>2, Invariance, PTL
=============================================================================
