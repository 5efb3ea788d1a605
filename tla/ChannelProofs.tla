---------------------------- MODULE ChannelProofs ----------------------------
(* Theorems about the payment channels, for every value of the constants:    *)
(* first the contract on its own (Spec), whoever calls it with whatever, and *)
(* then the contract with its wallets (ProtocolSpec).                        *)
EXTENDS ChannelProtocol, FiniteSetTheorems, WellFoundedInduction, TLAPS

-----------------------------------------------------------------------------
(* What the entry points do to the channel record, field by field.          *)

\* What callers pass in is a number of the right sort.
LEMMA InputTypes ==
    /\ \A a \in Balance : a \in Int
    /\ \A amount \in Amount : amount \in Nat
    /\ \A window \in Windows : window \in Nat
    /\ \A seq \in 1..MaxSeq : seq \in Nat
  BY ChannelConstants

\* The fields of a channel have the declared types.
LEMMA ChannelTypes ==
    ASSUME TypeOK, NEW c \in Id
    PROVE  /\ channel[c].depositor \in Addr \cup {NoAddr}
           /\ channel[c].counterparty \in Addr \cup {NoAddr}
           /\ channel[c].balance_a \in Int /\ channel[c].balance_b \in Int
           /\ channel[c].sequence \in Nat /\ channel[c].state \in States
           /\ channel[c].dispute_deadline \in Nat /\ channel[c].closing_started_at \in Nat
  BY DEF TypeOK, ChannelRecord

\* Record writes four fields of one channel and leaves everything else alone.
LEMMA RecordEffect ==
    ASSUME TypeOK, NEW c \in Id, NEW a \in Int, NEW b \in Int, NEW seq \in Nat,
           NEW st \in States, Record(c, a, b, seq, st)
    PROVE  /\ channel' \in [Id -> ChannelRecord]
           /\ \A k \in Id : k # c => channel'[k] = channel[k]
           /\ channel'[c].balance_a = a /\ channel'[c].balance_b = b
           /\ channel'[c].sequence = seq /\ channel'[c].state = st
           /\ channel'[c].depositor = channel[c].depositor
           /\ channel'[c].counterparty = channel[c].counterparty
           /\ channel'[c].dispute_deadline = channel[c].dispute_deadline
           /\ channel'[c].closing_started_at = channel[c].closing_started_at
  <1> DEFINE old == channel[c]
             new == [old EXCEPT !.balance_a = a, !.balance_b = b,
                                !.sequence = seq, !.state = st]
  <1>1. channel \in [Id -> ChannelRecord] /\ old \in ChannelRecord
    BY DEF TypeOK
  <1>2. channel' = [channel EXCEPT ![c] = new]
    BY DEF Record
  <1>3. /\ new \in ChannelRecord
        /\ new.balance_a = a /\ new.balance_b = b /\ new.sequence = seq /\ new.state = st
    <2> HIDE DEF old
    <2> QED
      BY <1>1 DEF ChannelRecord
  <1>4. /\ new.depositor = old.depositor /\ new.counterparty = old.counterparty
        /\ new.dispute_deadline = old.dispute_deadline
        /\ new.closing_started_at = old.closing_started_at
    <2> HIDE DEF old
    <2> QED
      BY <1>1 DEF ChannelRecord
  <1> HIDE DEF new
  <1>5. channel'[c] = new /\ (\A k \in Id : k # c => channel'[k] = channel[k])
    BY <1>1, <1>2
  <1>6. channel' \in [Id -> ChannelRecord]
    BY <1>1, <1>2, <1>3
  <1> QED
    BY <1>3, <1>4, <1>5, <1>6

\* Credit changes one balance of one channel.
LEMMA CreditEffect ==
    ASSUME TypeOK, NEW c \in Id, NEW amount \in Int, Credit(c, amount)
    PROVE  /\ channel' \in [Id -> ChannelRecord]
           /\ \A k \in Id : k # c => channel'[k] = channel[k]
           /\ channel'[c].balance_a = channel[c].balance_a + amount
           /\ channel'[c].balance_b = channel[c].balance_b
           /\ channel'[c].sequence = channel[c].sequence
           /\ channel'[c].state = channel[c].state
           /\ channel'[c].depositor = channel[c].depositor
           /\ channel'[c].counterparty = channel[c].counterparty
           /\ channel'[c].dispute_deadline = channel[c].dispute_deadline
  <1>1. channel[c].balance_a + amount \in Int
    BY ChannelTypes
  <1> QED
    BY <1>1, ChannelTypes, RecordEffect DEF Credit

\* EarnBounty pays one address of one channel and marks its bounty.
LEMMA EarnEffect ==
    ASSUME TypeOK, NEW c \in Id, NEW w \in Addr, EarnBounty(c, w)
    PROVE  /\ \A j \in Id : j # c => payout'[j] = payout[j] /\ bountyPaid'[j] = bountyPaid[j]
           /\ bountyPaid'[c] <=> (bountyPaid[c] \/ bounty[c] > 0)
           /\ payout'[c][w] = payout[c][w] + Reserved(c)
           /\ \A y \in Addr : y # w => payout'[c][y] = payout[c][y]
  <1>1. payout \in [Id -> [Addr -> Nat]] /\ payout[c] \in [Addr -> Nat]
    BY DEF TypeOK
  <1>2. bountyPaid \in [Id -> BOOLEAN]
    BY DEF TypeOK
  <1>3. /\ \A j \in Id : j # c => payout'[j] = payout[j]
        /\ payout'[c][w] = payout[c][w] + Reserved(c)
        /\ \A y \in Addr : y # w => payout'[c][y] = payout[c][y]
    BY <1>1 DEF EarnBounty
  <1>4. /\ \A j \in Id : j # c => bountyPaid'[j] = bountyPaid[j]
        /\ bountyPaid'[c] <=> (bountyPaid[c] \/ bounty[c] > 0)
    BY <1>2 DEF EarnBounty
  <1> QED
    BY <1>3, <1>4

\* The same for the two entry points that write other fields as well.
LEMMA CloseEffect ==
    ASSUME TypeOK, NEW c \in Id, NEW a \in Int, NEW b \in Int, NEW seq \in Nat,
           NEW sig, InitiateClose(c, a, b, seq, sig)
    PROVE  /\ channel' \in [Id -> ChannelRecord]
           /\ \A k \in Id : k # c => channel'[k] = channel[k]
           /\ channel'[c].balance_a = a /\ channel'[c].balance_b = b
           /\ channel'[c].sequence = seq /\ channel'[c].state = "Closing"
           /\ channel'[c].depositor = channel[c].depositor
           /\ channel'[c].counterparty = channel[c].counterparty
           /\ channel'[c].dispute_deadline = channel[c].dispute_deadline
           /\ channel'[c].closing_started_at = now
  <1>1. channel \in [Id -> ChannelRecord] /\ now \in Nat
    BY ChannelConstants DEF TypeOK
  <1> DEFINE new == [channel[c] EXCEPT
                        !.balance_a = a, !.balance_b = b, !.sequence = seq,
                        !.state = "Closing", !.closing_started_at = now]
  <1>2. channel' = [channel EXCEPT ![c] = new]
    BY <1>1 DEF InitiateClose
  <1>3. channel[c] \in ChannelRecord
    BY <1>1
  <1>4. new \in ChannelRecord
    BY <1>1, <1>3 DEF ChannelRecord, States
  <1>5. /\ new.balance_a = a /\ new.balance_b = b /\ new.sequence = seq
        /\ new.state = "Closing" /\ new.closing_started_at = now
        /\ new.depositor = channel[c].depositor
        /\ new.counterparty = channel[c].counterparty
        /\ new.dispute_deadline = channel[c].dispute_deadline
    BY <1>3 DEF ChannelRecord
  <1>6. channel'[c] = new /\ \A k \in Id : k # c => channel'[k] = channel[k]
    BY <1>1, <1>2
  <1>7. channel' \in [Id -> ChannelRecord]
    BY <1>1, <1>2, <1>4
  <1> HIDE DEF new
  <1> QED
    BY <1>5, <1>6, <1>7

LEMMA OpenEffect ==
    ASSUME TypeOK, NEW d \in Addr, NEW k \in Addr, NEW amount \in Nat, NEW window \in Nat,
           OpenChannel(d, k, amount, window)
    PROVE  /\ count + 1 \in Id
           /\ channel' \in [Id -> ChannelRecord]
           /\ \A i \in Id : i # count + 1 => channel'[i] = channel[i]
           /\ channel'[count + 1].depositor = d /\ channel'[count + 1].counterparty = k
           /\ channel'[count + 1].balance_b = 0 /\ channel'[count + 1].sequence = 0
           /\ channel'[count + 1].state = "Open"
  <1> DEFINE new == [depositor |-> d, counterparty |-> k,
                     balance_a |-> amount, balance_b |-> 0, sequence |-> 0,
                     state |-> "Open", dispute_deadline |-> now + window,
                     closing_started_at |-> 0]
  <1>1. channel \in [Id -> ChannelRecord] /\ now \in Nat
    BY ChannelConstants DEF TypeOK
  <1>2. count + 1 \in Id
    BY ChannelConstants DEF TypeOK, OpenChannel, Id
  <1>3. channel' = [channel EXCEPT ![count + 1] = new]
    BY DEF OpenChannel
  <1>4. new \in ChannelRecord
    BY <1>1 DEF ChannelRecord, States
  <1> QED
    BY <1>1, <1>2, <1>3, <1>4

-----------------------------------------------------------------------------
(* Type correctness.                                                        *)

\* The initial state has the declared types.
LEMMA InitTypes == Init => TypeOK
  <1> SUFFICES ASSUME Init PROVE TypeOK
    OBVIOUS
  <1> USE ChannelConstants DEF Init
  <1>1. NoChannel \in ChannelRecord
    BY DEF NoChannel, ChannelRecord, States
  <1>2. channel \in [Id -> ChannelRecord]
    BY <1>1
  <1>3. now \in 0..MaxTime /\ count \in 0..MaxChannels
    BY DEF Id
  <1>4. bounty \in [Id -> 0..MaxBounty]
    OBVIOUS
  <1>5. payout \in [Id -> [Addr -> Nat]] /\ debited \in [Id -> [Nonce -> Nat]]
    OBVIOUS
  <1> QED
    BY <1>2, <1>3, <1>4, <1>5 DEF TypeOK

\* The entry points that take a state, whatever numbers the caller puts in it.
LEMMA SubmitTypes ==
    ASSUME TypeOK, NEW c \in Id, NEW a \in Int, NEW b \in Int,
           NEW seq \in Nat, NEW x \in Addr, NEW y \in Addr,
           SubmitState(c, a, b, seq, x, y)
    PROVE  TypeOK'
  <1>1. channel' \in [Id -> ChannelRecord]
    BY RecordEffect DEF SubmitState, States
  <1> QED
    BY <1>1 DEF TypeOK, SubmitState

LEMMA CloseTypes ==
    ASSUME TypeOK, NEW c \in Id, NEW a \in Int, NEW b \in Int,
           NEW seq \in Nat, NEW x \in Addr,
           InitiateClose(c, a, b, seq, x)
    PROVE  TypeOK'
  <1>1. channel' \in [Id -> ChannelRecord]
    BY CloseEffect
  <1> QED
    BY <1>1 DEF TypeOK, InitiateClose

LEMMA DisputeTypes ==
    ASSUME TypeOK, NEW c \in Id, NEW a \in Int, NEW b \in Int,
           NEW seq \in Nat, NEW x \in Addr, NEW y \in Addr,
           Dispute(c, a, b, seq, x, y)
    PROVE  TypeOK'
  <1>1. channel' \in [Id -> ChannelRecord]
    BY RecordEffect DEF Dispute, States
  <1> QED
    BY <1>1 DEF TypeOK, Dispute

LEMMA WatchtowerTypes ==
    ASSUME TypeOK, NEW c \in Id, NEW w \in Addr, NEW a \in Int, NEW b \in Int,
           NEW seq \in Nat, NEW x \in Addr, NEW y \in Addr,
           WatchtowerSubmit(c, w, a, b, seq, x, y)
    PROVE  TypeOK'
  <1>1. channel' \in [Id -> ChannelRecord]
    BY RecordEffect DEF WatchtowerSubmit, States
  <1>2. Reserved(c) \in Nat
    BY DEF TypeOK, Reserved
  <1>3. bountyPaid' \in [Id -> BOOLEAN]
    BY DEF TypeOK, WatchtowerSubmit, EarnBounty
  <1>4. vault' \in Nat
    BY <1>2 DEF TypeOK, WatchtowerSubmit, EarnBounty
  <1>5. payout' \in [Id -> [Addr -> Nat]]
    BY <1>2 DEF TypeOK, WatchtowerSubmit, EarnBounty
  <1> QED
    BY <1>1, <1>3, <1>4, <1>5 DEF TypeOK, WatchtowerSubmit

LEMMA FinalizeTypes ==
    ASSUME TypeOK, NEW c \in Id, NEW seq \in Nat, Finalize(c, seq)
    PROVE  TypeOK'
  <1>1. channel' \in [Id -> ChannelRecord]
    BY RecordEffect, ChannelTypes DEF Finalize, States
  <1>2. Reserved(c) \in Nat
    BY DEF TypeOK, Reserved
  <1>3. \A x \in Addr : Settlement(c, x) \in Nat
    BY <1>2, ChannelTypes DEF Settlement, Positive
  <1>4. payout' \in [Id -> [Addr -> Nat]]
    BY <1>3 DEF TypeOK, Finalize
  <1>5. vault' \in Nat
    BY <1>2, ChannelTypes DEF TypeOK, Finalize, Total, Positive
  <1> QED
    BY <1>1, <1>4, <1>5 DEF TypeOK, Finalize

\* Every entry point, and the clock, keep the declared types.
LEMMA NextTypes == TypeOK /\ [Next]_vars => TypeOK'
  <1> SUFFICES ASSUME TypeOK, [Next]_vars PROVE TypeOK'
    OBVIOUS
  <1> USE ChannelConstants
  <1>0. CASE UNCHANGED vars
    BY <1>0 DEF TypeOK, vars
  <1>1. CASE Initialize
    BY <1>1 DEF TypeOK, Initialize
  <1>2. ASSUME NEW d \in Addr, NEW k \in Addr, NEW amount \in Amount,
               NEW window \in Windows, OpenChannel(d, k, amount, window)
        PROVE  TypeOK'
    <2>1. channel' \in [Id -> ChannelRecord]
      BY <1>2, InputTypes, OpenEffect
    <2>2. count' = count + 1 /\ count < MaxChannels /\ vault' = vault + amount
      BY <1>2 DEF OpenChannel
    <2>3. count \in 0..MaxChannels /\ vault \in Nat /\ amount \in Nat
      BY InputTypes DEF TypeOK
    <2>4. count' \in 0..MaxChannels /\ vault' \in Nat
      BY <2>2, <2>3
    <2>5. UNCHANGED <<now, admin, towers, bounty, bountyPaid, seenNonce, payout, debited>>
      BY <1>2 DEF OpenChannel
    <2> QED
      BY <2>1, <2>4, <2>5 DEF TypeOK
  <1>3. ASSUME NEW c \in Id, NEW a \in Balance, NEW b \in Balance,
               NEW seq \in 1..MaxSeq, NEW x \in Addr, NEW y \in Addr,
               SubmitState(c, a, b, seq, x, y)
        PROVE  TypeOK'
    BY <1>3, InputTypes, SubmitTypes
  <1>4. ASSUME NEW c \in Id, NEW a \in Balance, NEW b \in Balance,
               NEW seq \in 1..MaxSeq, NEW x \in Addr,
               InitiateClose(c, a, b, seq, x)
        PROVE  TypeOK'
    BY <1>4, InputTypes, CloseTypes
  <1>5. ASSUME NEW c \in Id, NEW a \in Balance, NEW b \in Balance,
               NEW seq \in 1..MaxSeq, NEW x \in Addr, NEW y \in Addr,
               Dispute(c, a, b, seq, x, y)
        PROVE  TypeOK'
    BY <1>5, InputTypes, DisputeTypes
  <1>6. ASSUME NEW c \in Id, NEW w \in Addr, NEW a \in Balance, NEW b \in Balance,
               NEW seq \in 1..MaxSeq, NEW x \in Addr, NEW y \in Addr,
               WatchtowerSubmit(c, w, a, b, seq, x, y)
        PROVE  TypeOK'
    BY <1>6, InputTypes, WatchtowerTypes
  <1>7. ASSUME NEW c \in Id, NEW amount \in Amount, NEW x \in Addr, TopUp(c, amount, x)
        PROVE  TypeOK'
    <2>1. channel' \in [Id -> ChannelRecord]
      BY <1>7, InputTypes, CreditEffect DEF TopUp
    <2> QED
      BY <1>7, <2>1 DEF TypeOK, TopUp
  <1>8. ASSUME NEW c \in Id, NEW n \in Nonce, NEW t \in 0..MaxTime, NEW amount \in Amount,
               NEW x \in Addr, NEW y \in Addr, NEW z \in Addr,
               VerifyPaymentProof(c, n, t, amount, x, y, z)
        PROVE  TypeOK'
    <2>1. channel' \in [Id -> ChannelRecord]
      <3>1. /\ channel[c].balance_a - amount \in Int
            /\ channel[c].balance_b + amount \in Int
            /\ channel[c].sequence + 1 \in Nat
        BY ChannelTypes, InputTypes
      <3> QED
        BY <1>8, <3>1, InputTypes, RecordEffect DEF VerifyPaymentProof, States
    <2>2. debited' \in [Id -> [Nonce -> Nat]]
      BY <1>8 DEF TypeOK, VerifyPaymentProof
    <2>3. seenNonce' \in [Id -> SUBSET Nonce]
      BY <1>8 DEF TypeOK, VerifyPaymentProof, ConsumeNonce
    <2> QED
      BY <1>8, <2>1, <2>2, <2>3 DEF TypeOK, VerifyPaymentProof
  <1>9. ASSUME NEW c \in Id, NEW party \in Addr, NEW w \in Addr, NEW amount \in Amount,
               RegisterWatchtower(c, party, w, amount)
        PROVE  TypeOK'
    <2>1. CASE amount > 0
      <3>1. ReserveBounty(c, party, amount)
        BY <1>9, <2>1 DEF RegisterWatchtower
      <3>2. channel' \in [Id -> ChannelRecord]
        BY <3>1, InputTypes, CreditEffect DEF ReserveBounty
      <3>3. bounty' \in [Id -> 0..MaxBounty] /\ bountyPaid' \in [Id -> BOOLEAN]
        BY <1>9, <3>1 DEF TypeOK, RegisterWatchtower, ReserveBounty
      <3> QED
        BY <1>9, <3>2, <3>3 DEF TypeOK, RegisterWatchtower
    <2>2. CASE ~(amount > 0)
      BY <1>9, <2>2 DEF TypeOK, RegisterWatchtower
    <2> QED
      BY <2>1, <2>2
  <1>10. ASSUME NEW c \in Id, NEW party \in Addr, NEW w \in Addr,
                DeregisterWatchtower(c, party, w)
         PROVE  TypeOK'
    <2>1. BountyRefund(c, w) \in Nat
      BY DEF TypeOK, BountyRefund, Reserved
    <2>2. channel' \in [Id -> ChannelRecord]
      BY <1>10, <2>1, CreditEffect DEF DeregisterWatchtower
    <2>3. bounty' \in [Id -> 0..MaxBounty] /\ towers' \in [Id -> SUBSET Addr]
      BY <1>10 DEF TypeOK, DeregisterWatchtower
    <2> QED
      BY <1>10, <2>2, <2>3 DEF TypeOK, DeregisterWatchtower
  <1>11. ASSUME NEW c \in Id, NEW seq \in 0..MaxSeq, Finalize(c, seq)
         PROVE  TypeOK'
    BY <1>11, InputTypes, FinalizeTypes
  <1>12. CASE Tick
    BY <1>12 DEF TypeOK, Tick
  <1> QED
    BY <1>0, <1>1, <1>2, <1>3, <1>4, <1>5, <1>6, <1>7, <1>8, <1>9, <1>10, <1>11, <1>12
       DEF Next, SubmitAny, Spend, ManageWatchtowers, Settle

\* The state of the contract always has the declared types: the counters stay
\* within their bounds and the contract never pays tokens it does not hold.
THEOREM TypeCorrect == Spec => []TypeOK
  <1>1. Init => TypeOK BY InitTypes
  <1>2. TypeOK /\ [Next]_vars => TypeOK' BY NextTypes
  <1> QED BY <1>1, <1>2, PTL DEF Spec

-----------------------------------------------------------------------------
(* Settlement and bounty: the inductive invariant.                          *)

\* A channel id that open_channel has not reached holds nothing.
Untouched(c) ==
    /\ channel[c].state = "Absent"
    /\ towers[c] = {} /\ bounty[c] = 0 /\ ~bountyPaid[c]
    /\ \A x \in Addr : payout[c][x] = 0
    /\ \A n \in Nonce : debited[c][n] = 0

\* An opened channel has two parties, neither of which is its watchtower.
PartiesInv(c) ==
    channel[c].state # "Absent" =>
        /\ channel[c].depositor \in Addr /\ channel[c].counterparty \in Addr
        /\ channel[c].depositor # channel[c].counterparty
        /\ channel[c].depositor \notin towers[c]
        /\ channel[c].counterparty \notin towers[c]

\* SettlementExact for one channel, the parties named.
SettledInv(c) ==
    channel[c].state # "Absent" =>
        IF channel[c].state = "Closed"
        THEN /\ payout[c][channel[c].depositor]
                    = Positive(channel[c].balance_a) + Reserved(c)
             /\ payout[c][channel[c].counterparty] = Positive(channel[c].balance_b)
        ELSE /\ payout[c][channel[c].depositor] = 0
             /\ payout[c][channel[c].counterparty] = 0

\* BountyPaidOnce and BountyBacked for one channel.
BountyInv(c) ==
    /\ Reserved(c) > 0 => towers[c] # {}
    /\ bountyPaid[c] => channel[c].state \in {"Dispute", "Closed"}
    /\ \A x \in Addr \ Parties(c) : payout[c][x] # 0 =>
           /\ bountyPaid[c]
           /\ x \in towers[c]
           /\ payout[c][x] = bounty[c]
           /\ \A y \in Addr \ Parties(c) : y # x => payout[c][y] = 0

\* A nonce under which tokens were debited is recorded as seen.
NonceInv(c) == \A n \in Nonce : debited[c][n] # 0 => n \in seenNonce[c]

ChannelInv(c) ==
    /\ c > count \/ channel[c].state = "Absent" => Untouched(c)
    /\ PartiesInv(c)
    /\ SettledInv(c)
    /\ BountyInv(c)
    /\ NonceInv(c)

IInv == TypeOK /\ \A c \in Id : ChannelInv(c)

\* A channel an entry point does not touch keeps its invariant.
LEMMA Frame ==
    ASSUME NEW c \in Id, ChannelInv(c), TypeOK, count' \in Nat, count' >= count,
           channel'[c] = channel[c], towers'[c] = towers[c], bounty'[c] = bounty[c],
           bountyPaid'[c] = bountyPaid[c], seenNonce'[c] = seenNonce[c],
           payout'[c] = payout[c], debited'[c] = debited[c]
    PROVE  ChannelInv(c)'
  <1>1. c > count' => c > count
    BY DEF TypeOK, Id
  <1>2. c > count' \/ channel'[c].state = "Absent" => Untouched(c)'
    BY <1>1 DEF ChannelInv, Untouched
  <1>3. PartiesInv(c)'
    BY DEF ChannelInv, PartiesInv
  <1>4. SettledInv(c)'
    BY DEF ChannelInv, SettledInv, Reserved
  <1>5. BountyInv(c)'
    BY DEF ChannelInv, BountyInv, Reserved, Parties
  <1>6. NonceInv(c)'
    BY DEF ChannelInv, NonceInv
  <1> QED
    BY <1>2, <1>3, <1>4, <1>5, <1>6 DEF ChannelInv

\* Rewriting a live channel's balances, sequence number or state, with the
\* bounty, the watchtowers and the payouts left alone.
LEMMA Rewrite ==
    ASSUME NEW c \in Id, ChannelInv(c), TypeOK, count' = count,
           channel[c].state \in {"Open", "Closing", "Dispute"},
           channel'[c].state \in {"Open", "Closing", "Dispute"},
           bountyPaid[c] => channel'[c].state = "Dispute",
           channel'[c].depositor = channel[c].depositor,
           channel'[c].counterparty = channel[c].counterparty,
           towers'[c] = towers[c], bounty'[c] = bounty[c],
           bountyPaid'[c] = bountyPaid[c], payout'[c] = payout[c], NonceInv(c)'
    PROVE  ChannelInv(c)'
  <1>1. ~(c > count')
    BY DEF ChannelInv, Untouched
  <1>2. PartiesInv(c)'
    BY DEF ChannelInv, PartiesInv
  <1>3. SettledInv(c)'
    BY DEF ChannelInv, SettledInv
  <1>4. BountyInv(c)'
    BY DEF ChannelInv, BountyInv, Reserved, Parties
  <1> QED
    BY <1>1, <1>2, <1>3, <1>4 DEF ChannelInv

LEMMA InitInv == Init => \A c \in Id : ChannelInv(c)
  BY DEF Init, ChannelInv, Untouched, PartiesInv, SettledInv, BountyInv, NonceInv,
         NoChannel, Reserved

\* One step per entry point: the channels it does not touch by Frame, the one
\* it does touch by Rewrite or conjunct by conjunct.
LEMMA NextInv == IInv /\ [Next]_vars => \A c \in Id : ChannelInv(c)'
  <1> SUFFICES ASSUME IInv, [Next]_vars, NEW i \in Id PROVE ChannelInv(i)'
    OBVIOUS
  <1>a. TypeOK /\ TypeOK' /\ ChannelInv(i) /\ count \in Nat
    BY NextTypes DEF IInv, TypeOK
  <1> USE <1>a
  <1>0. CASE UNCHANGED vars
    BY <1>0, Frame DEF vars
  <1>1. CASE Initialize
    BY <1>1, Frame DEF Initialize
  <1>2. ASSUME NEW d \in Addr, NEW k \in Addr, NEW amount \in Amount,
               NEW window \in Windows, OpenChannel(d, k, amount, window)
        PROVE  ChannelInv(i)'
    <2>1. /\ \A j \in Id : j # count + 1 => channel'[j] = channel[j]
          /\ channel'[count + 1].depositor = d /\ channel'[count + 1].counterparty = k
          /\ channel'[count + 1].state = "Open"
      BY <1>2, InputTypes, OpenEffect
    <2>2. /\ count' = count + 1 /\ d # k
          /\ UNCHANGED <<towers, bounty, bountyPaid, seenNonce, payout, debited>>
      BY <1>2 DEF OpenChannel
    <2>3. CASE i # count + 1
      BY <2>1, <2>2, <2>3, Frame
    <2>4. CASE i = count + 1
      <3>1. i > count
        BY <2>4
      <3>2. Untouched(i)
        BY <3>1 DEF ChannelInv
      <3>3. PartiesInv(i)' /\ SettledInv(i)' /\ BountyInv(i)' /\ NonceInv(i)'
        BY <2>1, <2>2, <2>4, <3>2
           DEF Untouched, PartiesInv, SettledInv, BountyInv, NonceInv, Reserved, Parties
      <3> QED
        BY <2>1, <2>2, <2>4, <3>3 DEF ChannelInv
    <2> QED
      BY <2>3, <2>4
  <1>3. ASSUME NEW c \in Id, NEW a \in Balance, NEW b \in Balance,
               NEW seq \in 1..MaxSeq, NEW x \in Addr, NEW y \in Addr,
               SubmitState(c, a, b, seq, x, y)
        PROVE  ChannelInv(i)'
    <2>1. /\ \A j \in Id : j # c => channel'[j] = channel[j]
          /\ channel'[c].state = "Open"
          /\ channel'[c].depositor = channel[c].depositor
          /\ channel'[c].counterparty = channel[c].counterparty
      BY <1>3, InputTypes, RecordEffect DEF SubmitState, States
    <2>2. /\ UNCHANGED <<count, towers, bounty, bountyPaid, seenNonce, payout, debited>>
          /\ channel[c].state \in {"Open", "Closing"}
      BY <1>3 DEF SubmitState, InState
    <2>3. CASE i # c
      BY <2>1, <2>2, <2>3, Frame
    <2>4. CASE i = c
      <3>1. ~bountyPaid[c] /\ NonceInv(c)'
        BY <2>2, <2>4 DEF ChannelInv, BountyInv, NonceInv
      <3> QED
        BY <2>1, <2>2, <2>4, <3>1, Rewrite
    <2> QED
      BY <2>3, <2>4
  <1>4. ASSUME NEW c \in Id, NEW a \in Balance, NEW b \in Balance,
               NEW seq \in 1..MaxSeq, NEW x \in Addr,
               InitiateClose(c, a, b, seq, x)
        PROVE  ChannelInv(i)'
    <2>1. /\ \A j \in Id : j # c => channel'[j] = channel[j]
          /\ channel'[c].state = "Closing"
          /\ channel'[c].depositor = channel[c].depositor
          /\ channel'[c].counterparty = channel[c].counterparty
      BY <1>4, InputTypes, CloseEffect
    <2>2. /\ UNCHANGED <<count, towers, bounty, bountyPaid, seenNonce, payout, debited>>
          /\ channel[c].state = "Open"
      BY <1>4 DEF InitiateClose, InState
    <2>3. CASE i # c
      BY <2>1, <2>2, <2>3, Frame
    <2>4. CASE i = c
      <3>1. ~bountyPaid[c] /\ NonceInv(c)'
        BY <2>2, <2>4 DEF ChannelInv, BountyInv, NonceInv
      <3> QED
        BY <2>1, <2>2, <2>4, <3>1, Rewrite
    <2> QED
      BY <2>3, <2>4
  <1>5. ASSUME NEW c \in Id, NEW a \in Balance, NEW b \in Balance,
               NEW seq \in 1..MaxSeq, NEW x \in Addr, NEW y \in Addr,
               Dispute(c, a, b, seq, x, y)
        PROVE  ChannelInv(i)'
    <2>1. /\ \A j \in Id : j # c => channel'[j] = channel[j]
          /\ channel'[c].state = "Dispute"
          /\ channel'[c].depositor = channel[c].depositor
          /\ channel'[c].counterparty = channel[c].counterparty
      BY <1>5, InputTypes, RecordEffect DEF Dispute, States
    <2>2. /\ UNCHANGED <<count, towers, bounty, bountyPaid, seenNonce, payout, debited>>
          /\ channel[c].state = "Closing"
      BY <1>5 DEF Dispute, Disputable, InState
    <2>3. CASE i # c
      BY <2>1, <2>2, <2>3, Frame
    <2>4. CASE i = c
      <3>1. NonceInv(c)'
        BY <2>2, <2>4 DEF ChannelInv, NonceInv
      <3> QED
        BY <2>1, <2>2, <2>4, <3>1, Rewrite
    <2> QED
      BY <2>3, <2>4
  <1>6. ASSUME NEW c \in Id, NEW w \in Addr, NEW a \in Balance, NEW b \in Balance,
               NEW seq \in 1..MaxSeq, NEW x \in Addr, NEW y \in Addr,
               WatchtowerSubmit(c, w, a, b, seq, x, y)
        PROVE  ChannelInv(i)'
    <2>1. /\ \A j \in Id : j # c => channel'[j] = channel[j]
          /\ channel'[c].state = "Dispute"
          /\ channel'[c].depositor = channel[c].depositor
          /\ channel'[c].counterparty = channel[c].counterparty
      BY <1>6, InputTypes, RecordEffect DEF WatchtowerSubmit, States
    <2>2. /\ UNCHANGED <<count, towers, bounty, seenNonce, debited>>
          /\ channel[c].state \in {"Closing", "Dispute"}
          /\ w \in towers[c] /\ EarnBounty(c, w)
      BY <1>6 DEF WatchtowerSubmit, InState
    <2>3. /\ \A j \in Id : j # c => payout'[j] = payout[j] /\ bountyPaid'[j] = bountyPaid[j]
          /\ bountyPaid'[c] <=> (bountyPaid[c] \/ bounty[c] > 0)
          /\ payout'[c][w] = payout[c][w] + Reserved(c)
          /\ \A y1 \in Addr : y1 # w => payout'[c][y1] = payout[c][y1]
      BY <2>2, EarnEffect
    <2>4. CASE i # c
      BY <2>1, <2>2, <2>3, <2>4, Frame
    <2>5. CASE i = c
      <3> USE <2>1, <2>2, <2>3, <2>5
      <3>1. ~(c > count') /\ PartiesInv(c)' /\ NonceInv(c)'
        BY DEF ChannelInv, Untouched, PartiesInv, NonceInv
      <3>2. SettledInv(c)'
        BY DEF ChannelInv, SettledInv, PartiesInv
      <3>3. BountyInv(c)'
        <4>1. w \notin Parties(c) /\ Parties(c)' = Parties(c)
          BY DEF ChannelInv, PartiesInv, Parties
        <4>2. bounty[c] \in Nat /\ payout[c][w] \in Nat
          BY DEF TypeOK
        <4>3. \A y1 \in Addr \ Parties(c) : ~bountyPaid[c] => payout[c][y1] = 0
          BY DEF ChannelInv, BountyInv
        <4>4. Reserved(c)' = 0
          <5>1. bountyPaid'[c] \/ bounty'[c] = 0
            BY <4>2
          <5> QED
            BY <5>1 DEF Reserved
        <4>5. CASE bountyPaid[c]
          <5>1. Reserved(c) = 0
            BY <4>5 DEF Reserved
          <5>2. \A y1 \in Addr : payout'[c][y1] = payout[c][y1]
            BY <5>1, <4>2
          <5> QED
            BY <4>1, <4>4, <4>5, <5>2 DEF ChannelInv, BountyInv
        <4>6. CASE ~bountyPaid[c] /\ bounty[c] > 0
          <5>1. payout'[c][w] = bounty[c]
            BY <4>1, <4>2, <4>3, <4>6 DEF Reserved
          <5> QED
            BY <4>1, <4>3, <4>4, <4>6, <5>1 DEF BountyInv
        <4>7. CASE ~bountyPaid[c] /\ ~(bounty[c] > 0)
          <5>1. Reserved(c) = 0
            BY <4>2, <4>7 DEF Reserved
          <5>2. \A y1 \in Addr : payout'[c][y1] = payout[c][y1]
            BY <5>1, <4>2
          <5> QED
            BY <4>1, <4>3, <4>4, <4>7, <5>2 DEF BountyInv
        <4> QED
          BY <4>5, <4>6, <4>7
      <3> QED
        BY <3>1, <3>2, <3>3 DEF ChannelInv
    <2> QED
      BY <2>4, <2>5
  <1>7. ASSUME NEW c \in Id, NEW amount \in Amount, NEW x \in Addr, TopUp(c, amount, x)
        PROVE  ChannelInv(i)'
    <2>1. /\ \A j \in Id : j # c => channel'[j] = channel[j]
          /\ channel'[c].state = channel[c].state
          /\ channel'[c].depositor = channel[c].depositor
          /\ channel'[c].counterparty = channel[c].counterparty
      BY <1>7, InputTypes, CreditEffect DEF TopUp
    <2>2. /\ UNCHANGED <<count, towers, bounty, bountyPaid, seenNonce, payout, debited>>
          /\ channel[c].state = "Open"
      BY <1>7 DEF TopUp, InState
    <2>3. CASE i # c
      BY <2>1, <2>2, <2>3, Frame
    <2>4. CASE i = c
      <3>1. ~bountyPaid[c] /\ NonceInv(c)'
        BY <2>2, <2>4 DEF ChannelInv, BountyInv, NonceInv
      <3> QED
        BY <2>1, <2>2, <2>4, <3>1, Rewrite
    <2> QED
      BY <2>3, <2>4
  <1>8. ASSUME NEW c \in Id, NEW n \in Nonce, NEW t \in 0..MaxTime, NEW amount \in Amount,
               NEW x \in Addr, NEW y \in Addr, NEW z \in Addr,
               VerifyPaymentProof(c, n, t, amount, x, y, z)
        PROVE  ChannelInv(i)'
    <2>1. /\ \A j \in Id : j # c => channel'[j] = channel[j]
          /\ channel'[c].state = "Open"
          /\ channel'[c].depositor = channel[c].depositor
          /\ channel'[c].counterparty = channel[c].counterparty
      <3>1. /\ channel[c].balance_a - amount \in Int
            /\ channel[c].balance_b + amount \in Int
            /\ channel[c].sequence + 1 \in Nat
        BY ChannelTypes, InputTypes
      <3> QED
        BY <1>8, <3>1, RecordEffect DEF VerifyPaymentProof, States
    <2>2. /\ UNCHANGED <<count, towers, bounty, bountyPaid, payout>>
          /\ channel[c].state = "Open"
      BY <1>8 DEF VerifyPaymentProof, InState
    <2>3. /\ \A j \in Id : j # c => seenNonce'[j] = seenNonce[j] /\ debited'[j] = debited[j]
          /\ seenNonce'[c] = seenNonce[c] \cup {n}
          /\ \A m \in Nonce : m # n => debited'[c][m] = debited[c][m]
      BY <1>8 DEF VerifyPaymentProof, ConsumeNonce, TypeOK
    <2>4. CASE i # c
      BY <2>1, <2>2, <2>3, <2>4, Frame
    <2>5. CASE i = c
      <3>1. ~bountyPaid[c]
        BY <2>2, <2>5 DEF ChannelInv, BountyInv
      <3>2. NonceInv(c)'
        BY <2>3, <2>5 DEF ChannelInv, NonceInv
      <3> QED
        BY <2>1, <2>2, <2>5, <3>1, <3>2, Rewrite
    <2> QED
      BY <2>4, <2>5
  <1>9. ASSUME NEW c \in Id, NEW party \in Addr, NEW w \in Addr, NEW amount \in Amount,
               RegisterWatchtower(c, party, w, amount)
        PROVE  ChannelInv(i)'
    <2>1. /\ UNCHANGED <<count, seenNonce, payout, debited>>
          /\ channel[c].state = "Open" /\ w \notin Parties(c)
      BY <1>9 DEF RegisterWatchtower, InState
    <2>2. /\ \A j \in Id : j # c => towers'[j] = towers[j]
          /\ towers'[c] = towers[c] \cup {w}
      BY <1>9 DEF RegisterWatchtower, TypeOK
    <2>3. /\ \A j \in Id : j # c => /\ channel'[j] = channel[j]
                                    /\ bounty'[j] = bounty[j]
                                    /\ bountyPaid'[j] = bountyPaid[j]
          /\ channel'[c].state = "Open"
          /\ channel'[c].depositor = channel[c].depositor
          /\ channel'[c].counterparty = channel[c].counterparty
          /\ bountyPaid'[c] => bountyPaid[c]
      <3>1. CASE amount > 0
        <4>1. ReserveBounty(c, party, amount)
          BY <1>9, <3>1 DEF RegisterWatchtower
        <4>2. /\ \A j \in Id : j # c => channel'[j] = channel[j]
              /\ channel'[c].state = "Open"
              /\ channel'[c].depositor = channel[c].depositor
              /\ channel'[c].counterparty = channel[c].counterparty
          BY <2>1, <4>1, InputTypes, CreditEffect DEF ReserveBounty
        <4> QED
          BY <4>1, <4>2 DEF ReserveBounty, TypeOK
      <3>2. CASE ~(amount > 0)
        BY <1>9, <2>1, <3>2 DEF RegisterWatchtower
      <3> QED
        BY <3>1, <3>2
    <2>4. CASE i # c
      BY <2>1, <2>2, <2>3, <2>4, Frame
    <2>5. CASE i = c
      <3> USE <2>1, <2>2, <2>3, <2>5
      <3>1. ~(c > count') /\ NonceInv(c)' /\ SettledInv(c)'
        BY DEF ChannelInv, Untouched, NonceInv, SettledInv
      <3>2. PartiesInv(c)'
        BY DEF ChannelInv, PartiesInv, Parties
      <3>3. BountyInv(c)'
        BY DEF ChannelInv, BountyInv, Parties
      <3> QED
        BY <3>1, <3>2, <3>3 DEF ChannelInv
    <2> QED
      BY <2>4, <2>5
  <1>10. ASSUME NEW c \in Id, NEW party \in Addr, NEW w \in Addr,
                DeregisterWatchtower(c, party, w)
         PROVE  ChannelInv(i)'
    <2>1. /\ UNCHANGED <<count, bountyPaid, seenNonce, payout, debited>>
          /\ channel[c].state = "Open"
      BY <1>10 DEF DeregisterWatchtower, InState
    <2>2. BountyRefund(c, w) \in Nat /\ bounty[c] \in Nat
      BY DEF TypeOK, BountyRefund, Reserved
    <2>3. /\ \A j \in Id : j # c => towers'[j] = towers[j] /\ bounty'[j] = bounty[j]
          /\ towers'[c] = towers[c] \ {w}
          /\ bounty'[c] = IF BountyRefund(c, w) > 0 THEN 0 ELSE bounty[c]
      BY <1>10 DEF DeregisterWatchtower, TypeOK
    <2>4. /\ \A j \in Id : j # c => channel'[j] = channel[j]
          /\ channel'[c].state = "Open"
          /\ channel'[c].depositor = channel[c].depositor
          /\ channel'[c].counterparty = channel[c].counterparty
      BY <1>10, <2>1, <2>2, CreditEffect DEF DeregisterWatchtower
    <2>5. CASE i # c
      BY <2>1, <2>3, <2>4, <2>5, Frame
    <2>6. CASE i = c
      <3> USE <2>1, <2>2, <2>3, <2>4, <2>6
      <3>1. ~(c > count') /\ NonceInv(c)' /\ SettledInv(c)' /\ PartiesInv(c)'
        BY DEF ChannelInv, Untouched, NonceInv, SettledInv, PartiesInv
      <3>2. ~bountyPaid[c]
        BY DEF ChannelInv, BountyInv
      <3>3. Reserved(c)' > 0 => towers'[c] # {}
        <4>1. CASE towers[c] = {w}
          BY <4>1, <3>2 DEF BountyRefund, Reserved
        <4>2. CASE towers[c] # {w}
          <5>1. bounty'[c] = bounty[c]
            BY <4>2 DEF BountyRefund
          <5> QED
            BY <5>1, <4>2 DEF ChannelInv, BountyInv, Reserved
        <4> QED
          BY <4>1, <4>2
      <3>4. BountyInv(c)'
        BY <3>2, <3>3 DEF ChannelInv, BountyInv, Parties
      <3> QED
        BY <3>1, <3>4 DEF ChannelInv
    <2> QED
      BY <2>5, <2>6
  <1>11. ASSUME NEW c \in Id, NEW seq \in 0..MaxSeq, Finalize(c, seq)
         PROVE  ChannelInv(i)'
    <2>1. /\ UNCHANGED <<count, towers, bounty, bountyPaid, seenNonce, debited>>
          /\ channel[c].state \in {"Closing", "Dispute"}
      BY <1>11 DEF Finalize, Settleable, InState
    <2>2. /\ \A j \in Id : j # c => channel'[j] = channel[j]
          /\ channel'[c].state = "Closed"
          /\ channel'[c].balance_a = channel[c].balance_a
          /\ channel'[c].balance_b = channel[c].balance_b
          /\ channel'[c].depositor = channel[c].depositor
          /\ channel'[c].counterparty = channel[c].counterparty
      BY <1>11, ChannelTypes, RecordEffect DEF Finalize, States
    <2>3. /\ \A j \in Id : j # c => payout'[j] = payout[j]
          /\ \A y \in Addr : payout'[c][y] = payout[c][y] + Settlement(c, y)
      BY <1>11 DEF Finalize, TypeOK
    <2>4. CASE i # c
      BY <2>1, <2>2, <2>3, <2>4, Frame
    <2>5. CASE i = c
      <3> USE <2>1, <2>2, <2>3, <2>5
      <3>1. ~(c > count') /\ NonceInv(c)' /\ PartiesInv(c)'
        BY DEF ChannelInv, Untouched, NonceInv, PartiesInv
      <3>2. /\ channel[c].depositor \in Addr /\ channel[c].counterparty \in Addr
            /\ channel[c].depositor # channel[c].counterparty
        BY DEF ChannelInv, PartiesInv
      <3>3. \A y \in Addr : payout[c][y] \in Nat
        BY DEF TypeOK
      <3>4. /\ Reserved(c)' = Reserved(c) /\ Reserved(c) \in Nat
            /\ channel[c].balance_a \in Int /\ channel[c].balance_b \in Int
        BY ChannelTypes DEF Reserved, TypeOK
      <3>5. SettledInv(c)'
        BY <3>2, <3>3, <3>4 DEF ChannelInv, SettledInv, Settlement, Positive
      <3>6. \A y \in Addr \ Parties(c) : payout'[c][y] = payout[c][y]
        BY <3>3 DEF Settlement, Parties
      <3>7. BountyInv(c)'
        BY <3>4, <3>6 DEF ChannelInv, BountyInv, Parties
      <3> QED
        BY <3>1, <3>5, <3>7 DEF ChannelInv
    <2> QED
      BY <2>4, <2>5
  <1>12. CASE Tick
    BY <1>12, Frame DEF Tick
  <1> QED
    BY <1>0, <1>1, <1>2, <1>3, <1>4, <1>5, <1>6, <1>7, <1>8, <1>9, <1>10, <1>11, <1>12
       DEF Next, SubmitAny, Spend, ManageWatchtowers, Settle

\* The invariant holds in every reachable state.
THEOREM Invariance == Spec => []IInv
  <1>1. Init => IInv
    BY InitTypes, InitInv DEF IInv
  <1>2. IInv /\ [Next]_vars => IInv'
    BY NextTypes, NextInv DEF IInv
  <1> QED
    BY <1>1, <1>2, PTL DEF Spec

\* finalize pays each party exactly the recorded balances (and returns an
\* unearned bounty), and nothing is paid to a party before: for any contents
\* the parties sign, any number of channels and any interleaving.
THEOREM ExactSettlement == Spec => []SettlementExact
  <1>1. IInv => SettlementExact
    <2> SUFFICES ASSUME IInv, NEW c \in Id
                 PROVE  IF channel[c].state = "Closed"
                        THEN /\ payout[c][channel[c].depositor]
                                    = Positive(channel[c].balance_a) + Reserved(c)
                             /\ payout[c][channel[c].counterparty] = Positive(channel[c].balance_b)
                        ELSE \A x \in Parties(c) \cap Addr : payout[c][x] = 0
      BY DEF SettlementExact
    <2>1. ChannelInv(c)
      BY DEF IInv
    <2>2. CASE channel[c].state = "Absent"
      BY <2>1, <2>2 DEF ChannelInv, Untouched
    <2>3. CASE channel[c].state # "Absent"
      BY <2>1, <2>3 DEF ChannelInv, SettledInv, Parties
    <2> QED
      BY <2>2, <2>3
  <1> QED
    BY <1>1, Invariance, PTL

\* A watchtower is the only outsider ever paid from a channel, at most one is,
\* and it gets the reserved bounty.
THEOREM BountyOnce == Spec => []BountyPaidOnce
  <1>1. IInv => BountyPaidOnce
    BY DEF IInv, ChannelInv, BountyInv, BountyPaidOnce
  <1> QED
    BY <1>1, Invariance, PTL

\* An unpaid bounty always has a registered watchtower, and a bounty is paid
\* only in a channel that has left Open for good.
THEOREM BountyAlwaysBacked == Spec => []BountyBacked
  <1>1. IInv => BountyBacked
    BY DEF IInv, ChannelInv, BountyInv, BountyBacked
  <1> QED
    BY <1>1, Invariance, PTL

-----------------------------------------------------------------------------
(* The five things a step can do to one channel.                            *)

Same(c) ==
    channel'[c] = channel[c] /\ payout'[c] = payout[c] /\ Reserved(c)' = Reserved(c)
Opened(c) == channel[c].state = "Absent"
Rewritten(c) ==
    /\ channel[c].state \notin {"Absent", "Closed"}
    /\ channel'[c].sequence > channel[c].sequence
    /\ \/ channel[c].state = "Open"
       \/ ~(now > channel[c].dispute_deadline)
       \/ channel[c].state = "Closing" /\ channel'[c].state = "Open"
Credited(c) ==
    /\ channel[c].state = "Open"
    /\ channel'[c].sequence = channel[c].sequence
    /\ channel'[c].balance_b = channel[c].balance_b
    /\ channel'[c].balance_a + Reserved(c)' >= channel[c].balance_a + Reserved(c)
Finalized(c) ==
    /\ channel[c].state \in {"Closing", "Dispute"}
    /\ channel'[c] = [channel[c] EXCEPT !.state = "Closed"]
    /\ Reserved(c)' = Reserved(c)

Shape(c) == Same(c) \/ Opened(c) \/ Rewritten(c) \/ Credited(c) \/ Finalized(c)

LEMMA StepShape == IInv /\ [Next]_vars => \A c \in Id : Shape(c)
  <1> SUFFICES ASSUME IInv, [Next]_vars, NEW i \in Id PROVE Shape(i)
    OBVIOUS
  <1>a. TypeOK /\ now \in Nat /\ \A c \in Id : bounty[c] \in Nat /\ ChannelInv(c)
    BY ChannelConstants DEF IInv, TypeOK
  <1> USE <1>a
  <1>0. CASE UNCHANGED vars
    BY <1>0 DEF vars, Shape, Same, Reserved
  <1>1. CASE Initialize
    BY <1>1 DEF Initialize, Shape, Same, Reserved
  <1>2. ASSUME NEW d \in Addr, NEW k \in Addr, NEW amount \in Amount,
               NEW window \in Windows, OpenChannel(d, k, amount, window)
        PROVE  Shape(i)
    <2>1. \A j \in Id : j # count + 1 => channel'[j] = channel[j]
      BY <1>2, InputTypes, OpenEffect
    <2>2. UNCHANGED <<bounty, bountyPaid, payout>>
      BY <1>2 DEF OpenChannel
    <2>3. CASE i # count + 1
      BY <2>1, <2>2, <2>3 DEF Shape, Same, Reserved
    <2>4. CASE i = count + 1
      <3>1. i > count
        BY <2>4 DEF TypeOK
      <3> QED
        BY <3>1 DEF ChannelInv, Untouched, Shape, Opened
    <2> QED
      BY <2>3, <2>4
  <1>3. ASSUME NEW c \in Id, NEW a \in Balance, NEW b \in Balance,
               NEW seq \in 1..MaxSeq, NEW x \in Addr, NEW y \in Addr,
               SubmitState(c, a, b, seq, x, y)
        PROVE  Shape(i)
    <2>1. /\ \A j \in Id : j # c => channel'[j] = channel[j]
          /\ channel'[c].sequence = seq /\ channel'[c].state = "Open"
      BY <1>3, InputTypes, RecordEffect DEF SubmitState, States
    <2>2. UNCHANGED <<bounty, bountyPaid, payout>>
      BY <1>3 DEF SubmitState
    <2>3. CASE i # c
      BY <2>1, <2>2, <2>3 DEF Shape, Same, Reserved
    <2>4. CASE i = c
      BY <1>3, <2>1, <2>4 DEF SubmitState, InState, Newer, Shape, Rewritten
    <2> QED
      BY <2>3, <2>4
  <1>4. ASSUME NEW c \in Id, NEW a \in Balance, NEW b \in Balance,
               NEW seq \in 1..MaxSeq, NEW x \in Addr,
               InitiateClose(c, a, b, seq, x)
        PROVE  Shape(i)
    <2>1. /\ \A j \in Id : j # c => channel'[j] = channel[j]
          /\ channel'[c].sequence = seq
      BY <1>4, InputTypes, CloseEffect
    <2>2. UNCHANGED <<bounty, bountyPaid, payout>>
      BY <1>4 DEF InitiateClose
    <2>3. CASE i # c
      BY <2>1, <2>2, <2>3 DEF Shape, Same, Reserved
    <2>4. CASE i = c
      BY <1>4, <2>1, <2>4 DEF InitiateClose, InState, Newer, Shape, Rewritten
    <2> QED
      BY <2>3, <2>4
  <1>5. ASSUME NEW c \in Id, NEW a \in Balance, NEW b \in Balance,
               NEW seq \in 1..MaxSeq, NEW x \in Addr, NEW y \in Addr,
               Dispute(c, a, b, seq, x, y)
        PROVE  Shape(i)
    <2>1. /\ \A j \in Id : j # c => channel'[j] = channel[j]
          /\ channel'[c].sequence = seq
      BY <1>5, InputTypes, RecordEffect DEF Dispute, States
    <2>2. UNCHANGED <<bounty, bountyPaid, payout>>
      BY <1>5 DEF Dispute
    <2>3. CASE i # c
      BY <2>1, <2>2, <2>3 DEF Shape, Same, Reserved
    <2>4. CASE i = c
      <3>1. ~(now > channel[c].dispute_deadline)
        BY <1>5, ChannelTypes DEF Dispute, Disputable, WindowOpen
      <3> QED
        BY <1>5, <2>1, <2>4, <3>1 DEF Dispute, Disputable, InState, Newer, Shape, Rewritten
    <2> QED
      BY <2>3, <2>4
  <1>6. ASSUME NEW c \in Id, NEW w \in Addr, NEW a \in Balance, NEW b \in Balance,
               NEW seq \in 1..MaxSeq, NEW x \in Addr, NEW y \in Addr,
               WatchtowerSubmit(c, w, a, b, seq, x, y)
        PROVE  Shape(i)
    <2>1. /\ \A j \in Id : j # c => channel'[j] = channel[j]
          /\ channel'[c].sequence = seq
      BY <1>6, InputTypes, RecordEffect DEF WatchtowerSubmit, States
    <2>2. /\ bounty' = bounty
          /\ \A j \in Id : j # c => payout'[j] = payout[j] /\ bountyPaid'[j] = bountyPaid[j]
      BY <1>6 DEF WatchtowerSubmit, EarnBounty, TypeOK
    <2>3. CASE i # c
      BY <2>1, <2>2, <2>3 DEF Shape, Same, Reserved
    <2>4. CASE i = c
      <3>1. ~(now > channel[c].dispute_deadline)
        BY <1>6, ChannelTypes DEF WatchtowerSubmit, WindowOpen
      <3> QED
        BY <1>6, <2>1, <2>4, <3>1 DEF WatchtowerSubmit, InState, Newer, Shape, Rewritten
    <2> QED
      BY <2>3, <2>4
  <1>7. ASSUME NEW c \in Id, NEW amount \in Amount, NEW x \in Addr, TopUp(c, amount, x)
        PROVE  Shape(i)
    <2>1. /\ \A j \in Id : j # c => channel'[j] = channel[j]
          /\ channel'[c].balance_a = channel[c].balance_a + amount
          /\ channel'[c].balance_b = channel[c].balance_b
          /\ channel'[c].sequence = channel[c].sequence
      BY <1>7, InputTypes, CreditEffect DEF TopUp
    <2>2. /\ UNCHANGED <<bounty, bountyPaid, payout>>
          /\ channel[c].state = "Open"
      BY <1>7 DEF TopUp, InState
    <2>3. CASE i # c
      BY <2>1, <2>2, <2>3 DEF Shape, Same, Reserved
    <2>4. CASE i = c
      <3>1. Reserved(c)' = Reserved(c) /\ Reserved(c) \in Nat
        BY <2>2 DEF Reserved
      <3> QED
        BY <2>1, <2>2, <2>4, <3>1, ChannelTypes, InputTypes DEF Shape, Credited
    <2> QED
      BY <2>3, <2>4
  <1>8. ASSUME NEW c \in Id, NEW n \in Nonce, NEW t \in 0..MaxTime, NEW amount \in Amount,
               NEW x \in Addr, NEW y \in Addr, NEW z \in Addr,
               VerifyPaymentProof(c, n, t, amount, x, y, z)
        PROVE  Shape(i)
    <2>1. /\ channel[c].balance_a - amount \in Int
          /\ channel[c].balance_b + amount \in Int
          /\ channel[c].sequence + 1 \in Nat
      BY ChannelTypes, InputTypes
    <2>2. /\ \A j \in Id : j # c => channel'[j] = channel[j]
          /\ channel'[c].sequence = channel[c].sequence + 1
      BY <1>8, <2>1, RecordEffect DEF VerifyPaymentProof, States
    <2>3. /\ UNCHANGED <<bounty, bountyPaid, payout>>
          /\ channel[c].state = "Open"
      BY <1>8 DEF VerifyPaymentProof, InState
    <2>4. CASE i # c
      BY <2>2, <2>3, <2>4 DEF Shape, Same, Reserved
    <2>5. CASE i = c
      BY <2>2, <2>3, <2>5, ChannelTypes DEF Shape, Rewritten
    <2> QED
      BY <2>4, <2>5
  <1>9. ASSUME NEW c \in Id, NEW party \in Addr, NEW w \in Addr, NEW amount \in Amount,
               RegisterWatchtower(c, party, w, amount)
        PROVE  Shape(i)
    <2>1. payout' = payout /\ channel[c].state = "Open"
      BY <1>9 DEF RegisterWatchtower, InState
    <2>2. CASE amount > 0
      <3>1. ReserveBounty(c, party, amount)
        BY <1>9, <2>2 DEF RegisterWatchtower
      <3>2. /\ \A j \in Id : j # c => channel'[j] = channel[j]
            /\ channel'[c].balance_a = channel[c].balance_a - amount
            /\ channel'[c].balance_b = channel[c].balance_b
            /\ channel'[c].sequence = channel[c].sequence
        BY <3>1, InputTypes, CreditEffect, ChannelTypes DEF ReserveBounty
      <3>3. /\ \A j \in Id : j # c => bounty'[j] = bounty[j] /\ bountyPaid'[j] = bountyPaid[j]
            /\ bounty'[c] = amount /\ ~bountyPaid'[c] /\ bounty[c] = 0
        BY <3>1 DEF ReserveBounty, TypeOK
      <3>4. CASE i # c
        BY <2>1, <3>2, <3>3, <3>4 DEF Shape, Same, Reserved
      <3>5. CASE i = c
        <4>1. Reserved(c)' = amount /\ Reserved(c) = 0
          BY <3>3 DEF Reserved
        <4> QED
          BY <2>1, <3>2, <3>5, <4>1, ChannelTypes, InputTypes DEF Shape, Credited
      <3> QED
        BY <3>4, <3>5
    <2>3. CASE ~(amount > 0)
      BY <1>9, <2>1, <2>3 DEF RegisterWatchtower, Shape, Same, Reserved
    <2> QED
      BY <2>2, <2>3
  <1>10. ASSUME NEW c \in Id, NEW party \in Addr, NEW w \in Addr,
                DeregisterWatchtower(c, party, w)
         PROVE  Shape(i)
    <2>1. UNCHANGED <<payout, bountyPaid>> /\ channel[c].state = "Open"
      BY <1>10 DEF DeregisterWatchtower, InState
    <2>2. BountyRefund(c, w) \in Nat
      BY DEF BountyRefund, Reserved
    <2>3. /\ \A j \in Id : j # c => channel'[j] = channel[j] /\ bounty'[j] = bounty[j]
          /\ channel'[c].balance_a = channel[c].balance_a + BountyRefund(c, w)
          /\ channel'[c].balance_b = channel[c].balance_b
          /\ channel'[c].sequence = channel[c].sequence
          /\ bounty'[c] = IF BountyRefund(c, w) > 0 THEN 0 ELSE bounty[c]
      BY <1>10, <2>2, CreditEffect DEF DeregisterWatchtower, TypeOK
    <2>4. CASE i # c
      BY <2>1, <2>3, <2>4 DEF Shape, Same, Reserved
    <2>5. CASE i = c
      <3>1. Reserved(c)' + BountyRefund(c, w) = Reserved(c) /\ Reserved(c)' \in Nat /\ Reserved(c) \in Nat
        BY <2>1, <2>3 DEF Reserved, BountyRefund
      <3> QED
        BY <2>1, <2>2, <2>3, <2>5, <3>1, ChannelTypes DEF Shape, Credited
    <2> QED
      BY <2>4, <2>5
  <1>11. ASSUME NEW c \in Id, NEW seq \in 0..MaxSeq, Finalize(c, seq)
         PROVE  Shape(i)
    <2>1. /\ UNCHANGED <<bounty, bountyPaid>>
          /\ channel[c].state \in {"Closing", "Dispute"}
      BY <1>11 DEF Finalize, Settleable, InState
    <2>2. channel' = [channel EXCEPT ![c] = [channel[c] EXCEPT !.state = "Closed"]]
      <3>1. channel[c] \in ChannelRecord
        BY DEF TypeOK
      <3> QED
        BY <1>11, <3>1 DEF Finalize, Record, ChannelRecord
    <2>3. \A j \in Id : j # c => payout'[j] = payout[j]
      BY <1>11 DEF Finalize, TypeOK
    <2>4. CASE i # c
      BY <2>1, <2>2, <2>3, <2>4 DEF Shape, Same, Reserved, TypeOK
    <2>5. CASE i = c
      BY <2>1, <2>2, <2>5 DEF Shape, Finalized, Reserved, TypeOK
    <2> QED
      BY <2>4, <2>5
  <1>12. CASE Tick
    BY <1>12 DEF Tick, Shape, Same, Reserved
  <1> QED
    BY <1>0, <1>1, <1>2, <1>3, <1>4, <1>5, <1>6, <1>7, <1>8, <1>9, <1>10, <1>11, <1>12
       DEF Next, SubmitAny, Spend, ManageWatchtowers, Settle

\* A closed channel is never rewritten, reopened or paid out again.
THEOREM ClosedForGood == Spec => ClosedIsFinal
  <1>1. ASSUME IInv, [Next]_vars, NEW c \in Id, channel[c].state = "Closed"
        PROVE  channel'[c] = channel[c] /\ payout'[c] = payout[c]
    BY <1>1, StepShape DEF Shape, Same, Opened, Rewritten, Credited, Finalized
  <1>2. IInv /\ [Next]_vars =>
            [\A c \in Id : channel[c].state = "Closed" =>
                channel'[c] = channel[c] /\ payout'[c] = payout[c]]_vars
    BY <1>1
  <1> QED
    BY <1>2, Invariance, PTL DEF Spec, ClosedIsFinal

\* While the sequence number stands still, the counterparty's side is fixed and
\* the depositor's side, its reserved bounty included, never shrinks.
THEOREM FundsNeedANewSequence == Spec => SameSequenceKeepsFunds
  <1>1. ASSUME IInv, [Next]_vars, NEW c \in Id, channel[c].state # "Absent"
        PROVE  /\ channel'[c].sequence >= channel[c].sequence
               /\ channel'[c].sequence = channel[c].sequence =>
                      /\ channel'[c].balance_b = channel[c].balance_b
                      /\ channel'[c].balance_a + Reserved(c)'
                             >= channel[c].balance_a + Reserved(c)
    <2>1. /\ channel[c] \in ChannelRecord
          /\ channel[c].sequence \in Nat /\ channel'[c].sequence \in Nat
          /\ channel[c].balance_a \in Int /\ Reserved(c) \in Nat
      BY <1>1, NextTypes, ChannelConstants DEF IInv, TypeOK, ChannelRecord, Reserved
    <2>2. CASE Same(c)
      BY <2>1, <2>2 DEF Same
    <2>3. CASE Rewritten(c)
      BY <2>1, <2>3 DEF Rewritten
    <2>4. CASE Credited(c)
      BY <2>1, <2>4 DEF Credited
    <2>5. CASE Finalized(c)
      <3>1. /\ channel'[c].sequence = channel[c].sequence
            /\ channel'[c].balance_a = channel[c].balance_a
            /\ channel'[c].balance_b = channel[c].balance_b
        BY <2>1, <2>5 DEF Finalized, ChannelRecord
      <3> QED
        BY <2>1, <2>5, <3>1 DEF Finalized
    <2> QED
      BY <1>1, StepShape, <2>2, <2>3, <2>4, <2>5 DEF Shape, Opened
  <1>2. IInv /\ [Next]_vars =>
            [\A c \in Id : channel[c].state # "Absent" =>
                /\ channel'[c].sequence >= channel[c].sequence
                /\ channel'[c].sequence = channel[c].sequence =>
                       /\ channel'[c].balance_b = channel[c].balance_b
                       /\ channel'[c].balance_a + Reserved(c)'
                              >= channel[c].balance_a + Reserved(c)]_vars
    BY <1>1
  <1> QED
    BY <1>2, Invariance, PTL DEF Spec, SameSequenceKeepsFunds

\* After the window a disputed channel can only be settled as recorded, a
\* closing one also reopened by both parties under a higher sequence number.
THEOREM WindowFreezes == Spec => FrozenAfterWindow
  <1>1. ASSUME IInv, [Next]_vars, NEW c \in Id,
               channel[c].state \in {"Closing", "Dispute"},
               now > channel[c].dispute_deadline
        PROVE  \/ \E st \in {channel[c].state, "Closed"} :
                      channel'[c] = [channel[c] EXCEPT !.state = st]
               \/ /\ channel[c].state = "Closing"
                  /\ channel'[c].state = "Open"
                  /\ channel'[c].sequence > channel[c].sequence
    <2>1. channel[c] \in ChannelRecord
      BY <1>1 DEF IInv, TypeOK
    <2>2. channel[c] = [channel[c] EXCEPT !.state = channel[c].state]
      BY <2>1 DEF ChannelRecord
    <2> QED
      BY <1>1, <2>2, StepShape DEF Shape, Same, Opened, Rewritten, Credited, Finalized
  <1>2. IInv /\ [Next]_vars =>
            [\A c \in Id :
                channel[c].state \in {"Closing", "Dispute"}
                /\ now > channel[c].dispute_deadline =>
                    \/ \E st \in {channel[c].state, "Closed"} :
                           channel'[c] = [channel[c] EXCEPT !.state = st]
                    \/ /\ channel[c].state = "Closing"
                       /\ channel'[c].state = "Open"
                       /\ channel'[c].sequence > channel[c].sequence]_vars
    BY <1>1
  <1> QED
    BY <1>2, Invariance, PTL DEF Spec, FrozenAfterWindow

\* A payment-proof nonce moves tokens at most once per channel.
THEOREM OneDebitPerNonce == Spec => AtMostOneDebitPerNonce
  <1>1. ASSUME IInv, [Next]_vars, NEW i \in Id, NEW m \in Nonce, debited[i][m] # 0
        PROVE  debited'[i][m] = debited[i][m]
    <2>1. m \in seenNonce[i]
      BY <1>1 DEF IInv, ChannelInv, NonceInv
    <2>2. ASSUME NEW c \in Id, NEW n \in Nonce, NEW t \in 0..MaxTime, NEW amount \in Amount,
                 NEW x \in Addr, NEW y \in Addr, NEW z \in Addr,
                 VerifyPaymentProof(c, n, t, amount, x, y, z)
          PROVE  debited'[i][m] = debited[i][m]
      <3>1. ~(c = i /\ n = m)
        BY <2>1, <2>2 DEF VerifyPaymentProof
      <3>2. debited \in [Id -> [Nonce -> Nat]]
        BY <1>1 DEF IInv, TypeOK
      <3>3. debited' = [debited EXCEPT ![c][n] = @ + amount]
        BY <2>2 DEF VerifyPaymentProof
      <3> QED
        BY <3>1, <3>2, <3>3
    <2>3. CASE UNCHANGED debited
      BY <2>3
    <2>4. ASSUME NEW c \in Id, SubmitAny(c) \/ ManageWatchtowers(c) \/ Settle(c)
          PROVE  UNCHANGED debited
      <3>1. CASE SubmitAny(c)
        BY <3>1 DEF SubmitAny, SubmitState, InitiateClose, Dispute, WatchtowerSubmit
      <3>2. CASE ManageWatchtowers(c)
        BY <3>2 DEF ManageWatchtowers, RegisterWatchtower, DeregisterWatchtower
      <3>3. CASE Settle(c)
        BY <3>3 DEF Settle, Finalize
      <3> QED
        BY <2>4, <3>1, <3>2, <3>3
    <2>5. ASSUME NEW c \in Id, NEW amount \in Amount, NEW x \in Addr, TopUp(c, amount, x)
          PROVE  UNCHANGED debited
      BY <2>5 DEF TopUp
    <2>6. ASSUME NEW d \in Addr, NEW k \in Addr, NEW amount \in Amount,
                 NEW window \in Windows, OpenChannel(d, k, amount, window)
          PROVE  UNCHANGED debited
      BY <2>6 DEF OpenChannel
    <2>7. CASE Initialize \/ Tick \/ UNCHANGED vars
      BY <2>7 DEF Initialize, Tick, vars
    <2> QED
      BY <1>1, <2>2, <2>3, <2>4, <2>5, <2>6, <2>7 DEF Next, Spend
  <1>2. IInv /\ [Next]_vars =>
            [\A c \in Id, n \in Nonce :
                debited[c][n] # 0 => debited'[c][n] = debited[c][n]]_vars
    BY <1>1
  <1> QED
    BY <1>2, Invariance, PTL DEF Spec, AtMostOneDebitPerNonce

-----------------------------------------------------------------------------
(* The contract and its wallets.  What is proved of the money rests on the   *)
(* wallets' discipline (Quiesced): a co-signed state that is still to be     *)
(* submitted distributes all the channel is still owed, since nothing but a  *)
(* submitted state changes the record while one is outstanding.  A one-sided *)
(* close changes the record, but neither what is owed nor what was signed.   *)


LEMMA Distinct == Alice # Bob /\ Alice # Tower /\ Bob # Tower
  <1>1. ASSUME NEW x, NEW y PROVE Cardinality({x, y}) \in {1, 2}
    <2>1. IsFiniteSet({x}) /\ Cardinality({x}) = 1
      BY FS_Singleton
    <2>2. Cardinality({x} \cup {y}) = IF y \in {x} THEN Cardinality({x}) ELSE Cardinality({x}) + 1
      BY <2>1, FS_AddElement
    <2>3. {x} \cup {y} = {x, y}
      OBVIOUS
    <2> QED
      BY <2>1, <2>2, <2>3
  <1>2. Cardinality({Alice, Bob, Tower}) = 3
    BY ProtocolConstants
  <1>3. ASSUME NEW x, NEW y, {Alice, Bob, Tower} = {x, y} PROVE FALSE
    <2>1. Cardinality({x, y}) = 3
      BY <1>2, <1>3, Zenon
    <2>2. Cardinality({x, y}) \in {1, 2}
      BY <1>1, Zenon
    <2>3. 3 \in {1, 2}
      BY <2>1, <2>2, Zenon
    <2> QED
      BY <2>3, SMT
  <1>4. Alice = Bob => {Alice, Bob, Tower} = {Alice, Tower}
    OBVIOUS
  <1>5. Alice = Tower => {Alice, Bob, Tower} = {Alice, Bob}
    OBVIOUS
  <1>6. Bob = Tower => {Alice, Bob, Tower} = {Alice, Bob}
    OBVIOUS
  <1> QED
    BY <1>3, <1>4, <1>5, <1>6

Wallets == {Alice, Bob, Tower}

LEMMA WalletAddresses == Alice \in Addr /\ Bob \in Addr /\ Tower \in Addr
  BY ProtocolConstants

-----------------------------------------------------------------------------
(* The invariant.                                                           *)

\* Outstanding states distribute all that is owed and not reserved, and move it one
\* way only; one of them is the newest, which is the one the parties extend.
Ordered(c) ==
    /\ channel[c].state # "Closed" =>
           \A s \in Pending(c) : s.a + s.b + Reserved(c) + PaidOut(c) = deposited[c]
    /\ Agreed(c) => \A s \in Pending(c) : s.b >= channel[c].balance_b
    /\ \A s, t \in Pending(c) : s.seq <= t.seq => s.b <= t.b
    /\ Pending(c) # {} => \E s \in Pending(c) : \A t \in Pending(c) : t.seq <= s.seq

\* What is recorded for channel c is what it owes, if both parties agreed to it.
Funded(c) ==
    /\ channel[c].balance_a >= 0 /\ channel[c].balance_b >= 0
    /\ Locked(c) + PaidOut(c) = deposited[c]

ProtocolInv(c) ==
    /\ channel[c].state = "Absent" <=> c > count
    /\ channel[c].state = "Absent" =>
           signed[c] = {} /\ deposited[c] = 0 /\ bounty[c] = 0 /\ PaidOut(c) = 0
    /\ channel[c].state # "Absent" =>
           channel[c].depositor = Alice /\ channel[c].counterparty = Bob
    /\ towers[c] \subseteq {Tower}
    /\ Agreed(c) => Funded(c)
    /\ ~Agreed(c) => c \in OneSided
    /\ channel[c].state # "Closed" => Reserved(c) + PaidOut(c) <= deposited[c]
    /\ Ordered(c)

PInv == ProtocolTypeOK /\ \A c \in Id : ProtocolInv(c)

LEMMA ProtocolTypes ==
    ASSUME ProtocolTypeOK, NEW c \in Id
    PROVE  /\ TypeOK /\ signed[c] \subseteq SignedState
           /\ \A s \in signed[c] : s.a \in Nat /\ s.b \in Nat /\ s.seq \in Nat
           /\ deposited[c] \in Nat
           /\ channel[c].balance_a \in Int /\ channel[c].balance_b \in Int
           /\ channel[c].sequence \in Nat /\ channel[c].state \in States
           /\ bounty[c] \in Nat /\ Reserved(c) \in Nat
           /\ \A x \in Wallets : x \in Addr /\ payout[c][x] \in Nat
           /\ PaidOut(c) \in Nat /\ vault \in Nat
  <1>1. /\ TypeOK /\ signed[c] \subseteq SignedState /\ deposited[c] \in Nat
        /\ vault \in Nat
    BY DEF ProtocolTypeOK, TypeOK
  <1>2. \A s \in signed[c] : s.a \in Nat /\ s.b \in Nat /\ s.seq \in Nat
    BY <1>1, ChannelConstants DEF SignedState
  <1>3. bounty[c] \in Nat /\ Reserved(c) \in Nat
    BY <1>1, ChannelConstants DEF TypeOK, Reserved
  <1>4. \A x \in Wallets : x \in Addr /\ payout[c][x] \in Nat
    BY <1>1, WalletAddresses DEF TypeOK, Wallets
  <1>5. PaidOut(c) \in Nat
    BY <1>4 DEF PaidOut, Wallets
  <1> QED
    BY <1>1, <1>2, <1>3, <1>4, <1>5, ChannelTypes

\* The step leaves every channel but c alone.
Only(c) ==
    \A k \in Id : k # c =>
        /\ channel'[k] = channel[k] /\ towers'[k] = towers[k]
        /\ bounty'[k] = bounty[k] /\ (bountyPaid'[k] <=> bountyPaid[k])
        /\ payout'[k] = payout[k]
        /\ signed'[k] = signed[k] /\ deposited'[k] = deposited[k]
        /\ (k > count') <=> (k > count)

\* The vault gains what is deposited into channel c and loses what c pays out.
Moves(c) ==
    vault' = vault + (deposited'[c] - deposited[c]) - (PaidOut(c)' - PaidOut(c))

\* What the step does to the account of channel c.
Step(c) ==
    /\ Only(c) /\ Moves(c)
    /\ ProtocolTypeOK' /\ ProtocolInv(c)'
    /\ channel[c].state # "Absent" /\ Agreed(c) /\ Agreed(c)' =>
           channel'[c].balance_b >= channel[c].balance_b
    /\ channel[c].state # "Closed"
    /\ \/ deposited'[c] = deposited[c] /\ PaidOut(c)' >= PaidOut(c)
       \/ /\ deposited'[c] > deposited[c] /\ PaidOut(c)' = PaidOut(c)
          /\ channel'[c].state # "Closed"

LEMMA OtherChannels ==
    ASSUME PInv, NEW c,
           Only(c)
    PROVE  \A k \in Id : k # c => ProtocolInv(k)'
  <1> SUFFICES ASSUME NEW k \in Id, k # c PROVE ProtocolInv(k)'
    OBVIOUS
  <1>1. ProtocolInv(k)
    BY DEF PInv
  <1>2. Reserved(k)' = Reserved(k) /\ PaidOut(k)' = PaidOut(k) /\ Pending(k)' = Pending(k)
    BY DEF Reserved, PaidOut, Pending, Only
  <1>3. Locked(k)' = Locked(k)
    BY <1>2 DEF Locked, InState, Only
  <1>4. Agreed(k)' <=> Agreed(k)
    BY DEF Agreed, Recorded, InState, Only
  <1>5. Ordered(k)'
    BY <1>1, <1>2, <1>4 DEF ProtocolInv, Ordered, Only
  <1>6. Agreed(k)' => Funded(k)'
    BY <1>1, <1>2, <1>3, <1>4 DEF ProtocolInv, Funded, Only
  <1> QED
    BY <1>1, <1>2, <1>4, <1>5, <1>6 DEF ProtocolInv, Only

LEMMA InitPInv == ProtocolInit => PInv
  <1> SUFFICES ASSUME ProtocolInit PROVE PInv
    OBVIOUS
  <1>1. Init /\ TypeOK
    BY InitTypes DEF ProtocolInit
  <1>2. ProtocolTypeOK
    BY <1>1 DEF ProtocolInit, ProtocolTypeOK
  <1>3. ASSUME NEW c \in Id PROVE ProtocolInv(c)
    <2>1. channel[c] = NoChannel /\ count = 0 /\ towers[c] = {} /\ bounty[c] = 0 /\ c > count
      BY <1>1, ChannelConstants DEF Init, Id
    <2>2. signed[c] = {} /\ deposited[c] = 0
      BY DEF ProtocolInit
    <2>3. PaidOut(c) = 0
      BY <1>1, WalletAddresses DEF Init, PaidOut
    <2>4. Locked(c) = 0 /\ Reserved(c) = 0 /\ Pending(c) = {} /\ Agreed(c)
      BY <2>1, <2>2 DEF Locked, InState, NoChannel, Reserved, Pending, Agreed
    <2> QED
      BY <2>1, <2>2, <2>3, <2>4 DEF ProtocolInv, Funded, Ordered, NoChannel
  <1> QED
    BY <1>2, <1>3 DEF PInv

-----------------------------------------------------------------------------
(* The three ways a step can change the money of a channel.                 *)

\* A state with a higher number is recorded: what is still outstanding is newer
\* than it, and distributes what it did before.
LEMMA Outstanding ==
    ASSUME PInv, NEW c \in Id, NEW seq \in Nat, Newer(c, seq),
           channel[c].state # "Closed", channel'[c].sequence = seq,
           UNCHANGED <<signed, deposited>>,
           Reserved(c)' + PaidOut(c)' = Reserved(c) + PaidOut(c),
           Reserved(c)' \in Nat, PaidOut(c)' \in Nat
    PROVE  /\ \A t : t \in Pending(c)' <=> t \in Pending(c) /\ t.seq > seq
           /\ \A t \in Pending(c)' :
                  t.a + t.b + Reserved(c)' + PaidOut(c)' = deposited'[c]
           /\ \A t, u \in Pending(c)' : t.seq <= u.seq => t.b <= u.b
           /\ Pending(c)' # {} => \E m \in Pending(c)' : \A t \in Pending(c)' : t.seq <= m.seq
  <1>1. ProtocolTypeOK /\ ProtocolInv(c)
    BY DEF PInv
  <1>2. /\ channel[c].sequence \in Nat /\ deposited[c] \in Nat
        /\ Reserved(c) \in Nat /\ PaidOut(c) \in Nat
        /\ \A t \in signed[c] : t.a \in Nat /\ t.b \in Nat /\ t.seq \in Nat
    BY <1>1, ProtocolTypes
  <1>3. \A t : t \in Pending(c)' <=> t \in signed[c] /\ t.seq > seq
    BY DEF Pending
  <1>4. \A t : t \in Pending(c)' <=> t \in Pending(c) /\ t.seq > seq
    BY <1>2, <1>3 DEF Pending, Newer
  <1>5. ASSUME NEW t \in Pending(c)'
        PROVE  t.a + t.b + Reserved(c)' + PaidOut(c)' = deposited'[c]
    <2>1. t \in signed[c] /\ t.a + t.b + Reserved(c) + PaidOut(c) = deposited[c]
      BY <1>1, <1>3, <1>4 DEF ProtocolInv, Ordered
    <2> QED
      BY <1>2, <2>1
  <1>6. \A t, u \in Pending(c)' : t.seq <= u.seq => t.b <= u.b
    BY <1>1, <1>4 DEF ProtocolInv, Ordered
  <1>7. ASSUME Pending(c)' # {}
        PROVE  \E m \in Pending(c)' : \A t \in Pending(c)' : t.seq <= m.seq
    <2>1. PICK t \in Pending(c)' : TRUE
      BY <1>7
    <2>2. PICK m \in Pending(c) : \A u \in Pending(c) : u.seq <= m.seq
      BY <1>1, <1>4, <2>1 DEF ProtocolInv, Ordered
    <2>3. m.seq \in Nat /\ t.seq \in Nat /\ t.seq > seq /\ t.seq <= m.seq
      BY <1>2, <1>4, <2>1, <2>2 DEF Pending
    <2>4. m \in Pending(c)'
      BY <1>4, <2>2, <2>3
    <2> QED
      BY <1>4, <2>2, <2>4
  <1> QED
    BY <1>4, <1>5, <1>6, <1>7

\* A co-signed state is recorded: it distributes what is owed, and whatever is
\* still outstanding promises the executor no less.
LEMMA Accept ==
    ASSUME PInv, NEW c \in Id, NEW s \in signed[c], Newer(c, s.seq),
           NEW st \in {"Open", "Closing", "Dispute"},
           channel[c].state \in {"Open", "Closing", "Dispute"},
           channel'[c].balance_a = s.a, channel'[c].balance_b = s.b,
           channel'[c].sequence = s.seq, channel'[c].state = st,
           channel'[c].depositor = channel[c].depositor,
           channel'[c].counterparty = channel[c].counterparty,
           UNCHANGED <<count, towers, bounty, signed, deposited>>,
           Reserved(c)' + PaidOut(c)' = Reserved(c) + PaidOut(c),
           Reserved(c)' \in Nat, PaidOut(c)' \in Nat
    PROVE  ProtocolInv(c)' /\ (Agreed(c) => channel'[c].balance_b >= channel[c].balance_b)
  <1>1. ProtocolTypeOK /\ ProtocolInv(c) /\ s \in Pending(c)
    BY DEF PInv, Pending, Newer
  <1>2. /\ s.a \in Nat /\ s.b \in Nat /\ s.seq \in Nat /\ deposited[c] \in Nat
        /\ Reserved(c) \in Nat /\ PaidOut(c) \in Nat /\ s \in SignedState
        /\ \A t \in signed[c] : t.a \in Nat /\ t.b \in Nat /\ t.seq \in Nat
    BY <1>1, ProtocolTypes
  <1>3. s.a + s.b + Reserved(c) + PaidOut(c) = deposited[c]
    BY <1>1 DEF ProtocolInv, Ordered
  <1>4. Agreed(c)'
    <2>1. Recorded(c)' = s
      BY <1>2 DEF Recorded, SignedState
    <2> QED
      BY <2>1 DEF Agreed
  <1>5. /\ \A t : t \in Pending(c)' <=> t \in Pending(c) /\ t.seq > s.seq
        /\ \A t \in Pending(c)' :
               t.a + t.b + Reserved(c)' + PaidOut(c)' = deposited'[c]
        /\ \A t, u \in Pending(c)' : t.seq <= u.seq => t.b <= u.b
        /\ Pending(c)' # {} => \E m \in Pending(c)' : \A t \in Pending(c)' : t.seq <= m.seq
    BY <1>2, Outstanding
  <1>6. \A t \in Pending(c)' : t.b >= s.b
    <2>1. \A t \in Pending(c)' : t \in Pending(c) /\ t.b \in Nat /\ s.seq <= t.seq
      BY <1>2, <1>5 DEF Pending
    <2> QED
      BY <1>1, <1>2, <2>1 DEF ProtocolInv, Ordered
  <1>7. Ordered(c)'
    BY <1>5, <1>6 DEF Ordered
  <1>8. Locked(c)' = s.a + s.b + Reserved(c)'
    BY DEF Locked, InState
  <1>9. Funded(c)'
    BY <1>2, <1>3, <1>8 DEF Funded
  <1>10. Reserved(c)' + PaidOut(c)' <= deposited'[c]
    BY <1>2, <1>3
  <1>11. Agreed(c) => s.b >= channel[c].balance_b
    BY <1>1 DEF ProtocolInv, Ordered
  <1> QED
    BY <1>1, <1>4, <1>7, <1>9, <1>10, <1>11 DEF ProtocolInv

\* One party closes alone: the record is no longer agreed, and what was signed
\* and is owed stays.
LEMMA CloseAlone ==
    ASSUME PInv, NEW c \in Id, c \in OneSided, NEW seq \in Nat, Newer(c, seq),
           channel[c].state = "Open", channel'[c].state = "Closing",
           channel'[c].sequence = seq, ~Agreed(c)',
           channel'[c].depositor = channel[c].depositor,
           channel'[c].counterparty = channel[c].counterparty,
           UNCHANGED <<count, towers, bounty, signed, deposited>>,
           Reserved(c)' = Reserved(c), PaidOut(c)' = PaidOut(c)
    PROVE  ProtocolInv(c)'
  <1>1. ProtocolTypeOK /\ ProtocolInv(c)
    BY DEF PInv
  <1>2. Reserved(c) \in Nat /\ PaidOut(c) \in Nat
    BY <1>1, ProtocolTypes
  <1>3. Ordered(c)'
    <2>1. /\ \A t \in Pending(c)' :
                 t.a + t.b + Reserved(c)' + PaidOut(c)' = deposited'[c]
          /\ \A t, u \in Pending(c)' : t.seq <= u.seq => t.b <= u.b
          /\ Pending(c)' # {} => \E m \in Pending(c)' : \A t \in Pending(c)' : t.seq <= m.seq
      BY <1>2, Outstanding
    <2> QED
      BY <2>1 DEF Ordered
  <1>4. Reserved(c)' + PaidOut(c)' <= deposited'[c]
    BY <1>1 DEF ProtocolInv
  <1> QED
    BY <1>1, <1>3, <1>4 DEF ProtocolInv

\* While nothing is outstanding the parties use the ledger: what is locked and
\* paid out together stays what was deposited.
LEMMA Adjust ==
    ASSUME PInv, NEW c \in Id, Pending(c) = {},
           channel[c].state = "Open", channel'[c].state = "Open",
           channel'[c].sequence \in Nat, channel'[c].sequence >= channel[c].sequence,
           channel'[c].depositor = channel[c].depositor,
           channel'[c].counterparty = channel[c].counterparty,
           channel'[c].balance_a \in Nat, channel'[c].balance_b \in Nat,
           Reserved(c)' \in Nat, UNCHANGED <<count, signed>>,
           towers'[c] \subseteq {Tower}, PaidOut(c)' = PaidOut(c),
           channel'[c].balance_a + channel'[c].balance_b + Reserved(c)' + PaidOut(c)
               = deposited'[c]
    PROVE  ProtocolInv(c)'
  <1>1. ProtocolTypeOK /\ ProtocolInv(c)
    BY DEF PInv
  <1>2. \A t \in signed[c] : t.seq \in Nat
    BY <1>1, ProtocolTypes
  <1>3. channel[c].sequence \in Nat
    BY <1>1, ProtocolTypes
  <1>4. Pending(c)' = {}
    <2>1. \A t \in signed[c] : ~(t.seq > channel[c].sequence)
      BY DEF Pending
    <2>2. \A t \in signed[c] : ~(t.seq > channel'[c].sequence)
      BY <1>2, <1>3, <2>1
    <2> QED
      BY <2>2 DEF Pending
  <1>5. Ordered(c)'
    BY <1>4 DEF Ordered
  <1>6. Locked(c)' = channel'[c].balance_a + channel'[c].balance_b + Reserved(c)'
    BY DEF Locked, InState
  <1>7. Agreed(c)'
    BY DEF Agreed, InState
  <1>8. Funded(c)'
    BY <1>6 DEF Funded
  <1>9. Reserved(c)' + PaidOut(c)' <= deposited'[c]
    <2>1. PaidOut(c)' \in Nat
      BY <1>1, ProtocolTypes
    <2> QED
      BY <2>1
  <1> QED
    BY <1>1, <1>5, <1>7, <1>8, <1>9 DEF ProtocolInv

-----------------------------------------------------------------------------
(* One lemma per action.                                                    *)

\* The record of an open channel is agreed.
LEMMA OpenFunded ==
    ASSUME PInv, NEW c \in Id, channel[c].state = "Open"
    PROVE  /\ Agreed(c)
           /\ channel[c].balance_a \in Nat /\ channel[c].balance_b \in Nat
           /\ channel[c].balance_a + channel[c].balance_b + Reserved(c) + PaidOut(c)
                  = deposited[c]
  <1>1. Agreed(c)
    BY DEF Agreed, InState
  <1>2. Funded(c) /\ Locked(c) = channel[c].balance_a + channel[c].balance_b + Reserved(c)
    BY <1>1 DEF PInv, ProtocolInv, Locked, InState
  <1>3. channel[c].balance_a \in Int /\ channel[c].balance_b \in Int
    BY ProtocolTypes DEF PInv
  <1> QED
    BY <1>1, <1>2, <1>3 DEF Funded

\* The newest known state is a well-formed successor of the recorded one.
LEMMA HeadNewest ==
    ASSUME PInv, NEW c \in Id, channel[c].state = "Open"
    PROVE  /\ Head(c).a \in Nat /\ Head(c).b \in Nat /\ Head(c).seq \in Nat
           /\ Head(c).a + Head(c).b + Reserved(c) + PaidOut(c) = deposited[c]
           /\ Head(c).b >= channel[c].balance_b /\ Head(c).seq >= channel[c].sequence
           /\ \A t \in Pending(c) : t.seq <= Head(c).seq /\ t.b <= Head(c).b
  <1>1. ProtocolTypeOK /\ ProtocolInv(c) /\ Agreed(c)
    BY OpenFunded DEF PInv
  <1>2. /\ channel[c].balance_a \in Nat /\ channel[c].balance_b \in Nat
        /\ channel[c].sequence \in Nat
        /\ channel[c].balance_a + channel[c].balance_b + Reserved(c) + PaidOut(c)
               = deposited[c]
    BY <1>1, ProtocolTypes, OpenFunded
  <1>3. CASE Pending(c) = {}
    <2>1. Head(c) = [a |-> channel[c].balance_a, b |-> channel[c].balance_b,
                     seq |-> channel[c].sequence]
      BY <1>3 DEF Head
    <2> QED
      BY <1>2, <1>3, <2>1
  <1>4. CASE Pending(c) # {}
    <2> DEFINE h == CHOOSE s \in Pending(c) : \A t \in Pending(c) : t.seq <= s.seq
    <2>1. Head(c) = h
      BY <1>4 DEF Head
    <2>2. h \in Pending(c) /\ \A t \in Pending(c) : t.seq <= h.seq
      BY <1>1, <1>4 DEF ProtocolInv, Ordered
    <2> HIDE DEF h
    <2>3. h \in signed[c] /\ h.seq > channel[c].sequence
      BY <2>2 DEF Pending
    <2>4. h.a \in Nat /\ h.b \in Nat /\ h.seq \in Nat
      BY <1>1, <2>3, ProtocolTypes
    <2>5. h.a + h.b + Reserved(c) + PaidOut(c) = deposited[c]
      BY <1>1, <2>2 DEF ProtocolInv, Ordered
    <2>6. h.b >= channel[c].balance_b /\ \A t \in Pending(c) : t.b <= h.b
      BY <1>1, <2>2 DEF ProtocolInv, Ordered
    <2> QED
      BY <1>2, <2>1, <2>2, <2>3, <2>4, <2>5, <2>6
  <1> QED
    BY <1>3, <1>4

LEMMA OpenStep ==
    ASSUME PInv, NEW amount \in Amount, NEW window \in Windows, Open(amount, window)
    PROVE  \E c \in Id : Step(c) /\ c = count + 1
  <1>1. OpenChannel(Alice, Bob, amount, window)
    BY DEF Open
  <1>2. ProtocolTypeOK /\ TypeOK
    BY DEF PInv, ProtocolTypeOK
  <1>3. amount \in Nat /\ window \in Nat
    BY InputTypes
  <1>4. count + 1 \in Id
    BY <1>1, <1>2, <1>3, OpenEffect, WalletAddresses
  <1>5. PICK c \in Id : c = count + 1
    BY <1>4
  <1>6. OpenChannel(Alice, Bob, amount, window)
        /\ deposited' = [deposited EXCEPT ![c] = amount] /\ UNCHANGED signed
    BY <1>1, <1>5 DEF Open
  <1>7. ProtocolTypeOK /\ TypeOK
    BY <1>2
  <1>8. amount \in Nat /\ window \in Nat /\ count \in Nat
    BY <1>7, InputTypes DEF TypeOK
  <1>9. /\ c \in Id /\ channel' \in [Id -> ChannelRecord]
        /\ \A i \in Id : i # c => channel'[i] = channel[i]
        /\ channel'[c].depositor = Alice /\ channel'[c].counterparty = Bob
        /\ channel'[c].balance_b = 0 /\ channel'[c].state = "Open"
    BY <1>6, <1>7, <1>8, <1>5, OpenEffect, WalletAddresses
  <1>10. /\ amount > 0 /\ count' = count + 1
        /\ UNCHANGED <<towers, bounty, bountyPaid, payout>>
    BY <1>6 DEF OpenChannel
  <1>11. channel'[c].balance_a = amount
    <2>1. channel' = [channel EXCEPT ![c] =
           [depositor |-> Alice, counterparty |-> Bob,
            balance_a |-> amount, balance_b |-> 0, sequence |-> 0,
            state |-> "Open", dispute_deadline |-> now + window,
            closing_started_at |-> 0]]
      BY <1>6, <1>5 DEF OpenChannel
    <2> QED
      BY <1>7, <1>9, <2>1 DEF TypeOK
  <1>12. ProtocolInv(c)
    BY <1>9 DEF PInv
  <1>13. c > count /\ count' = c
    BY <1>8, <1>10, <1>5
  <1>14. /\ channel[c].state = "Absent" /\ signed[c] = {} /\ deposited[c] = 0
        /\ bounty[c] = 0 /\ PaidOut(c) = 0
    BY <1>12, <1>13 DEF ProtocolInv
  <1>15. /\ \A k \in Id : k # c => deposited'[k] = deposited[k]
        /\ deposited'[c] = amount /\ deposited' \in [Id -> Nat]
    BY <1>6, <1>7, <1>8, <1>9 DEF ProtocolTypeOK
  <1>16. ProtocolTypeOK'
    <2>1. Next
      BY <1>6, WalletAddresses DEF Next
    <2>2. TypeOK'
      BY <1>7, <2>1, NextTypes
    <2> QED
      BY <1>6, <1>7, <1>15, <2>2 DEF ProtocolTypeOK
  <1>17. Only(c)
    <2>1. \A k \in Id : k \in Nat
      BY DEF Id
    <2> QED
      BY <1>6, <1>8, <1>9, <1>10, <1>15, <1>5, <2>1 DEF Only
  <1>18. PaidOut(c)' = 0 /\ Reserved(c)' = 0 /\ Pending(c)' = {}
    <2>1. PaidOut(c)' = PaidOut(c)
      BY <1>10 DEF PaidOut
    <2>2. bounty'[c] = 0 /\ signed'[c] = {}
      BY <1>6, <1>10, <1>14
    <2>3. Reserved(c)' = 0
      BY <2>2 DEF Reserved
    <2>4. Pending(c)' = {}
      BY <2>2 DEF Pending
    <2> QED
      BY <1>14, <2>1, <2>3, <2>4
  <1>19. Locked(c)' = amount
    BY <1>8, <1>9, <1>11, <1>18 DEF Locked, InState
  <1>20. ProtocolInv(c)'
    <2>1. Ordered(c)'
      BY <1>18 DEF Ordered
    <2>2. ~(c > count')
      BY <1>8, <1>5, <1>13
    <2>3. c \in Id /\ towers'[c] \subseteq {Tower}
      BY <1>9, <1>10, <1>12 DEF ProtocolInv
    <2>4. Funded(c)' /\ Reserved(c)' + PaidOut(c)' <= deposited'[c]
      BY <1>8, <1>9, <1>11, <1>15, <1>18, <1>19 DEF Funded
    <2>5. Agreed(c)'
      BY <1>9 DEF Agreed, InState
    <2> QED
      BY <1>9, <2>1, <2>2, <2>3, <2>4, <2>5 DEF ProtocolInv
  <1>21. Moves(c)
    <2>1. vault' = vault + amount /\ vault \in Nat
      BY <1>6, <1>7 DEF OpenChannel, TypeOK
    <2>2. deposited[c] = 0 /\ deposited'[c] = amount /\ PaidOut(c) = 0 /\ PaidOut(c)' = 0
      BY <1>14, <1>15, <1>18
    <2> QED
      BY <1>8, <2>1, <2>2 DEF Moves
  <1> QED
    BY <1>8, <1>9, <1>10, <1>14, <1>15, <1>16, <1>17, <1>18, <1>20, <1>5, <1>21 DEF Step

LEMMA RenewStep ==
    ASSUME PInv, NEW c \in Id, NEW amount \in Amount, Renew(c, amount)
    PROVE  Step(c)
  <1> DEFINE s == Head(c)
             n == NextState(s, amount)
  <1>1. /\ channel[c].state = "Open" /\ amount > 0 /\ s.a >= amount /\ s.seq < MaxSeq
        /\ signed' = [signed EXCEPT ![c] = @ \cup {n}]
        /\ UNCHANGED <<vars, deposited>>
    BY DEF Renew, InState
  <1>2. ProtocolTypeOK /\ TypeOK /\ ProtocolInv(c)
    BY DEF PInv, ProtocolTypeOK
  <1>3. /\ s.a \in Nat /\ s.b \in Nat /\ s.seq \in Nat
        /\ s.a + s.b + Reserved(c) + PaidOut(c) = deposited[c]
        /\ s.b >= channel[c].balance_b /\ s.seq >= channel[c].sequence
        /\ \A t \in Pending(c) : t.seq <= s.seq /\ t.b <= s.b
    BY <1>1, HeadNewest
  <1> HIDE DEF s
  <1>4. n.a = s.a - amount /\ n.b = s.b + amount /\ n.seq = s.seq + 1
    BY DEF NextState
  <1>5. amount \in Nat /\ MaxSeq \in Nat
    BY InputTypes, ChannelConstants
  <1>6. n \in SignedState
    BY <1>1, <1>3, <1>5 DEF NextState, SignedState
  <1> HIDE DEF n
  <1>7. UNCHANGED <<now, admin, count, channel, towers, bounty, bountyPaid, seenNonce,
                    vault, payout, debited>>
    BY <1>1 DEF vars
  <1>8. /\ signed'[c] = signed[c] \cup {n}
        /\ \A k \in Id : k # c => signed'[k] = signed[k]
        /\ signed' \in [Id -> SUBSET SignedState]
    BY <1>1, <1>2, <1>6 DEF ProtocolTypeOK
  <1>9. ProtocolTypeOK'
    BY <1>1, <1>2, <1>7, <1>8 DEF ProtocolTypeOK, TypeOK
  <1>10. \A t \in signed[c] : t.a \in Nat /\ t.b \in Nat /\ t.seq \in Nat
    BY <1>2, ProtocolTypes
  <1>11. /\ channel[c].sequence \in Nat /\ channel[c].balance_b \in Int
         /\ Reserved(c) \in Nat /\ PaidOut(c) \in Nat /\ deposited[c] \in Nat
    BY <1>2, ProtocolTypes
  <1>12. Pending(c)' = Pending(c) \cup {n}
    <2>1. n.seq > channel[c].sequence
      BY <1>3, <1>4, <1>11
    <2> QED
      BY <1>7, <1>8, <2>1 DEF Pending
  <1>13. Ordered(c)'
    <2>1. \A t \in Pending(c) : t.seq \in Nat /\ t.b \in Nat
      BY <1>10 DEF Pending
    <2>2. \A t \in Pending(c)' : /\ t.a + t.b + Reserved(c) + PaidOut(c) = deposited[c]
                                 /\ t.b >= channel[c].balance_b
      <3>1. /\ n.a + n.b + Reserved(c) + PaidOut(c) = deposited[c]
            /\ n.b >= channel[c].balance_b
        BY <1>3, <1>4, <1>5, <1>11
      <3>2. Agreed(c)
        BY <1>1, OpenFunded
      <3> QED
        BY <1>1, <1>2, <1>12, <3>1, <3>2 DEF ProtocolInv, Ordered
    <2>3. \A t, u \in Pending(c)' : t.seq <= u.seq => t.b <= u.b
      <3>1. \A t \in Pending(c) : t.b <= n.b /\ t.seq < n.seq
        BY <1>3, <1>4, <1>5, <2>1
      <3>2. \A t, u \in Pending(c) : t.seq <= u.seq => t.b <= u.b
        BY <1>2 DEF ProtocolInv, Ordered
      <3>3. n.seq \in Nat /\ n.b \in Nat
        BY <1>3, <1>4, <1>5
      <3> QED
        BY <1>12, <2>1, <3>1, <3>2, <3>3
    <2>4. \A t \in Pending(c)' : t.seq <= n.seq
      BY <1>3, <1>4, <1>12, <2>1
    <2>5. /\ Reserved(c)' = Reserved(c) /\ PaidOut(c)' = PaidOut(c)
          /\ deposited'[c] = deposited[c] /\ n \in Pending(c)'
      BY <1>1, <1>7, <1>12 DEF PaidOut, Reserved
    <2> QED
      BY <1>7, <2>2, <2>3, <2>4, <2>5 DEF Ordered
  <1>14. PaidOut(c)' = PaidOut(c) /\ Reserved(c)' = Reserved(c) /\ Locked(c)' = Locked(c)
    BY <1>7 DEF PaidOut, Reserved, Locked, InState
  <1>15. ProtocolInv(c)'
    <2>1. Agreed(c) /\ Agreed(c)'
      BY <1>1, <1>7 DEF Agreed, InState
    <2>2. Funded(c)'
      BY <1>1, <1>2, <1>7, <1>14, <2>1 DEF ProtocolInv, Funded
    <2> QED
      BY <1>1, <1>2, <1>7, <1>13, <1>14, <2>1, <2>2 DEF ProtocolInv
  <1>16. Only(c)
    BY <1>1, <1>7, <1>8 DEF Only
  <1>17. PaidOut(c) \in Nat
    BY <1>2, ProtocolTypes
  <1>18. Moves(c)
    BY <1>1, <1>2, <1>7, <1>14, ProtocolTypes DEF Moves
  <1> QED
    BY <1>1, <1>7, <1>9, <1>11, <1>14, <1>15, <1>16, <1>17, <1>18 DEF Step

\* A step that records a co-signed state and moves no tokens.
LEMMA SubmitStep ==
    ASSUME PInv, NEW c \in Id, NEW s \in signed[c], Submit(c, s)
    PROVE  Step(c)
  <1>1. /\ SubmitState(c, s.a, s.b, s.seq, Alice, Bob)
        /\ UNCHANGED <<signed, deposited>>
    BY DEF Submit
  <1>2. ProtocolTypeOK /\ TypeOK /\ s.a \in Nat /\ s.b \in Nat /\ s.seq \in Nat
        /\ PaidOut(c) \in Nat /\ Reserved(c) \in Nat
    BY ProtocolTypes DEF PInv, ProtocolTypeOK
  <1>3. /\ Newer(c, s.seq) /\ channel[c].state \in {"Open", "Closing"}
        /\ UNCHANGED <<now, admin, count, towers, bounty, bountyPaid, seenNonce,
                       vault, payout, debited>>
        /\ Record(c, s.a, s.b, s.seq, "Open")
    BY <1>1 DEF SubmitState, InState
  <1>4. /\ \A k \in Id : k # c => channel'[k] = channel[k]
        /\ channel'[c].balance_a = s.a /\ channel'[c].balance_b = s.b
        /\ channel'[c].sequence = s.seq /\ channel'[c].state = "Open"
        /\ channel'[c].depositor = channel[c].depositor
        /\ channel'[c].counterparty = channel[c].counterparty
    BY <1>2, <1>3, RecordEffect DEF States
  <1>5. ProtocolTypeOK'
    BY <1>1, <1>2, SubmitTypes, WalletAddresses DEF ProtocolTypeOK
  <1>6. Reserved(c)' = Reserved(c) /\ PaidOut(c)' = PaidOut(c)
    BY <1>3 DEF Reserved, PaidOut
  <1>7. ProtocolInv(c)' /\ (Agreed(c) => channel'[c].balance_b >= channel[c].balance_b)
    BY <1>1, <1>2, <1>3, <1>4, <1>6, Accept
  <1>8. Only(c)
    BY <1>1, <1>3, <1>4 DEF Only
  <1>9. Moves(c)
    BY <1>1, <1>3, <1>6, ProtocolTypes DEF Moves, PInv
  <1> QED
    BY <1>1, <1>2, <1>3, <1>4, <1>5, <1>6, <1>7, <1>8, <1>9 DEF Step

LEMMA ClosableNumbers ==
    /\ \A n \in Balance : n \in Int
    /\ \A n \in 1..MaxSeq : n \in Nat
  BY ChannelConstants

LEMMA ClosableIs ==
    ASSUME NEW c, NEW s \in Closable(c)
    PROVE  \/ s \in signed[c]
           \/ s \in [a : Balance, b : Balance, seq : 1..MaxSeq] /\ c \in OneSided
  BY Zenon DEF Closable

LEMMA ClosableTypes ==
    ASSUME ProtocolTypeOK, NEW c \in Id, NEW s \in Closable(c)
    PROVE  /\ s.a \in Int /\ s.b \in Int /\ s.seq \in Nat
           /\ s = [a |-> s.a, b |-> s.b, seq |-> s.seq]
           /\ s \in signed[c] \/ c \in OneSided
  <1>1. CASE s \in signed[c]
    <2>1. s \in SignedState
      BY <1>1, ProtocolTypes
    <2> QED
      BY <1>1, <2>1, ChannelConstants DEF SignedState
  <1>2. CASE s \in [a : Balance, b : Balance, seq : 1..MaxSeq] /\ c \in OneSided
    <2>1. s.a \in Balance /\ s.b \in Balance /\ s.seq \in 1..MaxSeq
      BY <1>2
    <2>2. s = [a |-> s.a, b |-> s.b, seq |-> s.seq]
      BY <1>2, Zenon
    <2>3. s.a \in Int /\ s.b \in Int /\ s.seq \in Nat
      BY <2>1, ClosableNumbers, Zenon
    <2> QED
      BY <1>2, <2>2, <2>3
  <1> QED
    BY <1>1, <1>2, ClosableIs, Zenon

\* A close with a co-signed state, or with contents of one party's own.
LEMMA CloseStep ==
    ASSUME PInv, NEW c \in Id, NEW s \in Closable(c), Close(c, s)
    PROVE  Step(c)
  <1>1. PICK sig \in {Alice, Bob} : InitiateClose(c, s.a, s.b, s.seq, sig)
    BY DEF Close
  <1>2. UNCHANGED <<signed, deposited>>
    BY DEF Close
  <1>3. ProtocolTypeOK /\ TypeOK /\ PaidOut(c) \in Nat /\ Reserved(c) \in Nat
    BY ProtocolTypes DEF PInv, ProtocolTypeOK
  <1>4. /\ s.a \in Int /\ s.b \in Int /\ s.seq \in Nat
        /\ s = [a |-> s.a, b |-> s.b, seq |-> s.seq]
        /\ s \in signed[c] \/ c \in OneSided
    BY <1>3, ClosableTypes
  <1>5. /\ Newer(c, s.seq) /\ channel[c].state = "Open"
        /\ UNCHANGED <<now, admin, count, towers, bounty, bountyPaid, seenNonce,
                       vault, payout, debited>>
    BY <1>1 DEF InitiateClose, InState
  <1>6. /\ \A k \in Id : k # c => channel'[k] = channel[k]
        /\ channel'[c].balance_a = s.a /\ channel'[c].balance_b = s.b
        /\ channel'[c].sequence = s.seq /\ channel'[c].state = "Closing"
        /\ channel'[c].depositor = channel[c].depositor
        /\ channel'[c].counterparty = channel[c].counterparty
    BY <1>1, <1>3, <1>4, CloseEffect
  <1>7. ProtocolTypeOK'
    BY <1>1, <1>2, <1>3, <1>4, CloseTypes, WalletAddresses DEF ProtocolTypeOK
  <1>8. Reserved(c)' = Reserved(c) /\ PaidOut(c)' = PaidOut(c)
    BY <1>5 DEF Reserved, PaidOut
  <1>9. Recorded(c)' = s
    BY <1>4, <1>6 DEF Recorded
  <1>10. /\ ProtocolInv(c)'
         /\ Agreed(c) /\ Agreed(c)' => channel'[c].balance_b >= channel[c].balance_b
    <2>1. CASE s \in signed[c]
      BY <1>2, <1>3, <1>5, <1>6, <1>8, <2>1, Accept
    <2>2. CASE s \notin signed[c]
      <3>1. ~Agreed(c)'
        BY <1>2, <1>6, <1>9, <2>2 DEF Agreed, InState
      <3>2. ProtocolInv(c)'
        BY <1>2, <1>4, <1>5, <1>6, <1>8, <2>2, <3>1, CloseAlone
      <3> QED
        BY <3>1, <3>2
    <2> QED
      BY <2>1, <2>2
  <1>11. Only(c)
    BY <1>2, <1>5, <1>6 DEF Only
  <1>12. Moves(c)
    BY <1>2, <1>5, <1>8, ProtocolTypes DEF Moves, PInv
  <1> QED
    BY <1>2, <1>3, <1>5, <1>7, <1>8, <1>10, <1>11, <1>12 DEF Step

LEMMA ChallengeStep ==
    ASSUME PInv, NEW c \in Id, NEW s \in signed[c], Challenge(c, s)
    PROVE  Step(c)
  <1>1. /\ Dispute(c, s.a, s.b, s.seq, Alice, Bob)
        /\ UNCHANGED <<signed, deposited>>
    BY DEF Challenge
  <1>2. ProtocolTypeOK /\ TypeOK /\ s.a \in Nat /\ s.b \in Nat /\ s.seq \in Nat
        /\ PaidOut(c) \in Nat /\ Reserved(c) \in Nat
    BY ProtocolTypes DEF PInv, ProtocolTypeOK
  <1>3. /\ Newer(c, s.seq) /\ channel[c].state = "Closing"
        /\ UNCHANGED <<now, admin, count, towers, bounty, bountyPaid, seenNonce,
                       vault, payout, debited>>
        /\ Record(c, s.a, s.b, s.seq, "Dispute")
    BY <1>1 DEF Dispute, Disputable, InState
  <1>4. /\ \A k \in Id : k # c => channel'[k] = channel[k]
        /\ channel'[c].balance_a = s.a /\ channel'[c].balance_b = s.b
        /\ channel'[c].sequence = s.seq /\ channel'[c].state = "Dispute"
        /\ channel'[c].depositor = channel[c].depositor
        /\ channel'[c].counterparty = channel[c].counterparty
    BY <1>2, <1>3, RecordEffect DEF States
  <1>5. ProtocolTypeOK'
    BY <1>1, <1>2, DisputeTypes, WalletAddresses DEF ProtocolTypeOK
  <1>6. Reserved(c)' = Reserved(c) /\ PaidOut(c)' = PaidOut(c)
    BY <1>3 DEF Reserved, PaidOut
  <1>7. ProtocolInv(c)' /\ (Agreed(c) => channel'[c].balance_b >= channel[c].balance_b)
    BY <1>1, <1>2, <1>3, <1>4, <1>6, Accept
  <1>8. Only(c)
    BY <1>1, <1>3, <1>4 DEF Only
  <1>9. Moves(c)
    BY <1>1, <1>3, <1>6, ProtocolTypes DEF Moves, PInv
  <1> QED
    BY <1>1, <1>2, <1>3, <1>4, <1>5, <1>6, <1>7, <1>8, <1>9 DEF Step

\* The watchtower's submission also pays it what the bounty still reserved.
LEMMA TowerStep ==
    ASSUME PInv, NEW c \in Id, NEW s \in signed[c], TowerSubmit(c, s)
    PROVE  Step(c)
  <1>1. /\ WatchtowerSubmit(c, Tower, s.a, s.b, s.seq, Alice, Bob)
        /\ UNCHANGED <<signed, deposited>>
    BY DEF TowerSubmit
  <1>2. ProtocolTypeOK /\ TypeOK /\ s.a \in Nat /\ s.b \in Nat /\ s.seq \in Nat
        /\ PaidOut(c) \in Nat /\ Reserved(c) \in Nat /\ bounty[c] \in Nat
        /\ \A x \in Wallets : x \in Addr /\ payout[c][x] \in Nat
    BY ProtocolTypes DEF PInv, ProtocolTypeOK
  <1>3. /\ Newer(c, s.seq) /\ channel[c].state \in {"Closing", "Dispute"}
        /\ UNCHANGED <<now, admin, count, towers, bounty, seenNonce, debited>>
        /\ Record(c, s.a, s.b, s.seq, "Dispute") /\ EarnBounty(c, Tower)
    BY <1>1 DEF WatchtowerSubmit, InState
  <1>4. /\ \A k \in Id : k # c => channel'[k] = channel[k]
        /\ channel'[c].balance_a = s.a /\ channel'[c].balance_b = s.b
        /\ channel'[c].sequence = s.seq /\ channel'[c].state = "Dispute"
        /\ channel'[c].depositor = channel[c].depositor
        /\ channel'[c].counterparty = channel[c].counterparty
    BY <1>2, <1>3, RecordEffect DEF States
  <1>5. /\ \A j \in Id : j # c => payout'[j] = payout[j] /\ bountyPaid'[j] = bountyPaid[j]
        /\ bountyPaid'[c] <=> (bountyPaid[c] \/ bounty[c] > 0)
        /\ payout'[c][Tower] = payout[c][Tower] + Reserved(c)
        /\ payout'[c][Alice] = payout[c][Alice] /\ payout'[c][Bob] = payout[c][Bob]
    BY <1>2, <1>3, EarnEffect, WalletAddresses, Distinct
  <1>6. ProtocolTypeOK'
    BY <1>1, <1>2, WatchtowerTypes, WalletAddresses DEF ProtocolTypeOK
  <1>7. Reserved(c)' = 0
    <2>1. bounty'[c] = bounty[c]
      BY <1>3
    <2> QED
      BY <1>2, <1>5, <2>1 DEF Reserved
  <1>8. PaidOut(c)' = PaidOut(c) + Reserved(c)
    BY <1>2, <1>5 DEF PaidOut, Wallets
  <1>9. ProtocolInv(c)' /\ (Agreed(c) => channel'[c].balance_b >= channel[c].balance_b)
    <2>1. Reserved(c)' + PaidOut(c)' = Reserved(c) + PaidOut(c)
      BY <1>2, <1>7, <1>8
    <2>2. Reserved(c)' \in Nat /\ PaidOut(c)' \in Nat
      BY <1>2, <1>7, <1>8
    <2>3. UNCHANGED <<count, towers, bounty, signed, deposited>>
      BY <1>1, <1>3
    <2> QED
      BY <1>3, <1>4, <2>1, <2>2, <2>3, Accept
  <1>10. Only(c)
    BY <1>1, <1>3, <1>4, <1>5 DEF Only
  <1>11. Moves(c)
    <2>1. vault' = vault - Reserved(c) /\ vault \in Nat /\ deposited[c] \in Nat
      BY <1>2, <1>3, ProtocolTypes DEF EarnBounty
    <2> QED
      BY <1>1, <1>2, <1>8, <2>1 DEF Moves
  <1> QED
    BY <1>1, <1>2, <1>3, <1>4, <1>6, <1>8, <1>9, <1>10, <1>11 DEF Step

\* The quiesced wallets use the ledger only while nothing is outstanding.
LEMMA DepositStep ==
    ASSUME Quiesced, PInv, NEW c \in Id, NEW amount \in Amount, Deposit(c, amount)
    PROVE  Step(c)
  <1>1. /\ Pending(c) = {} /\ TopUp(c, amount, Alice) /\ UNCHANGED signed
        /\ deposited' = [deposited EXCEPT ![c] = @ + amount]
    BY DEF Deposit, MayUseLedger
  <1>2. /\ ProtocolTypeOK /\ TypeOK /\ ProtocolInv(c) /\ amount \in Nat
        /\ PaidOut(c) \in Nat /\ Reserved(c) \in Nat /\ deposited[c] \in Nat
        /\ channel[c].balance_a \in Int /\ channel[c].balance_b \in Int
        /\ channel[c].sequence \in Nat
    BY ProtocolTypes, InputTypes DEF PInv, ProtocolTypeOK
  <1>3. /\ channel[c].state = "Open" /\ amount > 0 /\ Credit(c, amount)
        /\ UNCHANGED <<now, admin, count, towers, bounty, bountyPaid, seenNonce,
                       payout, debited>>
    BY <1>1 DEF TopUp, InState
  <1>4. /\ \A k \in Id : k # c => channel'[k] = channel[k]
        /\ channel'[c].balance_a = channel[c].balance_a + amount
        /\ channel'[c].balance_b = channel[c].balance_b
        /\ channel'[c].sequence = channel[c].sequence
        /\ channel'[c].state = channel[c].state
        /\ channel'[c].depositor = channel[c].depositor
        /\ channel'[c].counterparty = channel[c].counterparty
    BY <1>2, <1>3, CreditEffect
  <1>5. /\ deposited' \in [Id -> Nat] /\ deposited'[c] = deposited[c] + amount
        /\ \A k \in Id : k # c => deposited'[k] = deposited[k]
    BY <1>1, <1>2 DEF ProtocolTypeOK
  <1>6. ProtocolTypeOK'
    <2>1. Next
      BY <1>1, WalletAddresses DEF Next, Spend
    <2>2. TypeOK'
      BY <1>2, <2>1, NextTypes
    <2> QED
      BY <1>1, <1>2, <1>5, <2>2 DEF ProtocolTypeOK
  <1>7. Reserved(c)' = Reserved(c) /\ PaidOut(c)' = PaidOut(c)
    BY <1>3 DEF Reserved, PaidOut
  <1>8. ProtocolInv(c)'
    <2>1. /\ channel[c].balance_a \in Nat /\ channel[c].balance_b \in Nat
          /\ channel[c].balance_a + channel[c].balance_b + Reserved(c) + PaidOut(c)
                 = deposited[c]
      BY <1>3, OpenFunded
    <2>2. channel'[c].balance_a + channel'[c].balance_b + Reserved(c)' + PaidOut(c)
              = deposited'[c]
      BY <1>2, <1>4, <1>5, <1>7, <2>1
    <2>3. /\ channel'[c].balance_a \in Nat /\ channel'[c].balance_b \in Nat
          /\ Reserved(c)' \in Nat
      BY <1>2, <1>4, <1>7, <2>1
    <2>4. towers'[c] \subseteq {Tower} /\ UNCHANGED <<count, signed>>
      BY <1>1, <1>2, <1>3 DEF ProtocolInv
    <2>5. channel'[c].sequence \in Nat /\ channel'[c].sequence >= channel[c].sequence
      BY <1>2, <1>4
    <2> QED
      BY <1>1, <1>3, <1>4, <1>7, <2>2, <2>3, <2>4, <2>5, Adjust
  <1>9. Only(c)
    BY <1>1, <1>3, <1>4, <1>5 DEF Only
  <1>10. /\ channel'[c].balance_b >= channel[c].balance_b
         /\ deposited'[c] > deposited[c] /\ channel'[c].state # "Closed"
    BY <1>2, <1>3, <1>4, <1>5
  <1>11. Moves(c)
    <2>1. vault' = vault + amount /\ vault \in Nat
      BY <1>1, <1>2 DEF TopUp, TypeOK
    <2> QED
      BY <1>2, <1>5, <1>7, <2>1 DEF Moves
  <1> QED
    BY <1>3, <1>6, <1>7, <1>8, <1>9, <1>10, <1>11 DEF Step

LEMMA ProofSpendStep ==
    ASSUME Quiesced, PInv, NEW c \in Id, NEW n \in Nonce, NEW amount \in Amount,
           ProofSpend(c, n, amount)
    PROVE  Step(c)
  <1>1. /\ Pending(c) = {} /\ VerifyPaymentProof(c, n, now, amount, Alice, Alice, Bob)
        /\ UNCHANGED <<signed, deposited>>
    BY DEF ProofSpend, MayUseLedger
  <1>2. /\ ProtocolTypeOK /\ TypeOK /\ ProtocolInv(c) /\ amount \in Nat
        /\ PaidOut(c) \in Nat /\ Reserved(c) \in Nat /\ deposited[c] \in Nat
        /\ channel[c].balance_a \in Int /\ channel[c].balance_b \in Int
        /\ channel[c].sequence \in Nat /\ now \in 0..MaxTime
    BY ProtocolTypes, InputTypes DEF PInv, ProtocolTypeOK, TypeOK
  <1>3. /\ channel[c].state = "Open" /\ amount > 0 /\ channel[c].balance_a >= amount
        /\ Record(c, channel[c].balance_a - amount, channel[c].balance_b + amount,
                  channel[c].sequence + 1, "Open")
        /\ UNCHANGED <<now, admin, count, towers, bounty, bountyPaid, vault, payout>>
    BY <1>1 DEF VerifyPaymentProof, InState
  <1>4. /\ \A k \in Id : k # c => channel'[k] = channel[k]
        /\ channel'[c].balance_a = channel[c].balance_a - amount
        /\ channel'[c].balance_b = channel[c].balance_b + amount
        /\ channel'[c].sequence = channel[c].sequence + 1
        /\ channel'[c].state = "Open"
        /\ channel'[c].depositor = channel[c].depositor
        /\ channel'[c].counterparty = channel[c].counterparty
    <2>1. /\ channel[c].balance_a - amount \in Int /\ channel[c].balance_b + amount \in Int
          /\ channel[c].sequence + 1 \in Nat
      BY <1>2
    <2> QED
      BY <1>2, <1>3, <2>1, RecordEffect DEF States
  <1>5. ProtocolTypeOK'
    <2>1. Spend(c)
      BY <1>1, <1>2, WalletAddresses DEF Spend
    <2>2. TypeOK'
      BY <1>2, <2>1, NextTypes DEF Next
    <2> QED
      BY <1>1, <1>2, <2>2 DEF ProtocolTypeOK
  <1>6. Reserved(c)' = Reserved(c) /\ PaidOut(c)' = PaidOut(c)
    BY <1>3 DEF Reserved, PaidOut
  <1>7. ProtocolInv(c)'
    <2>1. /\ channel[c].balance_a \in Nat /\ channel[c].balance_b \in Nat
          /\ channel[c].balance_a + channel[c].balance_b + Reserved(c) + PaidOut(c)
                 = deposited[c]
      BY <1>3, OpenFunded
    <2>2. channel'[c].balance_a + channel'[c].balance_b + Reserved(c)' + PaidOut(c)
              = deposited'[c]
      BY <1>1, <1>2, <1>4, <1>6, <2>1
    <2>3. /\ channel'[c].balance_a \in Nat /\ channel'[c].balance_b \in Nat
          /\ Reserved(c)' \in Nat
      BY <1>2, <1>3, <1>4, <1>6, <2>1
    <2>4. towers'[c] \subseteq {Tower} /\ UNCHANGED <<count, signed>>
      BY <1>1, <1>2, <1>3 DEF ProtocolInv
    <2>5. channel'[c].sequence \in Nat /\ channel'[c].sequence >= channel[c].sequence
      BY <1>2, <1>4
    <2> QED
      BY <1>1, <1>3, <1>4, <1>6, <2>2, <2>3, <2>4, <2>5, Adjust
  <1>8. Only(c)
    BY <1>1, <1>3, <1>4 DEF Only
  <1>9. channel'[c].balance_b >= channel[c].balance_b
    BY <1>2, <1>4
  <1>10. Moves(c)
    BY <1>1, <1>3, <1>6, ProtocolTypes DEF Moves, PInv
  <1> QED
    BY <1>1, <1>2, <1>3, <1>5, <1>6, <1>7, <1>8, <1>9, <1>10 DEF Step

\* Reserving a bounty moves it from the depositor's side to the reserve.
LEMMA WatchStep ==
    ASSUME Quiesced, PInv, NEW c \in Id, NEW amount \in Amount, Watch(c, amount)
    PROVE  Step(c)
  <1>1. /\ Pending(c) = {} /\ RegisterWatchtower(c, Alice, Tower, amount)
        /\ UNCHANGED <<signed, deposited>>
    BY DEF Watch, MayUseLedger
  <1>2. /\ ProtocolTypeOK /\ TypeOK /\ ProtocolInv(c) /\ amount \in Nat
        /\ PaidOut(c) \in Nat /\ Reserved(c) \in Nat /\ deposited[c] \in Nat
        /\ channel[c].balance_a \in Int /\ channel[c].balance_b \in Int
        /\ channel[c].sequence \in Nat /\ bounty[c] \in Nat
    BY ProtocolTypes, InputTypes DEF PInv, ProtocolTypeOK
  <1>3. /\ channel[c].state = "Open"
        /\ towers' = [towers EXCEPT ![c] = @ \cup {Tower}]
        /\ UNCHANGED <<now, admin, count, seenNonce, vault, payout, debited>>
    BY <1>1 DEF RegisterWatchtower, InState
  <1>4. towers'[c] \subseteq {Tower} /\ \A k \in Id : k # c => towers'[k] = towers[k]
    BY <1>2, <1>3 DEF TypeOK, ProtocolInv
  <1>5. /\ \A k \in Id : k # c => /\ channel'[k] = channel[k] /\ bounty'[k] = bounty[k]
                                  /\ (bountyPaid'[k] <=> bountyPaid[k])
        /\ channel'[c].balance_a + Reserved(c)' = channel[c].balance_a + Reserved(c)
        /\ channel'[c].balance_a \in Int /\ channel'[c].balance_a >= 0
        /\ Reserved(c)' \in Nat
        /\ channel'[c].balance_b = channel[c].balance_b
        /\ channel'[c].sequence = channel[c].sequence
        /\ channel'[c].state = channel[c].state
        /\ channel'[c].depositor = channel[c].depositor
        /\ channel'[c].counterparty = channel[c].counterparty
    <2>1. CASE amount > 0
      <3>1. /\ Credit(c, -amount) /\ bounty[c] = 0 /\ amount <= channel[c].balance_a
            /\ bounty' = [bounty EXCEPT ![c] = amount]
            /\ bountyPaid' = [bountyPaid EXCEPT ![c] = FALSE]
        BY <1>1, <2>1 DEF RegisterWatchtower, ReserveBounty
      <3>2. -amount \in Int
        BY <1>2
      <3>3. /\ \A k \in Id : k # c => channel'[k] = channel[k]
            /\ channel'[c].balance_a = channel[c].balance_a + (-amount)
            /\ channel'[c].balance_b = channel[c].balance_b
            /\ channel'[c].sequence = channel[c].sequence
            /\ channel'[c].state = channel[c].state
            /\ channel'[c].depositor = channel[c].depositor
            /\ channel'[c].counterparty = channel[c].counterparty
        BY <1>2, <3>1, <3>2, CreditEffect
      <3>4. /\ bounty'[c] = amount /\ ~bountyPaid'[c]
            /\ \A k \in Id : k # c => bounty'[k] = bounty[k] /\ bountyPaid'[k] = bountyPaid[k]
        BY <1>2, <3>1 DEF TypeOK
      <3>5. Reserved(c) = 0 /\ Reserved(c)' = amount
        BY <3>1, <3>4 DEF Reserved
      <3> QED
        BY <1>2, <3>1, <3>3, <3>4, <3>5
    <2>2. CASE ~(amount > 0)
      <3>1. UNCHANGED <<channel, bounty, bountyPaid>>
        BY <1>1, <2>2 DEF RegisterWatchtower
      <3>2. Reserved(c)' = Reserved(c)
        BY <3>1 DEF Reserved
      <3> QED
        BY <1>2, <1>3, <3>1, <3>2, OpenFunded
    <2> QED
      BY <2>1, <2>2
  <1>6. ProtocolTypeOK'
    <2>1. ManageWatchtowers(c)
      BY <1>1, WalletAddresses DEF ManageWatchtowers
    <2>2. TypeOK'
      BY <1>2, <2>1, NextTypes DEF Next
    <2> QED
      BY <1>1, <1>2, <2>2 DEF ProtocolTypeOK
  <1>7. PaidOut(c)' = PaidOut(c)
    BY <1>3 DEF PaidOut
  <1>8. ProtocolInv(c)'
    <2>1. /\ channel[c].balance_a \in Nat /\ channel[c].balance_b \in Nat
          /\ channel[c].balance_a + channel[c].balance_b + Reserved(c) + PaidOut(c)
                 = deposited[c]
      BY <1>3, OpenFunded
    <2>2. channel'[c].balance_a + channel'[c].balance_b + Reserved(c)' + PaidOut(c)
              = deposited'[c]
      BY <1>1, <1>2, <1>5, <2>1
    <2>3. /\ channel'[c].balance_a \in Nat /\ channel'[c].balance_b \in Nat
          /\ Reserved(c)' \in Nat /\ UNCHANGED <<count, signed>>
      BY <1>1, <1>3, <1>5, <2>1
    <2>4. channel'[c].sequence \in Nat /\ channel'[c].sequence >= channel[c].sequence
      BY <1>2, <1>5
    <2> QED
      BY <1>1, <1>3, <1>4, <1>5, <1>7, <2>2, <2>3, <2>4, Adjust
  <1>9. Only(c)
    BY <1>1, <1>3, <1>4, <1>5 DEF Only
  <1>10. channel'[c].balance_b >= channel[c].balance_b
    BY <1>2, <1>5
  <1>11. Moves(c)
    BY <1>1, <1>3, <1>7, ProtocolTypes DEF Moves, PInv
  <1> QED
    BY <1>1, <1>2, <1>3, <1>6, <1>7, <1>8, <1>9, <1>10, <1>11 DEF Step

\* Only one tower is ever registered, so its departure returns the whole bounty.
LEMMA UnwatchStep ==
    ASSUME Quiesced, PInv, NEW c \in Id, Unwatch(c)
    PROVE  Step(c)
  <1>1. /\ Pending(c) = {} /\ DeregisterWatchtower(c, Alice, Tower)
        /\ UNCHANGED <<signed, deposited>>
    BY DEF Unwatch, MayUseLedger
  <1>2. /\ ProtocolTypeOK /\ TypeOK /\ ProtocolInv(c)
        /\ PaidOut(c) \in Nat /\ Reserved(c) \in Nat /\ deposited[c] \in Nat
        /\ channel[c].balance_a \in Int /\ channel[c].balance_b \in Int
        /\ channel[c].sequence \in Nat /\ bounty[c] \in Nat
    BY ProtocolTypes DEF PInv, ProtocolTypeOK
  <1>3. /\ channel[c].state = "Open" /\ Tower \in towers[c]
        /\ towers' = [towers EXCEPT ![c] = @ \ {Tower}]
        /\ Credit(c, BountyRefund(c, Tower))
        /\ bounty' = [bounty EXCEPT ![c] = IF BountyRefund(c, Tower) > 0 THEN 0 ELSE @]
        /\ UNCHANGED <<now, admin, count, bountyPaid, seenNonce, vault, payout, debited>>
    BY <1>1 DEF DeregisterWatchtower, InState
  <1>4. BountyRefund(c, Tower) = Reserved(c)
    <2>1. towers[c] = {Tower}
      BY <1>2, <1>3 DEF ProtocolInv
    <2> QED
      BY <2>1 DEF BountyRefund
  <1>5. towers'[c] \subseteq {Tower} /\ \A k \in Id : k # c => towers'[k] = towers[k]
    BY <1>2, <1>3 DEF TypeOK, ProtocolInv
  <1>6. /\ \A k \in Id : k # c => channel'[k] = channel[k]
        /\ channel'[c].balance_a = channel[c].balance_a + Reserved(c)
        /\ channel'[c].balance_b = channel[c].balance_b
        /\ channel'[c].sequence = channel[c].sequence
        /\ channel'[c].state = channel[c].state
        /\ channel'[c].depositor = channel[c].depositor
        /\ channel'[c].counterparty = channel[c].counterparty
    <2>1. Credit(c, Reserved(c))
      BY <1>3, <1>4
    <2> QED
      BY <1>2, <2>1, CreditEffect
  <1>7. /\ bounty'[c] = IF Reserved(c) > 0 THEN 0 ELSE bounty[c]
        /\ \A k \in Id : k # c => bounty'[k] = bounty[k]
    BY <1>2, <1>3, <1>4 DEF TypeOK
  <1>8. Reserved(c)' = 0
    <2>1. bountyPaid'[c] = bountyPaid[c]
      BY <1>3
    <2> QED
      BY <1>2, <1>7, <2>1 DEF Reserved
  <1>9. ProtocolTypeOK'
    <2>1. ManageWatchtowers(c)
      BY <1>1, WalletAddresses DEF ManageWatchtowers
    <2>2. TypeOK'
      BY <1>2, <2>1, NextTypes DEF Next
    <2> QED
      BY <1>1, <1>2, <2>2 DEF ProtocolTypeOK
  <1>10. PaidOut(c)' = PaidOut(c)
    BY <1>3 DEF PaidOut
  <1>11. ProtocolInv(c)'
    <2>1. /\ channel[c].balance_a \in Nat /\ channel[c].balance_b \in Nat
          /\ channel[c].balance_a + channel[c].balance_b + Reserved(c) + PaidOut(c)
                 = deposited[c]
      BY <1>3, OpenFunded
    <2>2. channel'[c].balance_a + channel'[c].balance_b + Reserved(c)' + PaidOut(c)
              = deposited'[c]
      BY <1>1, <1>2, <1>6, <1>8, <2>1
    <2>3. /\ channel'[c].balance_a \in Nat /\ channel'[c].balance_b \in Nat
          /\ Reserved(c)' \in Nat
      BY <1>2, <1>6, <1>8, <2>1
    <2>4. channel'[c].sequence \in Nat /\ channel'[c].sequence >= channel[c].sequence
      BY <1>2, <1>6
    <2>5. UNCHANGED <<count, signed>>
      BY <1>1, <1>3
    <2> QED
      BY <1>1, <1>3, <1>5, <1>6, <1>10, <2>2, <2>3, <2>4, <2>5, Adjust
  <1>12. Only(c)
    BY <1>1, <1>3, <1>5, <1>6, <1>7 DEF Only
  <1>13. channel'[c].balance_b >= channel[c].balance_b
    BY <1>2, <1>6
  <1>14. Moves(c)
    BY <1>1, <1>3, <1>10, ProtocolTypes DEF Moves, PInv
  <1> QED
    BY <1>1, <1>2, <1>3, <1>9, <1>10, <1>11, <1>12, <1>13, <1>14 DEF Step

\* Finalize pays out what is recorded and the bounty nobody earned, which is all a
\* channel holds if both parties agreed to the record.
LEMMA PayStep ==
    ASSUME PInv, NEW c \in Id, Pay(c)
    PROVE  Step(c)
  <1>1. Finalize(c, channel[c].sequence) /\ UNCHANGED <<signed, deposited>>
    BY DEF Pay
  <1>2. /\ ProtocolTypeOK /\ TypeOK /\ ProtocolInv(c)
        /\ PaidOut(c) \in Nat /\ Reserved(c) \in Nat /\ deposited[c] \in Nat
        /\ channel[c].balance_a \in Int /\ channel[c].balance_b \in Int
        /\ channel[c].sequence \in Nat
        /\ \A x \in Wallets : x \in Addr /\ payout[c][x] \in Nat
    BY ProtocolTypes DEF PInv, ProtocolTypeOK
  <1>3. /\ channel[c].state \in {"Closing", "Dispute"}
        /\ Record(c, channel[c].balance_a, channel[c].balance_b,
                  channel[c].sequence, "Closed")
        /\ payout' = [payout EXCEPT ![c] =
                          [x \in Addr |-> payout[c][x] + Settlement(c, x)]]
        /\ UNCHANGED <<now, admin, count, towers, bounty, bountyPaid, seenNonce, debited>>
    BY <1>1 DEF Finalize, Settleable, InState
  <1>4. /\ \A k \in Id : k # c => channel'[k] = channel[k]
        /\ channel'[c].balance_a = channel[c].balance_a
        /\ channel'[c].balance_b = channel[c].balance_b
        /\ channel'[c].sequence = channel[c].sequence
        /\ channel'[c].state = "Closed"
        /\ channel'[c].depositor = channel[c].depositor
        /\ channel'[c].counterparty = channel[c].counterparty
    BY <1>2, <1>3, RecordEffect DEF States
  <1>5. /\ channel[c].depositor = Alice /\ channel[c].counterparty = Bob
    BY <1>2, <1>3 DEF ProtocolInv
  <1>6. /\ Settlement(c, Alice) = Positive(channel[c].balance_a) + Reserved(c)
        /\ Settlement(c, Bob) = Positive(channel[c].balance_b)
        /\ Settlement(c, Tower) = 0
        /\ Positive(channel[c].balance_a) \in Nat /\ Positive(channel[c].balance_b) \in Nat
    BY <1>2, <1>5, Distinct DEF Settlement, Positive
  <1>7. /\ \A x \in Addr : payout'[c][x] = payout[c][x] + Settlement(c, x)
        /\ \A k \in Id : k # c => payout'[k] = payout[k]
    BY <1>2, <1>3 DEF TypeOK
  <1>8. PaidOut(c)' = PaidOut(c) + Total(c) /\ Total(c) \in Nat
    BY <1>2, <1>6, <1>7 DEF PaidOut, Wallets, Total
  <1>9. ProtocolTypeOK'
    BY <1>1, <1>2, FinalizeTypes DEF ProtocolTypeOK
  <1>10. Agreed(c)' <=> Agreed(c)
    <2>1. Recorded(c)' = Recorded(c) /\ signed'[c] = signed[c]
      BY <1>1, <1>4 DEF Recorded
    <2> QED
      BY <1>3, <1>4, <2>1 DEF Agreed, InState
  <1>11. ASSUME Agreed(c) PROVE Funded(c)'
    <2>1. /\ channel[c].balance_a >= 0 /\ channel[c].balance_b >= 0
          /\ Locked(c) + PaidOut(c) = deposited[c]
      BY <1>2, <1>11 DEF ProtocolInv, Funded
    <2>2. Locked(c) = Total(c)
      BY <1>2, <1>3, <2>1 DEF Locked, InState, Total, Positive
    <2>3. Locked(c)' = 0
      BY <1>4 DEF Locked, InState
    <2>4. Locked(c)' + PaidOut(c)' = deposited'[c]
      BY <1>1, <1>2, <1>8, <2>1, <2>2, <2>3
    <2> QED
      BY <1>4, <2>1, <2>4 DEF Funded
  <1>12. ProtocolInv(c)'
    <2>1. Pending(c)' = Pending(c)
      BY <1>1, <1>4 DEF Pending
    <2>2. Ordered(c)'
      BY <1>2, <1>4, <1>10, <2>1 DEF ProtocolInv, Ordered
    <2> QED
      BY <1>1, <1>2, <1>3, <1>4, <1>5, <1>10, <1>11, <2>2 DEF ProtocolInv
  <1>13. Only(c)
    BY <1>1, <1>3, <1>4, <1>7 DEF Only
  <1>14. channel'[c].balance_b >= channel[c].balance_b /\ PaidOut(c)' >= PaidOut(c)
    BY <1>2, <1>4, <1>8
  <1>15. Moves(c)
    <2>1. vault' = vault - Total(c)
      BY <1>1 DEF Finalize
    <2>2. vault \in Nat
      BY <1>2 DEF TypeOK
    <2> QED
      BY <1>1, <1>2, <1>8, <2>1, <2>2 DEF Moves
  <1> QED
    BY <1>1, <1>3, <1>9, <1>12, <1>13, <1>14, <1>15 DEF Step

\* Nothing but the clock moves.
Still == UNCHANGED <<count, channel, towers, bounty, bountyPaid, vault, payout, signed,
                     deposited>>

LEMMA StillStep ==
    ASSUME PInv, Still, ProtocolTypeOK'
    PROVE  PInv'
  <1> SUFFICES ASSUME NEW c \in Id PROVE ProtocolInv(c)'
    BY DEF PInv
  <1>1. ProtocolInv(c)
    BY DEF PInv
  <1>2. Reserved(c)' = Reserved(c) /\ PaidOut(c)' = PaidOut(c) /\ Pending(c)' = Pending(c)
    BY DEF Reserved, PaidOut, Pending, Still
  <1>3. Locked(c)' = Locked(c)
    BY <1>2 DEF Locked, InState, Still
  <1>4. Agreed(c)' <=> Agreed(c)
    BY DEF Agreed, Recorded, InState, Still
  <1>5. Ordered(c)'
    BY <1>1, <1>2, <1>4 DEF ProtocolInv, Ordered, Still
  <1>6. Agreed(c)' => Funded(c)'
    BY <1>1, <1>2, <1>3, <1>4 DEF ProtocolInv, Funded, Still
  <1> QED
    BY <1>1, <1>2, <1>4, <1>5, <1>6 DEF ProtocolInv, Still

\* Every step is the clock's or one of these.
LEMMA EveryStep ==
    ASSUME Quiesced, PInv, [ProtocolNext]_pvars
    PROVE  (Still /\ ProtocolTypeOK') \/ \E c \in Id : Step(c)
  <1>1. CASE UNCHANGED pvars
    BY <1>1 DEF PInv, ProtocolTypeOK, TypeOK, Still, pvars, vars
  <1>2. ASSUME NEW amount \in Amount, NEW window \in Windows, Open(amount, window)
        PROVE  \E c \in Id : Step(c)
    BY <1>2, OpenStep
  <1>3. ASSUME NEW c \in Id, (\E amount \in Amount : Renew(c, amount)) \/ UseLedger(c) \/ Pay(c)
        PROVE  \E k \in Id : Step(k)
    BY <1>3, RenewStep, DepositStep, WatchStep, ProofSpendStep, UnwatchStep, PayStep
       DEF UseLedger
  <1>4. ASSUME NEW c \in Id, NEW s \in signed[c], UseState(c, s)
        PROVE  \E k \in Id : Step(k)
    BY <1>4, SubmitStep, ChallengeStep, TowerStep DEF UseState
  <1>5. ASSUME NEW c \in Id, NEW s \in Closable(c), Close(c, s)
        PROVE  \E k \in Id : Step(k)
    BY <1>5, CloseStep
  <1>6. CASE Pass
    <2>1. Tick /\ UNCHANGED <<signed, deposited>>
      BY <1>6 DEF Pass
    <2>2. TypeOK'
      BY <2>1, NextTypes DEF Next, PInv, ProtocolTypeOK
    <2> QED
      BY <2>1, <2>2 DEF Still, Tick, PInv, ProtocolTypeOK
  <1> QED
    BY <1>1, <1>2, <1>3, <1>4, <1>5, <1>6 DEF ProtocolNext

LEMMA StepInv ==
    ASSUME PInv, NEW c \in Id, Step(c)
    PROVE  PInv'
  BY OtherChannels DEF Step, PInv

LEMMA NextPInv ==
    ASSUME Quiesced, PInv, [ProtocolNext]_pvars
    PROVE  PInv'
  BY EveryStep, StillStep, StepInv

-----------------------------------------------------------------------------
(* The theorems.                                                            *)

\* The invariant above holds of every reachable state.
THEOREM Disciplined == ASSUME Quiesced PROVE ProtocolSpec => []PInv
  BY InitPInv, NextPInv, PTL DEF ProtocolSpec

\* docs/privacy/payment-channel-protocol.md:247: whatever co-signed states the
\* parties and the watchtower submit, in whatever order and after whatever closes
\* of one party alone, what a channel with an agreed record still holds and what it
\* has paid out add up to what was deposited into it.
THEOREM FundsConserved == ASSUME Quiesced PROVE ProtocolSpec => []Conserved
  <1>1. PInv => Conserved
    BY DEF PInv, ProtocolInv, Funded, Conserved
  <1> QED
    BY <1>1, Disciplined, PTL

\* The executor's side never shrinks from one agreed record to the next: what
\* lowers it is a close under contents only the other party signed, and nothing
\* else.
THEOREM ExecutorSafe == ASSUME Quiesced PROVE ProtocolSpec => ExecutorNeverLoses
  <1>1. ASSUME PInv, [ProtocolNext]_pvars
        PROVE  [\A c \in Id : ~InState(c, {"Absent"}) /\ Agreed(c) /\ Agreed(c)' =>
                    channel'[c].balance_b >= channel[c].balance_b]_pvars
    <2>1. ASSUME NEW c \in Id, ~InState(c, {"Absent"}), Agreed(c), Agreed(c)'
          PROVE  channel'[c].balance_b >= channel[c].balance_b
      <3>1. channel[c].balance_b \in Int
        BY <1>1, ProtocolTypes DEF PInv
      <3>2. CASE Still
        BY <3>1, <3>2 DEF Still
      <3>3. ASSUME NEW k \in Id, Step(k)
            PROVE  channel'[c].balance_b >= channel[c].balance_b
        <4>1. CASE k = c
          BY <2>1, <3>3, <4>1 DEF Step, InState
        <4>2. CASE k # c
          BY <3>1, <3>3, <4>2 DEF Step, Only
        <4> QED
          BY <4>1, <4>2
      <3> QED
        BY <1>1, <3>2, <3>3, EveryStep
    <2> QED
      BY <2>1
  <1> QED
    BY <1>1, Disciplined, PTL DEF ProtocolSpec, ExecutorNeverLoses

-----------------------------------------------------------------------------
(* The channels implement ChannelLedger.                                    *)

HeldBy == [c \in Id |-> Owed(c)]
PaidBy == [c \in Id |-> PaidOut(c)]
SettledBy == [c \in Id |-> InState(c, {"Closed"})]

\* Two functions that differ at c only.
LEMMA Differ ==
    ASSUME NEW S, NEW f, NEW g, NEW c \in S, f = [x \in S |-> f[x]], g = [x \in S |-> g[x]],
           \A k \in S : k # c => g[k] = f[k]
    PROVE  g = [f EXCEPT ![c] = g[c]]
  BY Zenon

LEMMA LedgerStill ==
    ASSUME Still PROVE UNCHANGED Ledger!lvars
  <1>1. \A c \in Id : PaidOut(c)' = PaidOut(c)
    BY DEF Still, PaidOut
  <1>2. \A c \in Id : Owed(c)' = Owed(c)
    BY <1>1 DEF Still, Owed, InState
  <1>3. UNCHANGED HeldBy /\ UNCHANGED PaidBy
    BY <1>1, <1>2 DEF HeldBy, PaidBy
  <1>4. UNCHANGED SettledBy
    BY DEF SettledBy, InState, Still
  <1> QED
    BY <1>3, <1>4 DEF Ledger!lvars, HeldBy, PaidBy, SettledBy, Still

\* What a channel owes is what was deposited and not paid out, until it settles.
LEMMA OwedIs ==
    ASSUME PInv, NEW c \in Id
    PROVE  /\ Owed(c) \in Nat /\ PaidOut(c) \in Nat /\ deposited[c] \in Nat
           /\ channel[c].state # "Closed" => Owed(c) = deposited[c] - PaidOut(c)
           /\ channel[c].state = "Closed" => Owed(c) = 0
           /\ channel[c].state = "Closed" /\ Agreed(c) => PaidOut(c) = deposited[c]
  <1>1. /\ ProtocolInv(c) /\ PaidOut(c) \in Nat /\ deposited[c] \in Nat
        /\ Reserved(c) \in Nat /\ channel[c].state \in States
    BY ProtocolTypes DEF PInv
  <1>2. channel[c].state # "Closed" => Reserved(c) + PaidOut(c) <= deposited[c]
    BY <1>1 DEF ProtocolInv
  <1>3. CASE channel[c].state = "Closed"
    <2>1. Owed(c) = 0 /\ Locked(c) = 0
      BY <1>3 DEF Owed, Locked, InState
    <2> QED
      BY <1>1, <1>3, <2>1 DEF ProtocolInv, Funded
  <1>4. CASE channel[c].state \in {"Open", "Closing", "Dispute"}
    BY <1>1, <1>2, <1>4 DEF Owed, InState
  <1>5. CASE channel[c].state = "Absent"
    <2>1. Owed(c) = 0 /\ deposited[c] = 0 /\ PaidOut(c) = 0
      BY <1>1, <1>5 DEF Owed, InState, ProtocolInv
    <2> QED
      BY <1>5, <2>1
  <1> QED
    BY <1>1, <1>3, <1>4, <1>5 DEF States

OwedOK ==
    \A c \in Id :
        /\ Owed(c) \in Nat /\ PaidOut(c) \in Nat /\ deposited[c] \in Nat
        /\ channel[c].state # "Closed" => Owed(c) = deposited[c] - PaidOut(c)
        /\ channel[c].state = "Closed" => Owed(c) = 0
        /\ channel[c].state = "Closed" /\ Agreed(c) => PaidOut(c) = deposited[c]

LEMMA AlwaysOwed == PInv => OwedOK
  BY OwedIs DEF OwedOK

LEMMA Unsettled ==
    ASSUME NEW c \in Id, channel[c].state # "Closed", channel'[c].state # "Closed",
           \A k \in Id : k # c => channel'[k] = channel[k]
    PROVE  SettledBy' = SettledBy
  <1>1. \A k \in Id : InState(k, {"Closed"})' = InState(k, {"Closed"})
    BY DEF InState
  <1> QED
    BY <1>1, Zenon DEF SettledBy

\* A step keeps the promise of its channel, or settles it in breach of it.
LEMMA LedgerStep ==
    ASSUME PInv, OwedOK, OwedOK', NEW c \in Id, Step(c)
    PROVE  \/ Ledger!Lock(c) \/ Ledger!Release(c)
           \/ Ledger!Breach(c) /\ channel'[c].state = "Closed" /\ ~Agreed(c)'
  <1>1. /\ Owed(c) \in Nat /\ Owed(c)' \in Nat /\ PaidOut(c) \in Nat /\ PaidOut(c)' \in Nat
        /\ deposited[c] \in Nat /\ Owed(c) = deposited[c] - PaidOut(c)
        /\ deposited'[c] \in Nat
        /\ channel'[c].state # "Closed" => Owed(c)' = deposited'[c] - PaidOut(c)'
        /\ channel'[c].state = "Closed" => Owed(c)' = 0
        /\ channel'[c].state = "Closed" /\ Agreed(c)' => PaidOut(c)' = deposited'[c]
    BY DEF Step, OwedOK
  <1>2. \A k \in Id : k # c => /\ Owed(k)' = Owed(k) /\ PaidOut(k)' = PaidOut(k)
                               /\ channel'[k] = channel[k]
    <2>1. \A k \in Id : k # c => PaidOut(k)' = PaidOut(k)
      BY DEF Step, Only, PaidOut
    <2> QED
      BY <2>1 DEF Step, Only, Owed, InState
  <1>3. HeldBy' = [HeldBy EXCEPT ![c] = HeldBy'[c]]
    BY <1>2, Differ DEF HeldBy
  <1>4. PaidBy' = [PaidBy EXCEPT ![c] = PaidBy'[c]]
    BY <1>2, Differ DEF PaidBy
  <1>5. SettledBy' = [SettledBy EXCEPT ![c] = SettledBy'[c]]
    <2>1. \A k \in Id : k # c => SettledBy'[k] = SettledBy[k]
      BY <1>2 DEF SettledBy, InState
    <2> QED
      BY <2>1, Differ, Zenon DEF SettledBy
  <1>6. /\ HeldBy[c] = Owed(c) /\ HeldBy'[c] = Owed(c)'
        /\ PaidBy[c] = PaidOut(c) /\ PaidBy'[c] = PaidOut(c)'
    BY DEF HeldBy, PaidBy
  <1>7. SettledBy[c] = InState(c, {"Closed"}) /\ SettledBy'[c] = InState(c, {"Closed"})'
    BY Zenon DEF SettledBy
  <1>8. ~SettledBy[c]
    BY <1>7 DEF Step, InState
  <1>9. /\ vault' = vault + (deposited'[c] - deposited[c]) - (PaidOut(c)' - PaidOut(c))
        /\ vault \in Nat /\ vault' \in Nat
    BY ProtocolTypes DEF Step, Moves, PInv, ProtocolTypeOK, TypeOK
  <1>10. CASE deposited'[c] > deposited[c] /\ PaidOut(c)' = PaidOut(c)
             /\ channel'[c].state # "Closed"
    <2>1. HeldBy'[c] > HeldBy[c] /\ vault' = vault + HeldBy'[c] - HeldBy[c]
      BY <1>1, <1>6, <1>9, <1>10
    <2>2. PaidBy' = PaidBy
      <3>1. PaidBy'[c] = PaidBy[c]
        BY <1>6, <1>10
      <3> QED
        BY <1>4, <3>1 DEF PaidBy
    <2>3. SettledBy' = SettledBy
      BY <1>2, <1>10, Unsettled DEF Step
    <2> QED
      BY <1>3, <1>8, <2>1, <2>2, <2>3
         DEF Ledger!Lock, Ledger!Move, HeldBy, PaidBy, SettledBy
  <1>11. CASE /\ deposited'[c] = deposited[c] /\ PaidOut(c)' >= PaidOut(c)
              /\ channel'[c].state = "Closed" => Agreed(c)'
    <2>1. /\ PaidBy'[c] = PaidBy[c] + HeldBy[c] - HeldBy'[c]
          /\ 0 <= HeldBy'[c] /\ HeldBy'[c] <= HeldBy[c]
          /\ vault' = vault + HeldBy'[c] - HeldBy[c]
      BY <1>1, <1>6, <1>9, <1>11
    <2>2. PaidBy' = [PaidBy EXCEPT ![c] = @ + HeldBy[c] - HeldBy'[c]]
      <3>1. PaidBy' = [PaidBy EXCEPT ![c] = PaidBy[c] + HeldBy[c] - HeldBy'[c]]
        BY <1>4, <2>1
      <3> QED
        BY <3>1
    <2>3. \/ SettledBy' = SettledBy
          \/ HeldBy'[c] = 0 /\ SettledBy' = [SettledBy EXCEPT ![c] = TRUE]
      <3>1. CASE channel'[c].state = "Closed"
        <4>1. SettledBy'[c] = TRUE
          BY <1>7, <3>1 DEF InState
        <4>2. HeldBy'[c] = 0
          BY <1>1, <1>6, <3>1
        <4> QED
          BY <1>5, <4>1, <4>2, Zenon
      <3>2. CASE channel'[c].state # "Closed"
        BY <1>2, <3>2, Unsettled DEF Step
      <3> QED
        BY <3>1, <3>2
    <2> QED
      BY <1>3, <1>8, <2>1, <2>2, <2>3
         DEF Ledger!Release, Ledger!Move, HeldBy, PaidBy, SettledBy
  <1>12. CASE /\ deposited'[c] = deposited[c] /\ PaidOut(c)' >= PaidOut(c)
              /\ channel'[c].state = "Closed" /\ ~Agreed(c)'
    <2> DEFINE x == PaidOut(c)' - PaidOut(c)
    <2>1. x \in 0..vault /\ vault' = vault - x /\ PaidBy'[c] = PaidBy[c] + x
      BY <1>1, <1>6, <1>9, <1>12
    <2> HIDE DEF x
    <2>2. PaidBy' = [PaidBy EXCEPT ![c] = @ + x]
      <3>1. PaidBy' = [PaidBy EXCEPT ![c] = PaidBy[c] + x]
        BY <1>4, <2>1
      <3> QED
        BY <3>1
    <2>3. HeldBy' = [HeldBy EXCEPT ![c] = 0]
      <3>1. HeldBy'[c] = 0
        BY <1>1, <1>6, <1>12
      <3> QED
        BY <1>3, <3>1
    <2>4. SettledBy' = [SettledBy EXCEPT ![c] = TRUE]
      <3>1. SettledBy'[c] = TRUE
        BY <1>7, <1>12 DEF InState
      <3> QED
        BY <1>5, <3>1, Zenon
    <2>5. c \in OneSided
      BY <1>12 DEF Step, ProtocolInv
    <2> QED
      BY <1>8, <1>12, <2>1, <2>2, <2>3, <2>4, <2>5
         DEF Ledger!Breach, HeldBy, PaidBy, SettledBy
  <1> QED
    BY <1>10, <1>11, <1>12 DEF Step

LEMMA LedgerStarts == ProtocolInit => Ledger!LedgerInit
  <1> SUFFICES ASSUME ProtocolInit PROVE Ledger!LedgerInit
    OBVIOUS
  <1>1. \A c \in Id : channel[c].state = "Absent"
    BY DEF ProtocolInit, Init, NoChannel
  <1>2. HeldBy = [c \in Id |-> 0]
    BY <1>1 DEF HeldBy, Owed, InState
  <1>3. PaidBy = [c \in Id |-> 0]
    BY WalletAddresses DEF PaidBy, PaidOut, ProtocolInit, Init
  <1>4. \A c \in Id : InState(c, {"Closed"}) = FALSE
    BY <1>1 DEF InState
  <1>5. SettledBy = [c \in Id |-> FALSE]
    BY <1>4, Zenon DEF SettledBy
  <1>6. vault = 0
    BY DEF ProtocolInit, Init
  <1> QED
    BY <1>2, <1>3, <1>5, <1>6 DEF Ledger!LedgerInit, HeldBy, PaidBy, SettledBy

\* The channels together behave as the abstract ledger: tokens enter a channel
\* by a deposit and leave it only to its parties or its watchtower, settling
\* pays all that is left, and no step on one channel touches another.  A channel
\* in OneSided may settle for another amount, and only it.
THEOREM KeepsLedger == ASSUME Quiesced PROVE ProtocolSpec => ImplementsLedger
  <1>1. PInv /\ OwedOK /\ OwedOK' /\ [ProtocolNext]_pvars
            => [Ledger!LedgerNext]_(Ledger!lvars)
    BY EveryStep, LedgerStill, LedgerStep DEF Ledger!LedgerNext
  <1> QED
    BY <1>1, LedgerStarts, AlwaysOwed, Disciplined, PTL
       DEF ProtocolSpec, ImplementsLedger, Ledger!LedgerSpec

-----------------------------------------------------------------------------
(* The vault.  Every token an account holds is a pair of the account and a     *)
(* number, so that counting tokens is adding up what the accounts hold.        *)

Tokens(f) == UNION {{c} \X (1..f[c]) : c \in Id}

LEMMA TokensOfOne ==
    ASSUME NEW c, NEW n \in Nat
    PROVE  IsFiniteSet({c} \X (1..n)) /\ Cardinality({c} \X (1..n)) = n
  <1>1. IsFiniteSet({c}) /\ Cardinality({c}) = 1
    BY FS_Singleton
  <1>2. IsFiniteSet(1..n) /\ Cardinality(1..n) = n
    BY FS_Interval
  <1>3. /\ IsFiniteSet({c} \X (1..n))
        /\ Cardinality({c} \X (1..n)) = Cardinality({c}) * Cardinality(1..n)
    BY <1>1, <1>2, FS_Product, Zenon
  <1> QED
    BY <1>1, <1>2, <1>3

\* Two finite sets that share nothing.
LEMMA Disjoint ==
    ASSUME NEW S, NEW T, IsFiniteSet(S), IsFiniteSet(T), S \cap T = {}
    PROVE  IsFiniteSet(S \cup T) /\ Cardinality(S \cup T) = Cardinality(S) + Cardinality(T)
  <1>1. /\ IsFiniteSet(S \cup T)
        /\ Cardinality(S \cup T) = Cardinality(S) + Cardinality(T) - Cardinality(S \cap T)
    BY FS_Union, Zenon
  <1>2. Cardinality(S \cap T) = 0
    BY FS_EmptySet, Zenon
  <1>3. Cardinality(S) \in Nat /\ Cardinality(T) \in Nat
    BY FS_CardinalityType, Zenon
  <1> QED
    BY <1>1, <1>2, <1>3

\* When one account changes, so does the number of all tokens, by as many.
LEMMA Recount ==
    ASSUME NEW f \in [Id -> Nat], NEW g \in [Id -> Nat], NEW c \in Id,
           \A k \in Id : k # c => g[k] = f[k],
           IsFiniteSet(Tokens(f))
    PROVE  /\ IsFiniteSet(Tokens(g))
           /\ Cardinality(Tokens(g)) = Cardinality(Tokens(f)) + g[c] - f[c]
  <1> DEFINE Rest == UNION {{k} \X (1..f[k]) : k \in Id \ {c}}
             F == {c} \X (1..f[c])
             G == {c} \X (1..g[c])
  <1>1. /\ IsFiniteSet(F) /\ Cardinality(F) = f[c]
        /\ IsFiniteSet(G) /\ Cardinality(G) = g[c]
    BY TokensOfOne
  <1>2. Rest \cap F = {} /\ Rest \cap G = {}
    OBVIOUS
  <1>3. Tokens(f) = Rest \cup F
    BY DEF Tokens
  <1>4. Tokens(g) = Rest \cup G
    <2>1. \A k \in Id \ {c} : {k} \X (1..g[k]) = {k} \X (1..f[k])
      OBVIOUS
    <2>2. Rest = UNION {{k} \X (1..g[k]) : k \in Id \ {c}}
      BY <2>1, Zenon
    <2> QED
      BY <2>2 DEF Tokens
  <1> HIDE DEF Rest, F, G
  <1>5. IsFiniteSet(Rest)
    BY <1>3, FS_Subset
  <1>6. Cardinality(Rest) \in Nat
    BY <1>5, FS_CardinalityType
  <1>7. /\ IsFiniteSet(Rest \cup G)
        /\ Cardinality(Rest \cup G) = Cardinality(Rest) + Cardinality(G)
    BY <1>1, <1>2, <1>5, Disjoint, Zenon
  <1>8. Cardinality(Rest \cup F) = Cardinality(Rest) + Cardinality(F)
    BY <1>1, <1>2, <1>5, Disjoint, Zenon
  <1> QED
    BY <1>1, <1>3, <1>4, <1>6, <1>7, <1>8

\* A finite number of tokens, as many as the vault holds.
Balanced == IsFiniteSet(Tokens(HeldBy)) /\ vault = Cardinality(Tokens(HeldBy))

HeldOK == HeldBy \in [Id -> Nat]

LEMMA HeldTypes == OwedOK => HeldOK
  BY DEF HeldOK, HeldBy, OwedOK

LEMMA InitBalanced == ProtocolInit => Balanced
  <1> SUFFICES ASSUME ProtocolInit PROVE Balanced
    OBVIOUS
  <1>1. HeldBy = [c \in Id |-> 0] /\ vault = 0
    BY LedgerStarts DEF Ledger!LedgerInit, HeldBy
  <1>2. Tokens(HeldBy) = {}
    BY <1>1 DEF Tokens
  <1> QED
    BY <1>1, <1>2, FS_EmptySet DEF Balanced

LEMMA StillBalanced ==
    ASSUME Balanced, UNCHANGED Ledger!lvars
    PROVE  Balanced'
  <1>1. HeldBy' = HeldBy /\ vault' = vault
    BY DEF Ledger!lvars, HeldBy
  <1> QED
    BY <1>1 DEF Balanced, Tokens

LEMMA StepBalanced ==
    ASSUME HeldOK, HeldOK', Balanced, NEW c \in Id, Ledger!Lock(c) \/ Ledger!Release(c)
    PROVE  Balanced'
  <1>1. HeldBy \in [Id -> Nat] /\ HeldBy' \in [Id -> Nat]
    BY DEF HeldOK
  <1>2. /\ HeldBy' = [HeldBy EXCEPT ![c] = HeldBy'[c]]
        /\ vault' = vault + HeldBy'[c] - HeldBy[c]
    BY DEF Ledger!Lock, Ledger!Release, Ledger!Move, HeldBy
  <1>3. \A k \in Id : k # c => HeldBy'[k] = HeldBy[k]
    BY <1>1, <1>2
  <1>4. /\ IsFiniteSet(Tokens(HeldBy'))
        /\ Cardinality(Tokens(HeldBy')) = Cardinality(Tokens(HeldBy)) + HeldBy'[c] - HeldBy[c]
    BY <1>1, <1>3, Recount DEF Balanced
  <1>5. Tokens(HeldBy)' = Tokens(HeldBy')
    BY DEF Tokens
  <1> QED
    BY <1>2, <1>4, <1>5 DEF Balanced

\* A breach is for good: a closed channel is never written again.
LEMMA StaysBreached ==
    ASSUME Quiesced, PInv, Breached, [ProtocolNext]_pvars
    PROVE  Breached'
  <1>1. PICK k \in Id : channel[k].state = "Closed" /\ Recorded(k) \notin signed[k]
    BY DEF Breached, Agreed, InState
  <1>2. channel'[k] = channel[k] /\ signed'[k] = signed[k]
    <2>1. CASE Still
      BY <2>1 DEF Still
    <2>2. ASSUME NEW c \in Id, Step(c)
          PROVE  channel'[k] = channel[k] /\ signed'[k] = signed[k]
      BY <1>1, <2>2 DEF Step, Only
    <2> QED
      BY <2>1, <2>2, EveryStep
  <1> QED
    BY <1>1, <1>2 DEF Breached, Agreed, Recorded, InState

\* The vault holds what the channels are owed, unless one was settled in breach.
VaultInv == Balanced \/ Breached

LEMMA NextVault ==
    ASSUME Quiesced, PInv, OwedOK, OwedOK', VaultInv, [ProtocolNext]_pvars
    PROVE  VaultInv'
  <1>1. HeldOK /\ HeldOK'
    BY DEF OwedOK, HeldOK, HeldBy
  <1>2. CASE Breached
    BY <1>2, StaysBreached DEF VaultInv
  <1>3. CASE Balanced /\ Still
    BY <1>3, LedgerStill, StillBalanced DEF VaultInv
  <1>4. ASSUME Balanced, NEW c \in Id, Step(c)
        PROVE  VaultInv'
    <2>1. CASE Ledger!Lock(c) \/ Ledger!Release(c)
      BY <1>1, <1>4, <2>1, StepBalanced DEF VaultInv
    <2>2. CASE channel'[c].state = "Closed" /\ ~Agreed(c)'
      BY <2>2 DEF VaultInv, Breached, InState
    <2> QED
      BY <1>4, <2>1, <2>2, LedgerStep
  <1> QED
    BY <1>2, <1>3, <1>4, EveryStep DEF VaultInv

LEMMA AlwaysVault == ASSUME Quiesced PROVE ProtocolSpec => []VaultInv
  <1>1. Balanced => VaultInv
    BY DEF VaultInv
  <1>2. PInv /\ OwedOK /\ OwedOK' /\ VaultInv /\ [ProtocolNext]_pvars => VaultInv'
    BY NextVault
  <1> QED
    BY <1>1, <1>2, InitBalanced, AlwaysOwed, Disciplined, PTL DEF ProtocolSpec

\* The token balance of the contract is what its channels are owed together: no
\* channel is ever settled with the tokens of another, whoever submits what,
\* before one settles under contents only one of its parties signed.
THEOREM VaultIsOwed == ASSUME Quiesced PROVE ProtocolSpec => []Solvent
  <1>1. OwedOK /\ VaultInv => Solvent
    <2> SUFFICES ASSUME OwedOK, Balanced PROVE Solvent
      BY DEF VaultInv, Solvent
    <2>1. Ledger!Token = Tokens(HeldBy)
      BY DEF Ledger!Token, Tokens, HeldBy
    <2>2. \A c \in Id : Owed(c) >= 0
      BY DEF OwedOK
    <2> QED
      BY <2>1, <2>2 DEF Solvent, Balanced
  <1> QED
    BY <1>1, AlwaysVault, AlwaysOwed, Disciplined, PTL

\* The vault never lacks what a transfer needs: before a channel settles under
\* contents only one of its parties signed, neither the payment of a bounty nor
\* finalize of an agreed record ever traps for want of tokens (their guards
\* vault >= ... are true whenever the rest of the guard is).
Covered ==
    Breached \/ \A c \in Id : InState(c, {"Closing", "Dispute"}) =>
                    /\ vault >= Reserved(c)
                    /\ Agreed(c) => vault >= Total(c)

THEOREM PayoutsCovered == ASSUME Quiesced PROVE ProtocolSpec => []Covered
  <1>1. ASSUME OwedOK, Balanced, NEW c \in Id PROVE Owed(c) <= vault
    <2>1. HeldBy \in [Id -> Nat] /\ HeldBy[c] = Owed(c) /\ Owed(c) \in Nat
      BY <1>1 DEF OwedOK, HeldBy
    <2>2. {c} \X (1..Owed(c)) \subseteq Tokens(HeldBy)
      BY <2>1 DEF Tokens
    <2>3. Cardinality({c} \X (1..Owed(c))) <= Cardinality(Tokens(HeldBy))
      BY <1>1, <2>2, FS_Subset DEF Balanced
    <2> QED
      BY <1>1, <2>1, <2>3, TokensOfOne DEF Balanced
  <1>2. ASSUME PInv, OwedOK, Balanced, NEW c \in Id, InState(c, {"Closing", "Dispute"})
        PROVE  vault >= Reserved(c) /\ (Agreed(c) => vault >= Total(c))
    <2>1. /\ channel[c].balance_a \in Int /\ channel[c].balance_b \in Int
          /\ Reserved(c) \in Nat /\ vault \in Nat /\ PaidOut(c) \in Nat /\ deposited[c] \in Nat
          /\ ProtocolInv(c)
      BY <1>2, ProtocolTypes DEF PInv
    <2>2. Owed(c) = deposited[c] - PaidOut(c) /\ Owed(c) <= vault
      BY <1>1, <1>2 DEF Owed, InState
    <2>3. Reserved(c) + PaidOut(c) <= deposited[c]
      BY <1>2, <2>1 DEF ProtocolInv, InState
    <2>4. ASSUME Agreed(c) PROVE vault >= Total(c)
      <3>1. /\ channel[c].balance_a >= 0 /\ channel[c].balance_b >= 0
            /\ channel[c].balance_a + channel[c].balance_b + Reserved(c) + PaidOut(c)
                   = deposited[c]
        BY <1>2, <2>1, <2>4 DEF ProtocolInv, Funded, Locked, InState
      <3>2. Total(c) = channel[c].balance_a + channel[c].balance_b + Reserved(c)
        BY <2>1, <3>1 DEF Total, Positive
      <3> QED
        BY <2>1, <2>2, <3>1, <3>2
    <2> QED
      BY <2>1, <2>2, <2>3, <2>4
  <1>3. PInv /\ OwedOK /\ VaultInv => Covered
    BY <1>2 DEF VaultInv, Covered
  <1> QED
    BY <1>3, AlwaysVault, AlwaysOwed, Disciplined, PTL

-----------------------------------------------------------------------------
(* What the wallets do is something the contract does, quiesced or not: the     *)
(* contract's theorems hold of it with its wallets.                             *)

Sane(c) ==
    /\ channel[c].state = "Open" => channel[c].balance_a >= 0 /\ channel[c].balance_b >= 0
    /\ channel[c].sequence <= MaxSeq

SaneInv == ProtocolTypeOK /\ \A c \in Id : Sane(c)

\* States that are to be submitted have bounded numbers, so one has the highest.
LEMMA HighestNumber ==
    ASSUME NEW S, S # {}, \A s \in S : s.seq \in 1..MaxSeq
    PROVE  \E m \in S : \A s \in S : s.seq <= m.seq
  <1> DEFINE T == {MaxSeq - s.seq : s \in S}
  <1>1. MaxSeq \in Nat /\ T \subseteq Nat /\ T # {}
    BY ChannelConstants
  <1>2. PICK x \in T : \A y \in T : <<y, x>> \notin OpToRel(<, Nat)
    BY <1>1, WFMin, NatLessThanWellFounded, Zenon
  <1>3. \A y \in T : ~(y < x)
    BY <1>1, <1>2, Zenon DEF OpToRel
  <1>4. PICK m \in S : x = MaxSeq - m.seq
    BY <1>2
  <1>5. ASSUME NEW s \in S PROVE s.seq <= m.seq
    <2>1. ~(MaxSeq - s.seq < MaxSeq - m.seq)
      BY <1>3, <1>4
    <2>2. s.seq \in Nat /\ m.seq \in Nat
      BY <1>1
    <2> QED
      BY <1>1, <2>1, <2>2
  <1> QED
    BY <1>5

LEMMA SaneTypes ==
    ASSUME SaneInv, NEW c \in Id
    PROVE  /\ ProtocolTypeOK /\ TypeOK /\ Sane(c)
           /\ channel[c].balance_a \in Int /\ channel[c].balance_b \in Int
           /\ channel[c].state = "Open" =>
                  channel[c].balance_a \in Nat /\ channel[c].balance_b \in Nat
           /\ channel[c].sequence \in 0..MaxSeq /\ Reserved(c) \in Nat
           /\ \A s \in signed[c] : s.a \in Nat /\ s.b \in Nat /\ s.seq \in 1..MaxSeq
  <1>1. ProtocolTypeOK /\ TypeOK /\ Sane(c) /\ signed[c] \subseteq SignedState
    BY DEF SaneInv, ProtocolTypeOK
  <1>2. /\ channel[c].balance_a \in Int /\ channel[c].balance_b \in Int
        /\ channel[c].sequence \in Nat /\ Reserved(c) \in Nat
    BY <1>1, ProtocolTypes
  <1>3. \A s \in signed[c] : s.a \in Nat /\ s.b \in Nat /\ s.seq \in 1..MaxSeq
    BY <1>1 DEF SignedState
  <1> QED
    BY <1>1, <1>2, <1>3, ChannelConstants DEF Sane

LEMMA HeadSane ==
    ASSUME SaneInv, NEW c \in Id, channel[c].state = "Open"
    PROVE  Head(c).a \in Nat /\ Head(c).b \in Nat /\ Head(c).seq \in 0..MaxSeq
  <1>1. CASE Pending(c) = {}
    <2>1. Head(c) = [a |-> channel[c].balance_a, b |-> channel[c].balance_b,
                     seq |-> channel[c].sequence]
      BY <1>1 DEF Head
    <2> QED
      BY <2>1, SaneTypes
  <1>2. CASE Pending(c) # {}
    <2>1. \A s \in Pending(c) : s \in signed[c] /\ s.a \in Nat /\ s.b \in Nat
                                /\ s.seq \in 1..MaxSeq
      BY SaneTypes DEF Pending
    <2>2. \E m \in Pending(c) : \A s \in Pending(c) : s.seq <= m.seq
      BY <1>2, <2>1, HighestNumber
    <2>3. Head(c) \in Pending(c)
      BY <1>2, <2>2 DEF Head
    <2> QED
      BY <2>1, <2>3, ChannelConstants
  <1> QED
    BY <1>1, <1>2

\* Channel c is the only one written, and it is sound afterwards.
Writes(c) ==
    /\ \A k \in Id : k # c => channel'[k] = channel[k]
    /\ Sane(c)'

LEMMA WritesSane ==
    ASSUME SaneInv, Next, NEW c \in Id, Writes(c), NEW f \in [Id -> SUBSET SignedState],
           NEW g \in [Id -> Nat], signed' = f, deposited' = g
    PROVE  SaneInv'
  <1>1. TypeOK'
    BY NextTypes DEF SaneInv, ProtocolTypeOK
  <1>2. ASSUME NEW k \in Id, k # c PROVE Sane(k)'
    BY <1>2 DEF SaneInv, Sane, Writes
  <1> QED
    BY <1>1, <1>2 DEF SaneInv, ProtocolTypeOK, Writes

\* A step that leaves the signed states and the deposits alone.
LEMMA WritesOnly ==
    ASSUME SaneInv, Next, NEW c \in Id, Writes(c), UNCHANGED <<signed, deposited>>
    PROVE  Next /\ SaneInv'
  <1>1. signed \in [Id -> SUBSET SignedState] /\ deposited \in [Id -> Nat]
    BY DEF SaneInv, ProtocolTypeOK
  <1> QED
    BY <1>1, WritesSane

\* The wallets submit what the contract lets anybody submit.
LEMMA StateSane ==
    ASSUME Nat \subseteq Balance, SaneInv, NEW c \in Id, NEW s \in signed[c], UseState(c, s)
    PROVE  Next /\ SaneInv'
  <1>1. /\ TypeOK /\ s.a \in Nat /\ s.b \in Nat /\ s.seq \in 1..MaxSeq /\ s.seq \in Nat
        /\ s.a \in Balance /\ s.b \in Balance
    BY SaneTypes, InputTypes
  <1>2. ASSUME SubmitAny(c), Writes(c), UNCHANGED <<signed, deposited>>
        PROVE  Next /\ SaneInv'
    BY <1>2, WritesOnly DEF Next
  <1>3. ASSUME NEW st \in States, Record(c, s.a, s.b, s.seq, st)
        PROVE  Writes(c)
    <2>1. s.a \in Int /\ s.b \in Int
      BY <1>1
    <2>2. /\ \A k \in Id : k # c => channel'[k] = channel[k]
          /\ channel'[c].balance_a = s.a /\ channel'[c].balance_b = s.b
          /\ channel'[c].sequence = s.seq
      BY <1>1, <1>3, <2>1, RecordEffect
    <2> QED
      BY <1>1, <2>2, ChannelConstants DEF Writes, Sane
  <1>4. CASE Submit(c, s)
    <2>1. SubmitState(c, s.a, s.b, s.seq, Alice, Bob) /\ UNCHANGED <<signed, deposited>>
      BY <1>4 DEF Submit
    <2>2. Record(c, s.a, s.b, s.seq, "Open")
      BY <2>1 DEF SubmitState
    <2>3. SubmitAny(c)
      BY <1>1, <2>1, WalletAddresses DEF SubmitAny
    <2> QED
      BY <1>2, <1>3, <2>1, <2>2, <2>3 DEF States
  <1>5. CASE Challenge(c, s)
    <2>1. Dispute(c, s.a, s.b, s.seq, Alice, Bob) /\ UNCHANGED <<signed, deposited>>
      BY <1>5 DEF Challenge
    <2>2. Record(c, s.a, s.b, s.seq, "Dispute")
      BY <2>1 DEF Dispute
    <2>3. SubmitAny(c)
      BY <1>1, <2>1, WalletAddresses DEF SubmitAny
    <2> QED
      BY <1>2, <1>3, <2>1, <2>2, <2>3 DEF States
  <1>6. CASE TowerSubmit(c, s)
    <2>1. /\ WatchtowerSubmit(c, Tower, s.a, s.b, s.seq, Alice, Bob)
          /\ UNCHANGED <<signed, deposited>>
      BY <1>6 DEF TowerSubmit
    <2>2. Record(c, s.a, s.b, s.seq, "Dispute")
      BY <2>1 DEF WatchtowerSubmit
    <2>3. SubmitAny(c)
      BY <1>1, <2>1, WalletAddresses DEF SubmitAny
    <2> QED
      BY <1>2, <1>3, <2>1, <2>2, <2>3 DEF States
  <1> QED
    BY <1>4, <1>5, <1>6 DEF UseState

LEMMA CloseSane ==
    ASSUME Nat \subseteq Balance, SaneInv, NEW c \in Id, NEW s \in Closable(c), Close(c, s)
    PROVE  Next /\ SaneInv'
  <1>1. TypeOK /\ s.a \in Balance /\ s.b \in Balance /\ s.seq \in 1..MaxSeq
    <2>1. CASE s \in signed[c]
      <3>1. TypeOK /\ s.a \in Nat /\ s.b \in Nat /\ s.seq \in 1..MaxSeq
        BY <2>1, SaneTypes
      <3> QED
        BY <3>1
    <2>2. CASE s \in [a : Balance, b : Balance, seq : 1..MaxSeq]
      <3>1. s.a \in Balance /\ s.b \in Balance /\ s.seq \in 1..MaxSeq
        BY <2>2
      <3> QED
        BY <3>1, SaneTypes
    <2> QED
      BY <2>1, <2>2, ClosableIs, Zenon
  <1>2. s.a \in Int /\ s.b \in Int /\ s.seq \in Nat
    BY <1>1, ClosableNumbers, Zenon
  <1>3. PICK sig \in {Alice, Bob} : InitiateClose(c, s.a, s.b, s.seq, sig)
    BY DEF Close
  <1>4. /\ \A k \in Id : k # c => channel'[k] = channel[k]
        /\ channel'[c].sequence = s.seq /\ channel'[c].state = "Closing"
    BY <1>1, <1>2, <1>3, CloseEffect
  <1>5. Writes(c)
    BY <1>1, <1>4, ChannelConstants DEF Writes, Sane
  <1>6. SubmitAny(c)
    BY <1>1, <1>3, WalletAddresses DEF SubmitAny
  <1> QED
    BY <1>5, <1>6, WritesOnly DEF Close, Next

\* Depositing, spending by proof and hiring a watchtower never overdraw a side.
LEMMA LedgerSane ==
    ASSUME SaneInv, NEW c \in Id, UseLedger(c)
    PROVE  Next /\ SaneInv'
  <1>1. /\ ProtocolTypeOK /\ TypeOK /\ channel[c].balance_a \in Nat
        /\ channel[c].balance_b \in Nat /\ channel[c].sequence \in 0..MaxSeq
        /\ Reserved(c) \in Nat /\ MaxSeq \in Nat
    <2>1. channel[c].state = "Open"
      BY DEF UseLedger, Deposit, TopUp, Watch, RegisterWatchtower, ProofSpend,
             VerifyPaymentProof, Unwatch, DeregisterWatchtower, InState
    <2> QED
      BY <2>1, SaneTypes, ChannelConstants
  <1>2. ASSUME NEW amount \in Int, Credit(c, amount), channel[c].balance_a + amount >= 0
        PROVE  Writes(c)
    <2>1. /\ \A k \in Id : k # c => channel'[k] = channel[k]
          /\ channel'[c].balance_a = channel[c].balance_a + amount
          /\ channel'[c].balance_b = channel[c].balance_b
          /\ channel'[c].sequence = channel[c].sequence
      BY <1>1, <1>2, CreditEffect
    <2> QED
      BY <1>1, <1>2, <2>1 DEF Writes, Sane
  <1>3. ASSUME NEW amount \in Amount, Deposit(c, amount) PROVE Next /\ SaneInv'
    <2>1. /\ TopUp(c, amount, Alice) /\ UNCHANGED signed
          /\ deposited' = [deposited EXCEPT ![c] = @ + amount] /\ amount \in Nat
      BY <1>3, InputTypes DEF Deposit
    <2>2. Credit(c, amount) /\ amount \in Int /\ channel[c].balance_a + amount >= 0
      BY <1>1, <2>1 DEF TopUp
    <2>3. Next
      BY <2>1, WalletAddresses DEF Next, Spend
    <2>4. signed' \in [Id -> SUBSET SignedState] /\ deposited' \in [Id -> Nat]
      BY <1>1, <2>1 DEF ProtocolTypeOK
    <2> QED
      BY <1>2, <2>2, <2>3, <2>4, WritesSane
  <1>4. ASSUME NEW n \in Nonce, NEW amount \in Amount, ProofSpend(c, n, amount)
        PROVE  Next /\ SaneInv'
    <2>1. /\ VerifyPaymentProof(c, n, now, amount, Alice, Alice, Bob)
          /\ UNCHANGED <<signed, deposited>> /\ amount \in Nat /\ now \in 0..MaxTime
      BY <1>1, <1>4, InputTypes DEF ProofSpend, TypeOK
    <2>2. /\ Record(c, channel[c].balance_a - amount, channel[c].balance_b + amount,
                    channel[c].sequence + 1, "Open")
          /\ channel[c].balance_a >= amount /\ channel[c].sequence < MaxSeq
      BY <2>1 DEF VerifyPaymentProof
    <2>3. /\ channel[c].balance_a - amount \in Int /\ channel[c].balance_b + amount \in Int
          /\ channel[c].sequence + 1 \in Nat
      BY <1>1, <2>1
    <2>4. /\ \A k \in Id : k # c => channel'[k] = channel[k]
          /\ channel'[c].balance_a = channel[c].balance_a - amount
          /\ channel'[c].balance_b = channel[c].balance_b + amount
          /\ channel'[c].sequence = channel[c].sequence + 1
      BY <1>1, <2>2, <2>3, RecordEffect DEF States
    <2>5. Writes(c)
      BY <1>1, <2>1, <2>2, <2>4 DEF Writes, Sane
    <2>6. Next
      BY <2>1, WalletAddresses DEF Next, Spend
    <2> QED
      BY <2>1, <2>5, <2>6, WritesOnly
  <1>5. ASSUME NEW amount \in Amount, Watch(c, amount) PROVE Next /\ SaneInv'
    <2>1. /\ RegisterWatchtower(c, Alice, Tower, amount)
          /\ UNCHANGED <<signed, deposited>> /\ amount \in Nat
      BY <1>5, InputTypes DEF Watch
    <2>2. Writes(c)
      <3>1. CASE amount > 0
        <4>1. Credit(c, -amount) /\ -amount \in Int /\ channel[c].balance_a + (-amount) >= 0
          BY <1>1, <2>1, <3>1 DEF RegisterWatchtower, ReserveBounty
        <4> QED
          BY <1>2, <4>1
      <3>2. CASE ~(amount > 0)
        <4>1. UNCHANGED channel
          BY <2>1, <3>2 DEF RegisterWatchtower
        <4> QED
          BY <4>1, SaneTypes DEF Writes, Sane
      <3> QED
        BY <3>1, <3>2
    <2>3. Next
      BY <2>1, WalletAddresses DEF Next, ManageWatchtowers
    <2> QED
      BY <2>1, <2>2, <2>3, WritesOnly
  <1>6. ASSUME Unwatch(c) PROVE Next /\ SaneInv'
    <2>1. DeregisterWatchtower(c, Alice, Tower) /\ UNCHANGED <<signed, deposited>>
      BY <1>6 DEF Unwatch
    <2>2. Credit(c, BountyRefund(c, Tower)) /\ BountyRefund(c, Tower) \in Nat
      BY <1>1, <2>1 DEF DeregisterWatchtower, BountyRefund
    <2>3. Writes(c)
      BY <1>1, <1>2, <2>2
    <2>4. Next
      BY <2>1, WalletAddresses DEF Next, ManageWatchtowers
    <2> QED
      BY <2>1, <2>3, <2>4, WritesOnly
  <1> QED
    BY <1>3, <1>4, <1>5, <1>6 DEF UseLedger

\* Each step of the composition is a step of the contract, or none of its state.
LEMMA NextSane ==
    ASSUME Nat \subseteq Balance, SaneInv, [ProtocolNext]_pvars
    PROVE  [Next]_vars /\ SaneInv'
  <1>1. /\ ProtocolTypeOK /\ TypeOK
        /\ signed \in [Id -> SUBSET SignedState] /\ deposited \in [Id -> Nat]
    BY DEF SaneInv, ProtocolTypeOK
  <1>2. ASSUME UNCHANGED channel, TypeOK', signed' \in [Id -> SUBSET SignedState],
               deposited' \in [Id -> Nat]
        PROVE  SaneInv'
    BY <1>2 DEF SaneInv, Sane, ProtocolTypeOK
  <1>3. CASE UNCHANGED pvars
    <2>1. UNCHANGED vars /\ UNCHANGED <<channel, signed, deposited>>
      BY <1>3 DEF pvars, vars
    <2>2. TypeOK'
      BY <1>1, <2>1, NextTypes
    <2> QED
      BY <1>1, <1>2, <2>1, <2>2
  <1>4. ASSUME NEW amount \in Amount, NEW window \in Windows, Open(amount, window)
        PROVE  Next /\ SaneInv'
    <2>1. /\ OpenChannel(Alice, Bob, amount, window) /\ amount \in Nat /\ window \in Nat
          /\ deposited' = [deposited EXCEPT ![count + 1] = amount] /\ UNCHANGED signed
      BY <1>4, InputTypes DEF Open
    <2>2. PICK c \in Id : c = count + 1
      BY <1>1, <2>1, OpenEffect, WalletAddresses
    <2>3. /\ \A k \in Id : k # c => channel'[k] = channel[k]
          /\ channel'[c].balance_b = 0 /\ channel'[c].sequence = 0
      BY <1>1, <2>1, <2>2, OpenEffect, WalletAddresses
    <2>4. channel'[c].balance_a = amount
      <3>1. channel' = [channel EXCEPT ![c] =
                [depositor |-> Alice, counterparty |-> Bob,
                 balance_a |-> amount, balance_b |-> 0, sequence |-> 0,
                 state |-> "Open", dispute_deadline |-> now + window,
                 closing_started_at |-> 0]]
        BY <2>1, <2>2 DEF OpenChannel
      <3> QED
        BY <1>1, <3>1 DEF TypeOK
    <2>5. Writes(c)
      BY <2>1, <2>3, <2>4, ChannelConstants DEF Writes, Sane
    <2>6. Next
      BY <2>1, WalletAddresses DEF Next
    <2>7. signed' \in [Id -> SUBSET SignedState] /\ deposited' \in [Id -> Nat]
      BY <1>1, <2>1, <2>2
    <2> QED
      BY <2>5, <2>6, <2>7, WritesSane
  <1>5. ASSUME NEW c \in Id, NEW amount \in Amount, Renew(c, amount)
        PROVE  UNCHANGED vars /\ SaneInv'
    <2> DEFINE h == Head(c)
    <2>1. /\ amount > 0 /\ h.a >= amount /\ h.seq < MaxSeq
          /\ signed' = [signed EXCEPT ![c] = @ \cup {NextState(h, amount)}]
          /\ UNCHANGED <<vars, deposited>>
      BY <1>5 DEF Renew
    <2>2. h.a \in Nat /\ h.b \in Nat /\ h.seq \in 0..MaxSeq /\ amount \in Nat
      <3>1. channel[c].state = "Open"
        BY <1>5 DEF Renew, InState
      <3> QED
        BY <3>1, HeadSane, InputTypes
    <2> HIDE DEF h
    <2>3. NextState(h, amount) \in SignedState
      BY <2>1, <2>2, ChannelConstants DEF NextState, SignedState
    <2>4. signed' \in [Id -> SUBSET SignedState] /\ deposited' \in [Id -> Nat]
      BY <1>1, <2>1, <2>3
    <2>5. TypeOK' /\ UNCHANGED channel
      BY <1>1, <2>1, NextTypes DEF vars
    <2> QED
      BY <1>2, <2>1, <2>4, <2>5
  <1>6. ASSUME NEW c \in Id, Pay(c) PROVE Next /\ SaneInv'
    <2>1. Finalize(c, channel[c].sequence) /\ UNCHANGED <<signed, deposited>>
      BY <1>6 DEF Pay
    <2>2. /\ Sane(c) /\ channel[c].balance_a \in Int /\ channel[c].balance_b \in Int
          /\ channel[c].sequence \in Nat /\ channel[c].sequence \in 0..MaxSeq
      BY SaneTypes
    <2>3. Record(c, channel[c].balance_a, channel[c].balance_b,
                 channel[c].sequence, "Closed")
      BY <2>1 DEF Finalize
    <2>4. /\ \A k \in Id : k # c => channel'[k] = channel[k]
          /\ channel'[c].balance_a = channel[c].balance_a
          /\ channel'[c].balance_b = channel[c].balance_b
          /\ channel'[c].sequence = channel[c].sequence /\ channel'[c].state = "Closed"
      BY <1>1, <2>2, <2>3, RecordEffect DEF States
    <2>5. Writes(c)
      BY <2>2, <2>4 DEF Writes, Sane
    <2>6. Next
      BY <2>1, <2>2 DEF Next, Settle
    <2> QED
      BY <2>1, <2>5, <2>6, WritesOnly
  <1>7. CASE Pass
    <2>1. Tick /\ UNCHANGED <<signed, deposited>>
      BY <1>7 DEF Pass
    <2>2. Next /\ UNCHANGED channel
      BY <2>1 DEF Next, Tick
    <2>3. TypeOK'
      BY <1>1, <2>2, NextTypes
    <2> QED
      BY <1>1, <1>2, <2>1, <2>2, <2>3
  <1> QED
    BY <1>3, <1>4, <1>5, <1>6, <1>7, StateSane, CloseSane, LedgerSane DEF ProtocolNext

\* The contract with its wallets is the contract: whatever the wallets sign,
\* submit and do on the ledger, whether they are quiesced and close alone or not,
\* is a behaviour of Spec.  All that is asked is that the contract takes any
\* balances a wallet may sign.
THEOREM WalletsUseContract == ASSUME Nat \subseteq Balance PROVE ProtocolSpec => Spec
  <1>1. ProtocolInit => SaneInv /\ Init
    <2> SUFFICES ASSUME ProtocolInit PROVE SaneInv /\ Init
      OBVIOUS
    <2>1. Init /\ TypeOK
      BY InitTypes DEF ProtocolInit
    <2>2. ProtocolTypeOK
      BY <2>1 DEF ProtocolInit, ProtocolTypeOK
    <2>3. ASSUME NEW c \in Id PROVE Sane(c)
      <3>1. channel[c] = NoChannel /\ MaxSeq \in Nat
        BY <2>1, ChannelConstants DEF Init
      <3> QED
        BY <3>1 DEF Sane, NoChannel
    <2> QED
      BY <2>1, <2>2, <2>3 DEF SaneInv
  <1>2. SaneInv /\ [ProtocolNext]_pvars => [Next]_vars /\ SaneInv'
    BY NextSane
  <1> QED
    BY <1>1, <1>2, PTL DEF ProtocolSpec, Spec

\* So settling is exact even for wallets that use the ledger while states they
\* signed are still out, where Conserved fails.
THEOREM WalletsSettleExactly ==
    ASSUME Nat \subseteq Balance PROVE ProtocolSpec => []SettlementExact
  BY WalletsUseContract, ExactSettlement, PTL
=============================================================================
