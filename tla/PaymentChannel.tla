--------------------------- MODULE PaymentChannel ---------------------------
(***************************************************************************)
(* The payment-channel contract (contracts/contracts/payment-channel).     *)
(* One action per entry point that changes state; an entry point that      *)
(* returns Err, or traps, is rolled back by the ledger and is not a step.  *)
(* The contract trusts its callers with the contents of a state: any       *)
(* balances and any higher sequence number that carry the signatures an    *)
(* entry point asks for are accepted, so here they are arbitrary.          *)
(* ChannelProtocol adds what the parties' wallets are willing to sign.     *)
(***************************************************************************)
EXTENDS Integers, FiniteSets

CONSTANTS
    Addr,           \* ledger addresses: parties, watchtowers, others
    NoAddr,         \* the parties of a channel not opened yet
    MaxChannels,    \* bound: channels ever opened
    Balance,        \* balances a caller may put in a submitted state
    Amount,         \* amounts of deposits, top-ups, proofs and bounties
    Windows,        \* dispute windows a depositor may choose
    Nonce,          \* payment-proof nonces
    Skew,           \* PROOF_FRESHNESS_WINDOW_SECS
    MaxBounty,      \* MAX_WATCHTOWER_BOUNTY
    MaxBalance,     \* bound on a balance (i128::MAX: an overflow traps)
    MaxSeq,         \* bound on a sequence number (u64::MAX)
    MaxTime         \* bound on the ledger clock

ASSUME ChannelConstants ==
    /\ NoAddr \notin Addr
    /\ MaxChannels \in Nat /\ Skew \in Nat /\ MaxTime \in Nat /\ MaxSeq \in Nat
    /\ MaxBounty \in Nat /\ MaxBalance \in Nat
    /\ Balance \subseteq Int /\ Amount \subseteq Nat /\ Windows \subseteq Nat

VARIABLES
    now,            \* env.ledger().timestamp()
    admin,          \* DataKey::Admin is set
    count,          \* DataKey::ChannelCount
    channel,        \* DataKey::Channel(id)
    towers,         \* DataKey::Watchtowers(id)
    bounty,         \* DataKey::WatchtowerBounty(id)
    bountyPaid,     \* DataKey::BountyPaid(id)
    seenNonce,      \* DataKey::SeenNonce(id, _)
    vault,          \* the token balance the contract holds
    payout,         \* history: tokens paid out of channel id to each address
    debited         \* history: tokens debited from channel id under a nonce

vars == <<now, admin, count, channel, towers, bounty, bountyPaid, seenNonce,
          vault, payout, debited>>

Id == 1..MaxChannels

States == {"Absent", "Open", "Closing", "Dispute", "Closed"}

ChannelRecord ==
    [depositor : Addr \cup {NoAddr}, counterparty : Addr \cup {NoAddr},
     balance_a : Int, balance_b : Int, sequence : Nat, state : States,
     dispute_deadline : Nat, closing_started_at : Nat]

TypeOK ==
    /\ now \in 0..MaxTime
    /\ admin \in BOOLEAN
    /\ count \in 0..MaxChannels
    /\ channel \in [Id -> ChannelRecord]
    /\ towers \in [Id -> SUBSET Addr]
    /\ bounty \in [Id -> 0..MaxBounty]
    /\ bountyPaid \in [Id -> BOOLEAN]
    /\ seenNonce \in [Id -> SUBSET Nonce]
    /\ vault \in Nat
    /\ payout \in [Id -> [Addr -> Nat]]
    /\ debited \in [Id -> [Nonce -> Nat]]

-----------------------------------------------------------------------------
(* What the entry points have in common.                                   *)

NoChannel ==
    [depositor |-> NoAddr, counterparty |-> NoAddr,
     balance_a |-> 0, balance_b |-> 0, sequence |-> 0, state |-> "Absent",
     dispute_deadline |-> 0, closing_started_at |-> 0]

Init ==
    /\ now = 0
    /\ admin = FALSE
    /\ count = 0
    /\ channel = [c \in Id |-> NoChannel]
    /\ towers = [c \in Id |-> {}]
    /\ bounty = [c \in Id |-> 0]
    /\ bountyPaid = [c \in Id |-> FALSE]
    /\ seenNonce = [c \in Id |-> {}]
    /\ vault = 0
    /\ payout = [c \in Id |-> [x \in Addr |-> 0]]
    /\ debited = [c \in Id |-> [n \in Nonce |-> 0]]

Parties(c) == {channel[c].depositor, channel[c].counterparty}

\* sig_a and sig_b are the two parties, in either order.
BothSign(c, sigA, sigB) == {sigA, sigB} = Parties(c)

InState(c, S) == channel[c].state \in S

NewerM(c, seq) == seq # channel[c].sequence
Newer(c, seq) == seq > channel[c].sequence

WindowOpenM(c) == now <= channel[c].dispute_deadline + 1
WindowOpen(c) == now <= channel[c].dispute_deadline

WindowOverM(c) == now >= channel[c].dispute_deadline
WindowOver(c) == now > channel[c].dispute_deadline

\* What an unpaid bounty still reserves in the vault for channel c.
Reserved(c) == IF bountyPaid[c] THEN 0 ELSE bounty[c]

Positive(n) == IF n > 0 THEN n ELSE 0

\* Write channel c back with these balances, sequence number and state.
Record(c, a, b, seq, st) ==
    channel' = [channel EXCEPT ![c] = [@ EXCEPT
                   !.balance_a = a, !.balance_b = b, !.sequence = seq, !.state = st]]

\* Add amount to the depositor's side, and nothing else.
Credit(c, amount) ==
    Record(c, channel[c].balance_a + amount, channel[c].balance_b,
           channel[c].sequence, channel[c].state)

-----------------------------------------------------------------------------
(* Entry points.                                                           *)

Initialize ==
    /\ ~admin
    /\ admin' = TRUE
    /\ UNCHANGED <<now, count, channel, towers, bounty, bountyPaid, seenNonce,
                   vault, payout, debited>>

OpenChannel(d, k, amount, window) ==
    /\ amount > 0
    /\ d # k
    /\ count < MaxChannels
    /\ count' = count + 1
    /\ channel' = [channel EXCEPT ![count + 1] =
           [depositor |-> d, counterparty |-> k,
            balance_a |-> amount, balance_b |-> 0, sequence |-> 0,
            state |-> "Open", dispute_deadline |-> now + window,
            closing_started_at |-> 0]]
    /\ vault' = vault + amount
    /\ UNCHANGED <<now, admin, towers, bounty, bountyPaid, seenNonce, payout, debited>>

SubmitState(c, a, b, seq, sigA, sigB) ==
    /\ InState(c, {"Open", "Closing"})
    /\ Newer(c, seq)
    /\ BothSign(c, sigA, sigB)
    /\ Record(c, a, b, seq, "Open")
    /\ UNCHANGED <<now, admin, count, towers, bounty, bountyPaid, seenNonce,
                   vault, payout, debited>>

InitiateClose(c, a, b, seq, sig) ==
    /\ InState(c, {"Open"})
    /\ Newer(c, seq)
    /\ sig \in Parties(c)
    /\ channel' = [channel EXCEPT ![c] = [@ EXCEPT
           !.balance_a = a, !.balance_b = b, !.sequence = seq,
           !.state = "Closing", !.closing_started_at = now]]
    /\ UNCHANGED <<now, admin, count, towers, bounty, bountyPaid, seenNonce,
                   vault, payout, debited>>

Disputable(c, seq) ==
    /\ InState(c, {"Closing"})
    /\ Newer(c, seq)
    /\ WindowOpen(c)

Dispute(c, a, b, seq, sigA, sigB) ==
    /\ Disputable(c, seq)
    /\ BothSign(c, sigA, sigB)
    /\ Record(c, a, b, seq, "Dispute")
    /\ UNCHANGED <<now, admin, count, towers, bounty, bountyPaid, seenNonce,
                   vault, payout, debited>>

SettleableM(c) == ~InState(c, {"Absent", "Open"})
Settleable(c) == InState(c, {"Closing", "Dispute"})

\* Tokens finalize sends to x: each party's side when positive, and a bounty
\* no watchtower earned back to the depositor.
SettlementM(c, x) ==
    (IF x = channel[c].depositor
     THEN Positive(channel[c].balance_a) + bounty[c] ELSE 0)
    + (IF x = channel[c].counterparty THEN Positive(channel[c].balance_b) ELSE 0)
Settlement(c, x) ==
    (IF x = channel[c].depositor
     THEN Positive(channel[c].balance_a) + Reserved(c) ELSE 0)
    + (IF x = channel[c].counterparty THEN Positive(channel[c].balance_b) ELSE 0)

\* Tokens finalize sends in all.
Total(c) ==
    Positive(channel[c].balance_a) + Positive(channel[c].balance_b) + Reserved(c)

Finalize(c, expectedSeq) ==
    /\ Settleable(c)
    /\ WindowOver(c)
    /\ expectedSeq = channel[c].sequence
    /\ vault >= Total(c)            \* otherwise a transfer traps
    /\ Record(c, channel[c].balance_a, channel[c].balance_b, channel[c].sequence, "Closed")
    /\ vault' = vault - Total(c)
    /\ payout' = [payout EXCEPT ![c] = [x \in Addr |-> payout[c][x] + Settlement(c, x)]]
    /\ UNCHANGED <<now, admin, count, towers, bounty, bountyPaid, seenNonce, debited>>

TopUp(c, amount, caller) ==
    /\ InState(c, {"Open"})
    /\ amount > 0
    /\ caller = channel[c].depositor
    /\ channel[c].balance_a + amount <= MaxBalance
    /\ Credit(c, amount)
    /\ vault' = vault + amount
    /\ UNCHANGED <<now, admin, count, towers, bounty, bountyPaid, seenNonce,
                   payout, debited>>

\* |now - timestamp| <= PROOF_FRESHNESS_WINDOW_SECS
Fresh(timestamp) == now - Skew <= timestamp /\ timestamp <= now + Skew

ConsumeNonceM(c, n) == UNCHANGED seenNonce
ConsumeNonce(c, n) == seenNonce' = [seenNonce EXCEPT ![c] = @ \cup {n}]

VerifyPaymentProof(c, n, timestamp, amount, payer, sigA, sigB) ==
    /\ amount > 0
    /\ InState(c, {"Open"})
    /\ payer = channel[c].depositor
    /\ BothSign(c, sigA, sigB)
    /\ Fresh(timestamp)
    /\ n \notin seenNonce[c]
    /\ channel[c].balance_a >= amount
    /\ channel[c].balance_b + amount <= MaxBalance
    /\ channel[c].sequence < MaxSeq
    /\ ConsumeNonce(c, n)
    /\ Record(c, channel[c].balance_a - amount, channel[c].balance_b + amount,
              channel[c].sequence + 1, "Open")
    /\ debited' = [debited EXCEPT ![c][n] = @ + amount]
    /\ UNCHANGED <<now, admin, count, towers, bounty, bountyPaid, vault, payout>>

\* Only the depositor funds a bounty, and only when none is reserved.
ReserveBounty(c, party, amount) ==
    /\ party = channel[c].depositor
    /\ bounty[c] = 0
    /\ amount <= channel[c].balance_a
    /\ Credit(c, -amount)
    /\ bounty' = [bounty EXCEPT ![c] = amount]
    /\ bountyPaid' = [bountyPaid EXCEPT ![c] = FALSE]

RegisterWatchtower(c, party, w, amount) ==
    /\ InState(c, {"Open"})
    /\ party \in Parties(c)
    /\ w \notin Parties(c)
    /\ w \notin towers[c]
    /\ amount <= MaxBounty
    /\ IF amount > 0 THEN ReserveBounty(c, party, amount)
                     ELSE UNCHANGED <<channel, bounty, bountyPaid>>
    /\ towers' = [towers EXCEPT ![c] = @ \cup {w}]
    /\ UNCHANGED <<now, admin, count, seenNonce, vault, payout, debited>>

\* The last watchtower to go returns an unpaid bounty to the depositor's side.
BountyRefund(c, w) == IF towers[c] = {w} THEN Reserved(c) ELSE 0

DeregisterWatchtower(c, party, w) ==
    LET refund == BountyRefund(c, w)
    IN
    /\ InState(c, {"Open"})
    /\ party \in Parties(c)
    /\ w \in towers[c]
    /\ channel[c].balance_a + refund <= MaxBalance
    /\ towers' = [towers EXCEPT ![c] = @ \ {w}]
    /\ Credit(c, refund)
    /\ bounty' = [bounty EXCEPT ![c] = IF refund > 0 THEN 0 ELSE @]
    /\ UNCHANGED <<now, admin, count, bountyPaid, seenNonce, vault, payout, debited>>

EarnBountyM(c, w) ==
    /\ bountyPaid' = bountyPaid
    /\ vault' = vault - Reserved(c)
    /\ payout' = [payout EXCEPT ![c][w] = @ + Reserved(c)]
EarnBounty(c, w) ==
    /\ bountyPaid' = [bountyPaid EXCEPT ![c] = @ \/ bounty[c] > 0]
    /\ vault' = vault - Reserved(c)
    /\ payout' = [payout EXCEPT ![c][w] = @ + Reserved(c)]

WatchtowerSubmit(c, w, a, b, seq, sigA, sigB) ==
    /\ InState(c, {"Closing", "Dispute"})
    /\ WindowOpen(c)
    /\ Newer(c, seq)
    /\ a >= 0 /\ b >= 0
    /\ w \in towers[c]
    /\ BothSign(c, sigA, sigB)
    /\ vault >= Reserved(c)         \* otherwise the bounty transfer traps
    /\ Record(c, a, b, seq, "Dispute")
    /\ EarnBounty(c, w)
    /\ UNCHANGED <<now, admin, count, towers, bounty, seenNonce, debited>>

\* A ledger closes with a later timestamp.
Tick ==
    /\ now < MaxTime
    /\ now' = now + 1
    /\ UNCHANGED <<admin, count, channel, towers, bounty, bountyPaid, seenNonce,
                   vault, payout, debited>>

-----------------------------------------------------------------------------

\* An entry point that takes a state: the caller supplies any signed contents.
SubmitAny(c) ==
    \E a, b \in Balance, seq \in 1..MaxSeq, x, y \in Addr :
        \/ SubmitState(c, a, b, seq, x, y)
        \/ InitiateClose(c, a, b, seq, x)
        \/ Dispute(c, a, b, seq, x, y)
        \/ \E w \in Addr : WatchtowerSubmit(c, w, a, b, seq, x, y)

ManageWatchtowers(c) ==
    \E party, w \in Addr :
        \/ \E amount \in Amount : RegisterWatchtower(c, party, w, amount)
        \/ DeregisterWatchtower(c, party, w)

Spend(c) ==
    \E amount \in Amount, x \in Addr :
        \/ TopUp(c, amount, x)
        \/ \E n \in Nonce, t \in 0..MaxTime, y, z \in Addr :
               VerifyPaymentProof(c, n, t, amount, x, y, z)

Settle(c) == \E seq \in 0..MaxSeq : Finalize(c, seq)

Next ==
    \/ Initialize
    \/ \E d, k \in Addr, amount \in Amount, window \in Windows :
           OpenChannel(d, k, amount, window)
    \/ \E c \in Id : SubmitAny(c) \/ Spend(c) \/ ManageWatchtowers(c) \/ Settle(c)
    \/ Tick

Spec == Init /\ [][Next]_vars
-----------------------------------------------------------------------------
(* Properties.                                                             *)

\* Finalize pays a channel out exactly once and to the unit: a closed channel
\* has paid its depositor the recorded balance_a (when positive) plus a bounty
\* nobody earned, and its counterparty balance_b; a party of a channel that is
\* not closed has been paid nothing.
SettlementExact ==
    \A c \in Id :
        IF channel[c].state = "Closed"
        THEN /\ payout[c][channel[c].depositor]
                    = Positive(channel[c].balance_a) + Reserved(c)
             /\ payout[c][channel[c].counterparty] = Positive(channel[c].balance_b)
        ELSE \A x \in Parties(c) \cap Addr : payout[c][x] = 0

\* Nobody but the parties is ever paid from a channel, except one registered
\* watchtower, once, the reserved bounty, within MAX_WATCHTOWER_BOUNTY.
BountyPaidOnce ==
    \A c \in Id : \A x \in Addr \ Parties(c) :
        payout[c][x] # 0 =>
            /\ bountyPaid[c]
            /\ x \in towers[c]
            /\ payout[c][x] = bounty[c]
            /\ \A y \in Addr \ Parties(c) : y # x => payout[c][y] = 0

\* A reserved bounty always has somebody who can earn it or give it back:
\* while it is unpaid a watchtower is registered, and it is only ever paid in a
\* channel that has left Open for good.
BountyBacked ==
    \A c \in Id :
        /\ Reserved(c) > 0 => towers[c] # {}
        /\ bountyPaid[c] => channel[c].state \in {"Dispute", "Closed"}

\* A closed channel never reopens, is never rewritten and never pays again.
ClosedIsFinal ==
    [][\A c \in Id : channel[c].state = "Closed" =>
           channel'[c] = channel[c] /\ payout'[c] = payout[c]]_vars

\* The sequence number never goes back, and a step that does not raise it can
\* only add to the depositor's side: top_up and the watchtower bookkeeping
\* never touch balance_b and never lose part of the reserved bounty.
SameSequenceKeepsFunds ==
    [][\A c \in Id : channel[c].state # "Absent" =>
           /\ channel'[c].sequence >= channel[c].sequence
           /\ channel'[c].sequence = channel[c].sequence =>
                  /\ channel'[c].balance_b = channel[c].balance_b
                  /\ channel'[c].balance_a + Reserved(c)'
                         >= channel[c].balance_a + Reserved(c)]_vars

\* Once the window has passed a disputed channel can only be settled as it
\* stands, and a closing one can only be settled or reopened by both parties
\* with a higher sequence number.
FrozenAfterWindow ==
    [][\A c \in Id :
           channel[c].state \in {"Closing", "Dispute"}
           /\ now > channel[c].dispute_deadline =>
               \/ \E st \in {channel[c].state, "Closed"} :
                      channel'[c] = [channel[c] EXCEPT !.state = st]
               \/ /\ channel[c].state = "Closing"
                  /\ channel'[c].state = "Open"
                  /\ channel'[c].sequence > channel[c].sequence]_vars

\* A payment-proof nonce moves money at most once per channel, however often
\* the proof is presented and whatever happens to the channel in between.
AtMostOneDebitPerNonce ==
    [][\A c \in Id, n \in Nonce :
           debited[c][n] # 0 => debited'[c][n] = debited[c][n]]_vars

\* docs/privacy/payment-channel-protocol.md:71: a unilateral close starts the
\* dispute window, so a close is never recorded after its own deadline.
CloseStartsWindow ==
    \A c \in Id : channel[c].state = "Closing" =>
        channel[c].closing_started_at <= channel[c].dispute_deadline
=============================================================================
