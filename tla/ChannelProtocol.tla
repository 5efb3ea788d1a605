--------------------------- MODULE ChannelProtocol ---------------------------
(***************************************************************************)
(* The payment-channel contract together with the wallets that use it: the *)
(* two parties co-sign channel states off the ledger.  A wallet signs the  *)
(* next state from the newest one it knows, moving one payment across      *)
(* (applyOffChainRenewal), and a party submits the states both signed.     *)
(* Of the entry points that take a state, initiate_close alone asks for a  *)
(* single signature: a party of a channel in OneSided also closes it with  *)
(* contents it wrote itself.                                               *)
(*                                                                         *)
(* Quiesced wallets deposit, spend by proof and reserve bounties on the    *)
(* ledger only when no co-signed state is still to be submitted.  The      *)
(* contract does not ask for that; without it a state signed before a      *)
(* deposit can overwrite the deposit.                                      *)
(***************************************************************************)
EXTENDS PaymentChannel

CONSTANTS
    Quiesced,       \* the wallets follow that discipline
    OneSided,       \* channels a party also closes with contents of its own
    Alice, Bob, Tower,   \* the parties and the watchtower
    Lifetime        \* bound: a channel's deadline lies before this time

ASSUME ProtocolConstants ==
    /\ {Alice, Bob, Tower} \subseteq Addr
    /\ Cardinality({Alice, Bob, Tower}) = 3
    /\ Quiesced \in BOOLEAN /\ OneSided \subseteq Id
    /\ Lifetime \in 1..MaxTime

VARIABLES
    signed,         \* states both parties of a channel have signed
    deposited       \* history: tokens ever deposited into a channel

pvars == <<vars, signed, deposited>>

SignedState == [a : Nat, b : Nat, seq : 1..MaxSeq]

ProtocolTypeOK ==
    /\ TypeOK
    /\ signed \in [Id -> SUBSET SignedState]
    /\ deposited \in [Id -> Nat]

\* Co-signed states that would still replace the recorded one.
Pending(c) == {s \in signed[c] : s.seq > channel[c].sequence}

\* The newest state the parties know: the last one they signed, or the recorded.
Head(c) ==
    IF Pending(c) = {}
    THEN [a |-> channel[c].balance_a, b |-> channel[c].balance_b,
          seq |-> channel[c].sequence]
    ELSE CHOOSE s \in Pending(c) : \A t \in Pending(c) : t.seq <= s.seq

MayUseLedger(c) == Quiesced => Pending(c) = {}

-----------------------------------------------------------------------------

ProtocolInit ==
    /\ Init
    /\ signed = [c \in Id |-> {}]
    /\ deposited = [c \in Id |-> 0]

Open(amount, window) ==
    /\ now + window < Lifetime
    /\ OpenChannel(Alice, Bob, amount, window)
    /\ deposited' = [deposited EXCEPT ![count + 1] = amount]
    /\ UNCHANGED signed

NextState(s, amount) == [a |-> s.a - amount, b |-> s.b + amount, seq |-> s.seq + 1]

\* applyOffChainRenewal: the next state moves amount to the executor's side.
Renew(c, amount) ==
    LET s == Head(c) IN
    /\ InState(c, {"Open"})
    /\ amount > 0 /\ s.a >= amount /\ s.seq < MaxSeq
    /\ signed' = [signed EXCEPT ![c] = @ \cup {NextState(s, amount)}]
    /\ UNCHANGED <<vars, deposited>>

Submit(c, s) ==
    /\ SubmitState(c, s.a, s.b, s.seq, Alice, Bob)
    /\ UNCHANGED <<signed, deposited>>

\* What initiate_close is called with, under one party's signature.
Closable(c) ==
    signed[c] \cup
    {s \in [a : Balance, b : Balance, seq : 1..MaxSeq] : c \in OneSided}

Close(c, s) ==
    /\ \E sig \in {Alice, Bob} : InitiateClose(c, s.a, s.b, s.seq, sig)
    /\ UNCHANGED <<signed, deposited>>

Challenge(c, s) ==
    /\ Dispute(c, s.a, s.b, s.seq, Alice, Bob)
    /\ UNCHANGED <<signed, deposited>>

TowerSubmit(c, s) ==
    /\ WatchtowerSubmit(c, Tower, s.a, s.b, s.seq, Alice, Bob)
    /\ UNCHANGED <<signed, deposited>>

Deposit(c, amount) ==
    /\ MayUseLedger(c)
    /\ TopUp(c, amount, Alice)
    /\ deposited' = [deposited EXCEPT ![c] = @ + amount]
    /\ UNCHANGED signed

ProofSpend(c, n, amount) ==
    /\ MayUseLedger(c)
    /\ VerifyPaymentProof(c, n, now, amount, Alice, Alice, Bob)
    /\ UNCHANGED <<signed, deposited>>

Watch(c, amount) ==
    /\ MayUseLedger(c)
    /\ RegisterWatchtower(c, Alice, Tower, amount)
    /\ UNCHANGED <<signed, deposited>>

Unwatch(c) ==
    /\ MayUseLedger(c)
    /\ DeregisterWatchtower(c, Alice, Tower)
    /\ UNCHANGED <<signed, deposited>>

Pay(c) ==
    /\ Finalize(c, channel[c].sequence)
    /\ UNCHANGED <<signed, deposited>>

Pass ==
    /\ Tick
    /\ UNCHANGED <<signed, deposited>>

UseState(c, s) == Submit(c, s) \/ Challenge(c, s) \/ TowerSubmit(c, s)

UseLedger(c) ==
    \/ \E amount \in Amount : Deposit(c, amount) \/ Watch(c, amount)
    \/ \E n \in Nonce, amount \in Amount : ProofSpend(c, n, amount)
    \/ Unwatch(c)

ProtocolNext ==
    \/ \E amount \in Amount, window \in Windows : Open(amount, window)
    \/ \E c \in Id : (\E amount \in Amount : Renew(c, amount)) \/ UseLedger(c) \/ Pay(c)
    \/ \E c \in Id : \E s \in signed[c] : UseState(c, s)
    \/ \E c \in Id : \E s \in Closable(c) : Close(c, s)
    \/ Pass

ProtocolSpec == ProtocolInit /\ [][ProtocolNext]_pvars

\* Ledgers keep closing, and somebody calls finalize once it can succeed
\* (anyone may).
FairSpec ==
    /\ ProtocolSpec
    /\ WF_pvars(Pass)
    /\ \A c \in Id : WF_pvars(Pay(c))

-----------------------------------------------------------------------------
(* Properties.                                                             *)

PaidOut(c) == payout[c][Alice] + payout[c][Bob] + payout[c][Tower]

Locked(c) ==
    IF InState(c, {"Open", "Closing", "Dispute"})
    THEN channel[c].balance_a + channel[c].balance_b + Reserved(c) ELSE 0

Recorded(c) ==
    [a |-> channel[c].balance_a, b |-> channel[c].balance_b,
     seq |-> channel[c].sequence]

\* Both parties signed the contents under which channel c closes.
Agreed(c) == InState(c, {"Closing", "Dispute", "Closed"}) => Recorded(c) \in signed[c]

\* docs/privacy/payment-channel-protocol.md:247: the two balances, the bounty
\* still reserved and what was already paid out add up to what was deposited,
\* whatever states the parties submitted and in whatever order.  The contract
\* keeps this for contents both parties signed only, and again as soon as a
\* co-signed state replaces those of a one-sided close.
Conserved == \A c \in Id : Agreed(c) => Locked(c) + PaidOut(c) = deposited[c]

\* The executor's side of a record both parties agreed to only grows: no older
\* state, proof, top-up or bounty takes back what it was promised.  What does
\* is the other party's close with contents of its own, the excepted step.
ExecutorNeverLoses ==
    [][\A c \in Id : ~InState(c, {"Absent"}) /\ Agreed(c) /\ Agreed(c)' =>
           channel'[c].balance_b >= channel[c].balance_b]_pvars

\* What is still owed to the parties and the watchtower of channel c.
Owed(c) ==
    IF InState(c, {"Open", "Closing", "Dispute"}) THEN deposited[c] - PaidOut(c) ELSE 0

\* The channels together behave as the abstract ledger: each step locks tokens
\* in one channel or releases them from one, the vault moves by as many, and
\* settling releases them all.  Only a channel one party closed alone settles
\* for another amount, and no step of it changes what another channel is owed.
Ledger == INSTANCE ChannelLedger WITH
    Breachable <- OneSided,
    held <- [c \in Id |-> Owed(c)],
    paid <- [c \in Id |-> PaidOut(c)],
    settled <- [c \in Id |-> InState(c, {"Closed"})]
ImplementsLedger == Ledger!LedgerSpec

\* A channel settled under contents only one party signed.
Breached == \E c \in Id : InState(c, {"Closed"}) /\ ~Agreed(c)

\* The contract holds exactly what its channels are owed, so settling one
\* channel never spends the tokens of another and finalize never traps, until
\* a channel settles under contents only one party signed.
Solvent == \/ vault = Cardinality(Ledger!Token) /\ \A c \in Id : Owed(c) >= 0
           \/ Breached

\* A close is not the end of the parties' money: a channel that is closing or
\* disputed is settled in the end (or reopened by both parties), unless a
\* one-sided close, its own or another channel's, records or took more than
\* the contract holds.
ClosingEnds ==
    \A c \in Id : InState(c, {"Closing", "Dispute"}) ~>
        \/ InState(c, {"Closed", "Open"})
        \/ vault < Total(c) /\ \E d \in Id : ~Agreed(d)
=============================================================================
