# SYNCRO: formal models

SYNCRO is a set of metered payment rails on Stellar: an agent calls a paid
route through a gateway, the call is metered against a spend cap, paid by a
proof over a payment channel, and settled on chain later. This directory holds
TLA+ models of the parts of it that carry money and run concurrently, TLC
configurations that check them on small instances, and TLAPS proofs of their
main safety properties for every value of the constants.

Paths are relative to the repository (`src/`). Line numbers are those of the
modelled commit. `PROJECT.json` maps every definition to the lines it models.

## 1. The system

```
 agent / SDK ──paid request──▶ gateway (routes/v3/gateway.ts, gateway-lifecycle.ts)
                                 │  identity → price → scope → cap → proof → reservation
                                 │             spend-cap-service   payment-challenge-service
                                 ▼
                              upstream provider
 wallets ──co-signed states──▶ payment-channel contract ◀── watchtower, anyone (finalize)
    ▲                            ▲
 payment-channel-service      chain-submission-client ◀── settlement-batcher (cron) ◀── enqueue
 channel-state, jobs             ▲                           ▲
    └── channel-signer-lease ────┘             agent-key-compromise-service (cancels rows)
```

### 1.1 Components, their state, and what is hard about them

| Component | State | Operations | Hard behaviour | What makes it correct |
|---|---|---|---|---|
| Payment channel contract (`contracts/contracts/payment-channel/src/lib.rs`) | channels, watchtowers, bounty, seen nonces, token balance | open, submit, close, dispute, finalize, top up, proof payment, watchtower register / deregister / submit | states signed off the ledger arrive late and in any order; a deadline; a bounty paid in one call and returned in another | exact, single settlement; money moves only under a newer sequence number; bounty paid once; a nonce debits once |
| Wallets, watchtower (`payment-channel-service.ts`, `channel-monitor-job.ts`) | newest signed state | sign the next state, submit, close, dispute | what they sign races with what they do on the ledger | deposits are conserved wherever both signed; a close that one party wrote alone touches its own channel only |
| Channel signer lease (`channel-signer-lease-service.ts` and three SQL functions) | one row per channel: holder, expiry, counter | acquire, allocate a nonce, sign, release | several instances, crashes, lost replies, `NOW()` older than the row lock | nonces unique, an active holder is not displaced, a crashed one is replaced |
| Gateway lifecycle, spend cap, payment proofs (`services/v3/*.ts`) | cap cache, consumption, open reservations, nonces, newest sequence numbers — all in memory | admit, call upstream, commit or release, reconcile | requests overlap while the upstream call is awaited; disconnection; a settlement lands meanwhile | a proof pays once; each reservation is settled once; the cap view does not drift |
| Settlement queue (`settlement-batcher.ts`, `settlement-batch-job.ts`) | table `pending_settlements`, in-flight counter | enqueue, batch run, cancel | cron ticks overlap; check then insert; failed calls; restart between chain call and mark | nothing stuck, nothing overtaken, no row sent more often than it must be |
| Channel book (`payment-channel-service.ts`, `channel-state.ts`, two cron jobs) | table `payment_channels` with a JSON state | renew, top up, close, finalize, watchtower sweep | whole-state read then write, no comparison of sequence numbers | sequence strictly rises, closed is final, balances conserved |
| Disputes (`escrow`, `resolver-registry`) | agreement, approvals, arbiter set, pause | create, deposit, approve, release, refund, dispute, rotate, resolve, escape hatch | two beneficiaries, one deposit, a deadline, approvals reset by rotation and dispute | paid out once, to one side, with the approvals of the current arbiters |
| Caps (`virtual-card`, `allowance`) | balance, spend counters per bucket, lists | issue, pay, suspend, close, escape hatch | bucket boundaries, state written before an error is rolled back | spent within the limit and the balance |
| Registry, scopes, admission (`agent-registry`, `v3/scope-enforcer.ts`, `admission-service.ts`, `admission-cache.ts`) | scope mask per agent, caches | register, grant, revoke; check with cache | a read races with a revocation and is cached after it | a revoked agent is refused within the time to live |
| Chain submission (`blockchain/chain-submission-client.ts`) | in-memory idempotency keys, account sequence | submit with retries | a timeout whose outcome is unknown, retried blindly | a request lands no more often than it was given up blindly, plus once |
| Events (`event-listener.ts`, `reorg-handler.ts`) | events, cursor | fetch, save, advance; roll back; stop after repeated failures | separate calls, crash in between, answers that end early | no event lost or applied twice, but for the named failures |
| Idempotency, outbox, locks | one row per key / event / cycle | check, run, store; publish; acquire, release | check then act; overlapping batches; expiry while held | at most one effect; at least one delivery; one holder |
| Meter `quota_guard/`, receipts, SDK, other contracts, frontends | – | – | sequential, or pure data | – |

`src/README.md:60-70` names the same parts (gateway, meter, settlement engine,
registry, channels, caps, disputes, receipts) and calls the subscription
renewal product retired.

### 1.2 What is modelled

| Module | Models | Lines (module / code) |
|---|---|---|
| `PaymentChannel` | the contract, every entry point that changes state | 402 / 684 |
| `ChannelProtocol` | the contract composed with co-signing wallets, one-sided closes and a watchtower | 213 / 700 |
| `ChannelLedger` | abstract: what whoever holds deposits promises about the money; implemented by `ChannelProtocol` and by `Escrow` | 63 |
| `ChannelBook` | the row of one channel off the ledger: requests, hourly sweep, settlement job | 220 / 350 |
| `SignerLease` | `signWithLease` in several instances and the SQL functions | 244 / 289 |
| `NonceService` | abstract: what the lease promises, without transactions, clocks and crashes; implemented by `SignerLease` | 61 |
| `MeteredCall` | gateway lifecycle, spend cap, proof replay guard, settlement and reconciliation | 252 / 383 |
| `SettlementQueue` | enqueue, overlapping batch runs, cancellation, restart | 263 / 188 |
| `ChainSubmission` | `submit` of the chain client for one account, over an unreliable network | 254 / 234 |
| `Escrow` | the escrow contract, every entry point that can change state | 258 / 473 |
| `EventLog` | the event listener's poll and rollback, with failing calls | 257 / 259 |
| `ChannelProofs`, and `…Proofs` of each of the other models | theorems and proofs (§4) | |
| `MC…`, one per module | instances for TLC | |

How they fit together: `ChannelProtocol` extends `PaymentChannel` and is what the
wallets see; `ChannelBook` is the backend's own copy of the same channel, and its
settlement job produces the rows that `SettlementQueue` batches; whatever either
sends to the chain goes through `ChainSubmission`, and what the contracts emit
comes back through `EventLog`. The backend couples these parts by database rows
and awaited calls that carry no more than an amount and a status, so that each
is checked on its own against everything the neighbour may do (a failing or
repeated call, an answer that is late) rather than as one product.

An operator with the suffix `M` is the definition next to it with one plausible
mistake in it. Nothing uses it; it is there to try whether the properties notice.

## 2. The models and the code

### PaymentChannel

One action per entry point, with the guards in the order of the code; an entry
point that returns `Err` or traps is rolled back by the ledger and is no step.
Ledger time (`now`) passes in `Tick`. The contract verifies who signed, not what:
so `SubmitAny` lets the callers supply *any* balances in `Balance` (negative ones
too, since only `watchtower_submit` refuses them) and any higher sequence number.
`vault` is the token balance of the contract; `payout` and `debited` are history.
Abstracted: the token address (one token — the contract keeps one balance per
token and the channels of one token share it), events, the signature bytes
(signatures are the set of addresses that authorised), storage lifetimes.
`initiate_close` takes one party's signature (lib.rs:295), as modelled.

### ChannelProtocol and ChannelLedger

`signed[c]` is the set of states both parties have signed. `Renew` is
`applyOffChainRenewal` (payment-channel-service.ts:166-195): the next state moves
one payment to the executor and raises the sequence number. `submit_state`,
`dispute` and `watchtower_submit` ask for both signatures, so only states of
`signed` go through them, in any order, by whoever may. `initiate_close` asks for
one (lib.rs:295): a party closes with a state of `signed` or, in a channel of
`OneSided`, with *any* balances in `Balance` under any higher number (`Closable`).
`OneSided` may be every channel; a smaller set is there to let TLC have a close
of that kind next to a channel without one.

What such a close does is part of the properties. `Agreed(c)` says that both
parties signed the contents under which c closes, `Breached` that a channel was
settled without. The counterparty can take the executor's money by a close of its
own, unless a newer co-signed state is submitted in the window: no property
denies it. What they say is how far it reaches: `Conserved` holds again as soon as
a co-signed state is back, `ExecutorNeverLoses` holds from one agreed record to the
next, no step of one channel changes what another is owed (`ImplementsLedger`), and
the vault is exact until the first such settlement (`Solvent`). After that it may be
short, because finalize pays what the record says: with a record above the deposit
one channel is settled with the tokens of another.

No watchtower is assumed to be awake. `runWatchtowerSweep`
(channel-monitor-job.ts:34-60) rewrites the row of the book and never calls the
contract's `watchtower_submit`, so that nothing in the repository answers a stale
close; `TowerSubmit` is something a tower may do.

One switch describes the environment. `Quiesced`: the wallets touch the ledger
(top up, proof payment, watchtower bounty) only when no co-signed state is still to
be submitted. The contract does not ask for this and nothing in the backend
enforces it. With it, `Conserved` and `Solvent` hold; without it they do not (set
`Quiesced = FALSE` in MCChannelProtocol.cfg and TLC shows a top-up that a state
signed before it overwrites). This is the discipline a wallet needs, stated.

`ChannelLedger` is the abstract specification: tokens locked in a channel leave
it only as payments out of that channel, the last one takes the rest, no step
touches another channel, and the one vault moves by as much as the channel does.
A channel in `Breachable` may also settle for any amount the vault has (`Breach`);
what the other accounts are owed stays as it is, though the vault may no longer
cover it. `ImplementsLedger` is the
refinement, with `paid` and `settled` computed from the contract's state, `vault`
the contract's own, and `held` what the channel is owed: its deposits less what it
paid, which is what it locks as long as its record is agreed. The ledger names the
tokens that are held (`Token`, one per unit and channel): `Solvent` says that the
vault is their number, which is the sum over all channels without a recursive
definition.

### SignerLease

A call of `signWithLease` goes through idle → acquiring → granted → allocating →
signing. Each SQL function is a transaction that reads `NOW()` when it begins
and then waits for the row (`FOR UPDATE`): `Begin` and the action itself are two
steps, and `age` is how old the clock is. Time is relative: `left` is what is
left of the lease, negative once it has expired. If no row exists there is
nothing to lock: `Acquire` goes to `inserting`, where the unique index decides.
`Reply` loses the answer of a committed transaction, `Abort` rolls one back,
`Crash` ends an instance with all its calls. `handed` is history. The lease
service has tests and documents and no caller outside them at this commit.
`NonceService` is what is left when transactions, clocks, lost replies and crashes
are taken away: terms that begin and are given up, one holder at a time, nonces in
order. A holder whose lease has run out may still be given a nonce, until
another instance takes over: a transaction that began in time and waited for the
row finds the lease active by its own clock.

### MeteredCall

The middlewares of a request call `next()` synchronously, so everything up to
the upstream call is one step (`Admit`, `Refuse`); only the upstream call is
awaited. `Answer`, `Fail` and `Disconnect` are the three ways on
(gateway-lifecycle.ts:225-311); a disconnection releases the reservation and the
handler goes on. `consumeLocal` charges whether or not the reservation was still
open. `SettleOnChain` and `Reconcile` are `reconcileSettlement` split where the
chain is: calls are charged in between. `Restart` loses all memory. `setCap` and
`reconcileSettlement` have no caller in the repository outside tests; the order
in which they are called is taken from
`backend/tests/v3-gateway-ops.test.ts:247-276`. The channel balances the proof
service records are read by nothing and left out. With the default (simulated)
upstream a request never overlaps another; `customUpstream` is awaited, and the
model takes that case. The `close` event of a request can fire as soon as its
body is read, which is inside the model: it is one of the times `Disconnect` is
enabled.

### SettlementQueue

Rows are numbered by `created_at`; `1..due` are old enough for `maxWaitMs`.
Every `await` is a step boundary: `CheckDepth` / `Insert`; `ReadAged` /
`ReadRecent` / `Send` / `Mark`. A supabase error is dropped by the code and reads
as an empty result; the model counts failed calls and restarts (`faults`).
`Send` is `syncSubscription`, which hands the batch to `ChainSubmissionClient.submit`
(blockchain-service.ts:803) and reports success even when the chain write fails;
`submitBatch` marks the rows in all cases, so that the outcome makes no difference
here. `sends` is history: how often each row was handed over. `SendsBounded` bounds
that, and is silent on how often one of these sends lands, which is
`LandsBounded` of ChainSubmission: the client retries blindly, so one send can
take effect more than once. `Cancel` is
`containCompromisedKey`. Notes for a reader of the code: two migrations create
the table — `20260624000003` with `cancelled` and `batched` and without
`submitted`, `20260624120001` (`IF NOT EXISTS`) the other way round — and the
model takes the union, as `shared/src/generated/database.ts` does. `syncSubscription`
does not use the payload of a batch. Several replicas of the backend, each with
its own in-flight counter, are outside the model.

### ChannelBook

Every call of `payment-channel-service` reads the row, awaits, and writes the
whole `channel_state` it computed: `Begin` and `Write` are two steps, and what a
handler is about to write sits in `doing` in between. The monitor's sweep is
`ListSweep` / `Sweep`: it submits what its list query returned, not what the row
holds by then. The settlement job is `ListDue` / `Enqueue` / `CloseDue`, three
calls of which the last may fail (`CloseFails`). `Finalize` is the second
of the two updates that close an expired channel. `overlapped` is history: two calls met between a read
and its write. The properties say what holds until then and what holds even
after.

### ChainSubmission

Each `await` of `submit` ends a step: waiting for the account lock, reading the
account, sending, polling, asking the ledger, backing off. The network is
external: a transaction sent may land or not, whatever the sender hears (`Send`
has both outcomes under each answer); the ledger takes an account's transactions
in sequence (`Land`); a query may lag behind it. `blind` is history: an attempt
was given up without its fate being known. Left out: fees (one more error that is
retried), calls without an idempotency key (nothing is promised for them), and
other accounts, which share nothing with this one.

### Escrow

One action per entry point; a panic rolls the transaction back and is no step.
Payer and payee are roles, because `validate_arbiter_set` keeps both out of the
arbiters. `approve_release` is `approve_release_by_arbiter` for the arbiter on
record. `resolve_dispute` appears as its guard only (`CanResolve`), since no
reachable state passes it: `QuorumResolves` states what ADR-006 and the contract's
tests expect, and its run shows the approval that defeats it; `NeverResolvable` (§4)
shows that there is no other way. `fresh` and `cleared` are history: who approved
since the last dispute or rotation, and whether a full quorum ever did since the
last dispute. `resolver-registry`, which calls `resolve_dispute`, therefore
never completes a vote and is not modelled.

### EventLog

A poll is a sequence of calls, to the RPC node or to the database, and each is a
step: newest ledger (`Poll`), rollback (`Select`, `Delete`, `Reset`,
`ReadCursor`), events (`Fetch`), insert (`Save`), cursor (`Advance`). `pc` is the
next one. Stellar ledgers are final, so that an answer below the cursor is never a
fork: it comes from a node that lags or from an error answer, which the code
reads as ledger 0; `reorg-handler` runs all the same. Failed calls, lagging
answers and restarts draw on one budget. The failure of a call is what supabase
makes of it: an `error` in the result, which some callers look at and others do
not. `lost` and `torn` are history: a rollback deleted rows and did not move the
cursor; rows and position were not written together. `revertEvent` compares with
event types such as `RenewalSuccess` while the rows hold `renewal_success`, so a
rollback reverts no subscription and the model has no such step. What the handlers
write is repeated with the event and left out. That a node refuses a `startLedger`
below 1 is external.

The listener asks for one page (event-listener.ts:256-272) and moves the cursor to
the newest ledger on it (:252). So an answer may end at any ledger without a
fault, which the next poll makes good, and inside one, which nothing does: `part`
in `Fetch` and `rest` are the ledger whose modelled event, the last one it holds,
the answer stopped short of. The events before it stand for themselves: the
listener skips them. Such an event goes to `lost` when the cursor passes it.
After `MaxRetries` failures in a row the listener is `failed` and no step but
`Restart` leaves that state (:204-212).

## 3. What is checked

`tlc -workers 2 -config X.cfg M` for the module and configuration of each run;
the longest takes about two minutes.

| Run | Module / cfg | Result | What it shows |
|---|---|---|---|
| `channel_contract` | MCPaymentChannel | holds, 73 020 states | with arbitrary signed contents: settlement is exact and final, the bounty is paid at most once, funds need a newer sequence number, nothing changes after the window but settlement, one debit per nonce |
| `channel_protocol` | MCChannelProtocol | holds, 778 769 | two channels on one vault, one of which either party may close alone with balances of its own: conservation and an executor that never loses wherever both signed the record, refinement of `ChannelLedger`, solvency until a one-sided close is settled; a closing channel is settled or reopened, unless such a close asks for more than there is |
| `channel_close_window` | MCChannelProtocol / MCChannelCloseWindow | violated | the deadline is fixed at opening (`CloseStartsWindow`) |
| `channel_book` | MCChannelBook | holds, 1 296 826 | two requests and the job on one row: what is true until calls overlap (balances add up, numbers rise, closed is frozen) and what stays true after (never active again, deposits never overstated, enqueued once per failed run) |
| `signer_lease` | MCSignerLease | holds, 469 508 | unique nonces across expiry, takeover, crash and lost replies; no early takeover; refinement of `NonceService`; a crashed holder is replaced |
| `metered_call` | MCMeteredCall | holds, 311 515 | one payment per proof, reservations settled once and ended, no drift, bounded overshoot |
| `settlement_queue` | MCSettlementQueue | holds, 692 187 | two enqueue calls and two batch runs at once with a fault: bounded depth, oldest first, sends bounded, every row leaves the queue |
| `settlement_cancelled` | MCSettlementQueue / MCSettlementCancel | violated | a cancelled row is settled after all (`CancelledStays`) |
| `chain_submission` | MCChainSubmission | holds, 660 365 | two calls, two attempts each, a restart: effects of a key bounded by the attempts given up blindly, success only reported when true, every call ends |
| `escrow` | MCEscrow | holds, 100 163 | two escrows on one vault: paid out once and exactly (refinement of `ChannelLedger`), released only after a full quorum, a lasting pause gives the money back |
| `escrow_resolve` | MCEscrow / MCEscrowResolve | violated | a quorum on a disputed escrow does not let `resolve_dispute` through (`QuorumResolves`) |
| `event_log` | MCEventLog | holds, 499 458 | the cursor never runs ahead of the log, nothing is inserted twice, every event is saved — and the failures under which each of these stops being true, the permanent stop included |

The three violations are disagreements between the code and a sentence of the
repository, quoted in `PROJECT.json` under `findings`. Each counterexample is
short and can be read with the command above.

Every module has a type invariant, `TypeOK`. The theorems `TypeCorrect` and
`Disciplined` (§4) cover all of them, and no run repeats them.
`InFlightExact`, `CounterCoversHanded`, `OnlyHolderAllocates` and `BountyBacked`
are defined beside the other properties and proved (§4), not run.

### Bounds, and why they are enough

* **PaymentChannel**: one channel, because no entry point reads another channel
  (sharing of the vault is `channel_protocol`'s question); four interchangeable
  addresses so that two are parties and two watchtowers; balances −1..2 so that a
  negative, a zero and an excessive balance can be signed; sequence numbers to 2
  (submitted, then overtaken); time 0..2 with windows 0 and 1, so before, at and
  after the deadline; one nonce, presented repeatedly.
* **ChannelProtocol**: two channels of amount at most 1 with top-ups to 2, two
  signed states apiece after the opening one (an old and a newest), `Lifetime`
  bounds the deadline so that there is time left after it. The second channel may
  be closed by one party alone with balances 0 or 1 a side, so less, as much and
  more than it was given, and next to a channel whose tokens it could take. (The
  proofs take any number of such channels and any balances.) The run for the
  violation takes one channel and three numbers.
* **ChannelBook**: one row, since no call touches two; two requests and the job,
  so that a call can be overtaken by one and by two others; one deposit and one
  top-up, numbers to 3, one failed run.
* **SignerLease**: two instances, one with two concurrent calls; a lease of two
  ticks and transactions that wait one; two rows, so that a release begins the
  count again; two nonces under the first and one under the second, so that the
  second holder can go on where the first stopped.
* **MeteredCall**: two concurrent requests over two channels and two nonces; a
  price of 2 under an upper bound of 3 and a cap of 7, so that two admissions
  together pass the cap and the bound of `OvershootBounded` is reached.
* **SettlementQueue**: two enqueues, two runs, batches of two out of three
  rows, so that a row can be left behind and a row can wait alone; one fault.
* **ChainSubmission**: two calls that share a key or do not, two attempts each, so
  that a blind retry and a call that joins another both happen; one restart.
* **Escrow**: two arbiters give sets of one and two with every threshold and
  rotations between them; amounts 0 and 1; a clock of 0..2 with a grace of 1
  covers before, at and after expiry and grace.
* **EventLog**: three ledgers, a safety margin of one, so that a rollback reaches
  behind the cursor; three faults, so that a rollback, a failure inside it and a
  failure of the next poll meet; two attempts, fewer than there are faults, so that
  the listener also stops for good.

Counters are capped by guards named after their bound: `MaxTime`, `MaxSeq`,
`MaxBalance`, `MaxDeposits`, `MaxFailed`, `MaxNonce`, `MaxRows`, `MaxFaults`,
`MaxRestarts`, `MaxWait`, `MaxEscrows`, `MaxLedger`. `CHECK_DEADLOCK FALSE`
appears where these bounds, a settled channel, or a call made once end a
behaviour; and in `EventLog`, where the code itself stops. Symmetry is used only
in runs without liveness properties.

### Fairness

* Channel: ledger time passes (`WF` on `Pass`) and somebody calls `finalize` once
  it can succeed (anyone may). Neither the parties nor a watchtower are assumed to
  be fair.
* Lease: time passes; the steps of a call that runs are taken; an acquire that
  is tried again and again is not aborted every time (`SF` on `Acquire`). All this
  is asked of the calls of `Reliable` instances only, which do not crash.
* Gateway: the upstream call answers or throws. The gateway sets no time limit;
  this is an assumption on the provider.
* Settlement: rows age, the cron job keeps firing, and the calls of a started run
  return. There is no time limit on the chain call; with `maxInFlight` calls that
  never return the queue stops.
* Chain submission: each request of a call returns or times out (the client sets
  a limit on the confirmation). Nothing is assumed of the network: a
  transaction need never land.
* Escrow: ledgers close, and a payer locked out by a pause keeps calling the
  escape hatch. Nothing is assumed of payee, arbiters and admin; a pause that is
  lifted ends the promise.
* Event listener: each call of a poll returns or throws, and the timer polls
  again. Ledgers need not close.

## 4. What is proved

`tlapm M.tla` checks each proof module. Every theorem holds for all values of
the constants that satisfy the module's named assumption, and for behaviours of
`Spec` (no fairness).

* **ChannelProofs**, on the contract (from `ChannelConstants`): `TypeCorrect`,
  `ExactSettlement`, `BountyOnce`, `BountyAlwaysBacked`, `ClosedForGood`,
  `FundsNeedANewSequence`, `WindowFreezes`, `OneDebitPerNonce`. The properties are
  not inductive: that finalize pays a party exactly once needs that the two
  parties differ and that neither is a watchtower, that an unopened channel holds
  nothing, and that a paid bounty has its watchtower still registered. `IInv` adds
  these (`Untouched`, `PartiesInv`, `SettledInv`, `BountyInv`, `NonceInv`) channel
  by channel; `Frame` carries them over for the channels a step does not touch,
  `Rewrite` for the entry points that only replace balances. The action properties
  follow from `StepShape`: a step leaves a channel the same, opens it, rewrites it
  under a higher number, credits the depositor, or finalizes it.
* **ChannelProofs**, on the contract with its wallets (from `ProtocolConstants`
  and `Quiesced`, for every `OneSided`): `FundsConserved`, `ExecutorSafe`,
  `KeepsLedger`, `VaultIsOwed`, `PayoutsCovered`, on the invariant `PInv`
  (`Disciplined`). It adds to the contract's: a co-signed state that is still to be
  submitted carries what the channel is owed, also while the record is one that a
  party wrote alone; it moves an agreed record only towards the executor, and the
  later of two such states moves it further. Without `Quiesced` this is what a top-up
  breaks. Every step of the composition is shown to be a step on one channel
  (`Step`), or the clock, and the rest is proved once for such a step:
  * `ExecutorSafe` compares two agreed records that one step leads between. A close
    of one party alone leads from an agreed record to one that is not, and is the
    only such step.
  * For the refinement (`KeepsLedger`), what a channel with an agreed record locks
    and what it paid out together are what was deposited. A settlement under a
    record that is not agreed maps to `Breach`, and only there is it used.
  * `VaultIsOwed` is `Solvent`. A sum over the channels would be a fold, and what a
    fold computes needs an induction that the provers lack. So the sum is the
    cardinality of the set of tokens: a step changes the tokens of one channel only,
    those of the others are a set disjoint from them (`Disjoint`), and the
    cardinality changes by what the channel's does (`Recount`). `PayoutsCovered`
    follows, since one channel's tokens are a subset: until a one-sided close is
    settled, the vault covers the transfers of a bounty, and of finalize wherever
    the record is agreed. The guards of these in the model (`vault >= ...`) stand
    for a trap of the token contract.
  * `WalletsUseContract` (from `Nat \subseteq Balance`, without `Quiesced`): every
    behaviour of the composition is one of the contract's `Spec`, so that the
    contract's theorems hold of it; `WalletsSettleExactly` is one of these. It
    needs that no action of a wallet overdraws a side (`Sane`).
* **ChannelBookProofs** (from `BookConstants`): `TypeCorrect`, `BooksBalance`,
  `SettlesOnce`, `SequencesRise`, `ClosingFreezes`. `BInv` keeps two kinds of
  fact apart: `Covered` and `Counted` survive any overlap (no call overstates the
  deposits, since deposits only grow; a listed channel is enqueued once), while
  `Alone` — the one call in progress computed its state from the row as it is —
  holds until two calls overlap.
* **SignerLeaseProofs** (from `LeaseConstants`): `TypeCorrect`, `NoDuplicateNonce`,
  `CounterNeverBehind`, `HolderKeepsLease`, `HolderAllocates`. The invariant adds
  that nonces are only handed out under rows that were inserted, and that the
  counter covers those of the current row — uniqueness alone is not inductive.
  `HolderKeepsLease` needs only that a transaction's clock is never ahead.
  `KeepsService` is the refinement of `NonceService`, action by action: acquiring
  renews or takes over what has run out also by the true clock, and a granted lease
  runs when the transaction commits, as it waited less than a term.
* **MeteredCallProofs** (from `MeteredConstants`): `TypeCorrect`, `CapOvershoot`,
  `LocalViewExact`, `OnePaymentPerProof`, `ReservationsExact`. `CapInv` joins the
  cap view (`ChainView`: the cached cap lags behind the chain by what is not
  reconciled, and that much is still counted as consumed) with the two
  properties; without it `Reconcile` could not be shown to lose nothing.
  `ProofInv` adds that a number above the newest accepted one was never used.
  Counting requests is done with cardinality lemmas (`WaitingBegins`,
  `WaitingEnds`, `ReservedCloses`).
* **SettlementQueueProofs** (from `QueueConstants`): `TypeCorrect`, `CounterExact`,
  `DepthOvershoot`, `OldestFirst`, `ResendsBounded`. `SentIInv` = types, exact
  counter, `ReadInv` (what a run has read leaves nothing older behind) and
  `SentInv`: a row that is still pending was sent only by runs that are marking
  it or failed to; any other row also by runs that read it while it was pending,
  of which there are at most as many as the in-flight cap (hence the counter).
* **ChainSubmissionProofs** (from `SubmissionConstants`): `TypeCorrect`,
  `EffectsBounded`, `SuccessIsTrue`. What must be counted is not what landed but
  what still may (`Possible`): all transactions of a key that landed well or are
  in the pool. They number at most the attempts given up blindly, plus the
  restarts, plus the send the call is about at the moment; and that one is no
  longer possible when the client learns that it failed. This rests on
  `inflightRequests` letting only one call of a key run at a time, and on
  `completedSubmissions` keeping later ones from sending after a success.
* **EscrowProofs** (from `EscrowConstants`): `TypeCorrect`, `ClearedRelease`,
  `NeverResolvable`, `KeepsLedger`, `VaultIsHeld`, `PayoutsCovered`. The invariant adds that the approvals on record
  are those given since the last dispute or rotation, that a disputed escrow is
  short of a quorum (which is why `resolve_dispute` cannot succeed), and
  that an escrow has paid its deposit to exactly one side once it is released
  or refunded and nothing before.
  `VaultIsHeld` (`Solvent`) and `PayoutsCovered` count the tokens of the escrows in
  the same way as for the channels.
* **EventLogProofs** (from `EventLogConstants`): `TypeCorrect`, `CursorWithinLog`,
  `SavedOnce`. That no event below the stored position is missing is not inductive:
  a poll reads the position, then fetches, then inserts, then writes the position
  back, and fails anywhere. `Inv` says what each place in the poll may rely on:
  `Bounds` (no position lies beyond the chain, and a rollback goes back),
  `Fetching` (the batch skips no event behind the position), `Kept` (every event
  behind the position, in the table or in memory, is in the table, was deleted by
  a rollback that then failed, or was left out by an answer that ended inside its
  ledger) and `Together` (unless rows and position were torn
  apart, memory and table agree on it and no row lies beyond it).

Only model-checked: the liveness properties (`ClosingEnds`,
`CrashedHolderReplaced`, `ReservationEnds`, `Flushed`, `SubmissionEnds`,
`EscapeHatchWorks`, `KeepsUp`), which the prover does not cover. Every other property
that a passing run checks is also a theorem.

## 5. Remarks on the code met while modelling

Payment channel and its book:

* `top_up` and the bounty of a watchtower change a balance without a new sequence
  number (payment-channel lib.rs:465, 671): a state signed before overwrites
  them. This is what `Quiesced` excludes.
* `initiate_close` takes one party's signature and any balances under any higher
  number (lib.rs:295-308). docs/privacy/payment-channel-protocol.md:249 says that
  both signatures must be valid for a state to be accepted, and :258 "Both parties
  must sign each state. Neither party can forge a state." A close of one party's own
  stands unless a co-signed state with a higher number yet is submitted in time, and
  its number can be the highest there is. Nor are its balances compared with the
  deposit: settled, it can pay with the tokens of other channels, or ask for more
  than there is and never be settled.
* `runWatchtowerSweep` never calls `watchtower_submit` (channel-monitor-job.ts:34-60):
  what it submits goes into the database row.
* Only one dispute is accepted per close: `dispute` wants Closing and leaves
  Disputed (lib.rs:332), so a party that answers with the newest state after the
  other disputed with a middle one is refused, although
  docs/privacy/payment-channel-protocol.md:250 says the highest number always
  wins. A registered watchtower is not refused.
* Nothing in the book compares sequence numbers at the write. With overlapping
  calls the two balances can stop adding up, and a watchtower submission that read
  the row before a close was finalized brings it from closed back to disputed.
* The sweep submits the balances it has under `sequenceNumber + 1`, each hour,
  whether or not anything is newer (channel-monitor-job.ts:39-48).
* `applyRenewalPayment` (channel-state.ts:200) calls `applyOffChainRenewal`
  without the proof it requires, so no caller in the repository succeeds at it.

Signer lease:

* Releasing a lease deletes its row and with it the counter
  (20260902000000_create_channel_signer_lease.sql:187): the next holder starts at
  1 again, and nonces repeat across a release.
* `signFn` runs after the lease check and may outlast the lease
  (channel-signer-lease-service.ts:225), although :200 lists "Signing fails if
  lease is lost".

Settlement, chain client, gateway:

* A failed chain call of a batch is logged and its rows are marked submitted
  (settlement-batcher.ts:222): nothing puts them back.
* The chain client asks the ledger for a transaction's fate only when an error
  looks like a timeout; after any other error of the send or of the confirmation
  poll, and when the ledger does not know the transaction yet, it retries under a
  new sequence number (chain-submission-client.ts:206, 247), where the comment at
  :277 speaks of avoiding blind retries. These are the `blind` attempts of
  `LandsBounded`.
* The idempotency key is `subscriptionId:method` (blockchain-service.ts:797): a
  legitimate repetition returns the first result for as long as the process lives;
  and a failure the ledger reported is remembered as the result in the same way.
* Nonces, numbers and consumption of the gateway live in memory
  (payment-challenge-service.ts:123) and are gone after a restart; the contract's
  own nonces remain.
* The idempotency middleware reserves nothing before the handler runs
  (middleware/idempotency.ts:90) and stores the response without waiting: two
  requests with one key at once both run, on routes "that must never
  double-execute" (:14). That is the whole protocol, and it can be read off the
  code: a module would add nothing.

Escrow:

* `release` documents `arbiter_approved == true` (lib.rs:449) and looks at the
  state only. Rotating the arbiters of an approved escrow clears the approvals
  and leaves Approved (lib.rs:597-600): the old quorum still counts.
* `resolve_dispute` cannot succeed: it needs Disputed and a quorum, and the approval
  that completes the quorum leaves Disputed (lib.rs:434-438, 628-633). ADR-006:31 and
  the contract's tests (1090-1098, 1159-1378, fuzz.rs:183-188) expect it to: run
  `escrow_resolve`. A vote in the resolver registry is rolled back with it.
* After expiry the payee can take the refund away by `raise_dispute`, which leaves
  only an approval, or a pause, to move the money.
* `ContractNotPaused` and `GracePeriodNotElapsed` (lib.rs:765, 771) are not in the
  contract's error enum at this commit.

Event listener:

* Rows and cursor are two calls (event-listener.ts:249, 253). After a failure
  between them every poll inserts the same rows, the unique constraint refuses
  them, and after ten attempts the listener is `failed` and stays so; a restart
  comes back to the same place. docs/fault-injection-degraded-behaviour.md:45
  counts on the restart. Ten failed polls of an outage stop it as well
  (:204-212), although docs/ops/event-listener-runbook.md:76 says that it recovers
  by itself "after RPC connectivity is restored". `KeepsUp` names this stop as an
  exception.
* An error answer to `getLatestLedger` reads as ledger 0 (:619): the whole table
  is rolled back and the cursor goes below zero, where no node answers.
* One event that does not fit the schema discards the whole answer, silently, at
  every poll (:277-283).
* Answers are not paged (:256-272) and the cursor moves to the newest ledger of the
  answer (:252): if the answer ended inside that ledger, the rest of its events are
  never read.
* `revertEvent` compares with names that are never stored (see §2), so that a
  rollback deletes events and reverts nothing.

Virtual card: the expiry branch of `process_payment` sets Closed and returns an
error, so the write is rolled back (virtual-card lib.rs:362-368).

## 6. What could come next

What carries money on the way of a metered call and runs concurrently is
modelled, and its safety is proved. In order of what would add most: abstract
specifications, with refinement proofs, of the spend cap (`MeteredCall`) and of the
queue (`SettlementQueue`), as there are for channels, escrows and the lease;
`VirtualCard` (limits
per time bucket, where up to twice the limit fits around a boundary, virtual-card
lib.rs:130); the outbox publisher's overlapping batches (outbox-publisher.ts:48);
the admission cache together with the agent registry, once a route uses them.

## 7. Not modelled, and why

* Signature schemes, hashing, XDR and ledger storage lifetimes: taken as correct.
* `virtual-card`: each entry point is one atomic transaction over one card,
  guarded by its owner's or agent's signature; its limits are arithmetic over one
  record. `MeteredCall` takes the cap contract as a number that settlements
  reduce.
* `agent-registry`, `v3/scope-enforcer.ts`, `admission-service.ts`,
  `admission-cache.ts`: no mounted route uses them; the signature check is a
  placeholder (admission-service.ts:471) and the cache of a step always misses
  (:608). The mounted gateway has checks of its own, which are modelled.
* `resolver-registry`: its votes end in `resolve_dispute`, which always fails.
* `payment-proof-verifier.ts`: nonce set and sequence rule as in the gateway and
  the contract; what is left compares two constants.
* Agent key compromise: the cancellation of settlements is modelled (`Cancel`);
  the anomaly score and the key revocation are not.
* Idempotency, outbox, locks: the idempotency middleware excludes nothing, see §5;
  the outbox delivers audit and digest updates; the locks serve the retired
  renewals.
* `quota_guard/`: a counter under one mutex.
* `backend/src/v3/*` (gateway-service, provider-store, receipt-service): not
  mounted by `index.ts`; the mounted gateway is modelled.
* Subscription renewal, gift cards, reminders: retired.
* Accounts, notifications, mail import, analytics, webhooks: single-row create,
  read, update, delete, and calls to outside services.
* Other contracts (vouchers, splitter, fees, oracle, guardian, upgrade,
  attestation, stealth announcements, zk verifier, loyalty): sequential, off the
  path of a metered payment.
* Frontends, SDK encodings, receipts: no state of their own that others share.
