# CoreProver / TBC: specifications, model checking and proofs

TBC (the "Transaction Border Controller") brokers a sale between a buyer and a
seller. Both commit first, then the seller delivers and is paid. The repository
has two independent implementations of that settlement (a deterministic Rust
engine and a Solidity contract), a session protocol (TGP) that leads two agents
to a deal, and a transport protocol (TxIP) that carries it.

This directory holds TLA+ modules translated from that code, configurations
that check them with TLC on small instances, and theorems about them checked by
TLAPS for every value of the constants.

## Inventory

| Component | State it keeps | Operations | Hard behaviour | What makes it correct |
|---|---|---|---|---|
| Settlement engine, `crates/coreprover-service/src/engine.rs`, `types.rs` | escrows, receipts, id counter, monotonic/unix/block clock | commit, accept, fulfill, claim, refund, withdraw, timed release, expiry, advance time | callers in any order, every deadline missed or hit exactly, settlement that fails half way, repeated late delivery, 16-bit ids | one outcome and one reply per order; withdrawals and automatic claims only after the deadlines they wait for; receipts that agree with the escrow |
| Escrow contract, `crates/coreprover-contracts/src/CoreProverEscrow.sol` | escrow and signature per order id, its ether | create, commit (ether or signature), claim payment, claim counter-escrow, timed release, refund | transactions in any order, transfers that revert, deadlines, orders sharing one balance | solvency; the payment leaves once, to the party the commitments decide; offers resolve |
| Receipt vault, `ReceiptVault.sol`, `EscrowLib.sol` | receipts, counter | mint, get, verify ownership | mints in any order by anyone, ids that differ from the escrow's | a receipt once minted is never replaced |
| TxIP sessions, `crates/txip/txip_session_v03.rs`, `txip_http_handler_v03.rs` | session table, message cache, both behind locks | HELLO, HEARTBEAT, CLOSE, TGP message, cleanup | concurrent handlers, several critical sections per request, retries, expiry | a message is processed once; what is served, and what is taken for a duplicate, had a session; caches die with sessions; answers agree to what was offered |
| TGP session, `crates/tbc-core/src/tgp/state.rs` | state, timeout, ids of one negotiation | transition, timeout, forced error | timeout racing an answer, a wall clock read twice in a call and set back | no stage skipped; the stage timeouts bound the exchange; nothing but the owner or a clock set back revives a timed-out session; no wait is for ever |
| TGP messages, `tgp/messages.rs`, `validation.rs`, `types.rs`, `protocol.rs` | none | build, validate, to and from JSON | two implementations of one protocol, timestamps compared as texts, products at the width of an amount | what one end composes the other reads and judges alike; an accepted offer's terms hold |
| TxIP payloads, `txip_types_v03.rs`, `blockchain_types_v03.rs`, `coreprover_types_v03.rs`, `timestamp_types_v03.rs`, `txip_mod_v03.rs` | none | build and validate envelopes, compare clocks, validate receipts | untagged JSON, deadlines on two clocks, three validations of one settlement | nothing is lost between the ends; the clocks agree; the validations agree |
| Simulations and harness, `coreprover-service/tests`, `tests/` | in-memory engines behind async locks | scripted scenarios | check-then-act across `await` | same as the engine |
| HTTP service, settlement monitor, workers, profile templates | none yet | fixed replies, loops that log | none yet | - |
| Bridge, SDK, CLI, ZK, gateway | none | placeholders | none yet | - |

How they interact: an agent speaks TxIP to the gateway; the TxIP handler keeps
the session and (by a TODO) forwards TGP messages to a TGP session; a finished
negotiation leads to an order, settled either by the engine (off-chain) or by
the contract (on-chain); a settled order gets a receipt, in the engine's receipt
vector or in the vault contract. In this commit none of these calls is wired up
across crates: each component is driven by its callers alone, so each module
takes all calls in all orders.

## Modules

| Module | What it is |
|---|---|
| `SettlementPromise` | abstract specification: what the engine promises about a deal, from its terms and instants alone |
| `CoreProverEngine` | the settlement engine, one action per method; implements `SettlementPromise` |
| `CoreProverEngineProofs` | type correctness, inductive invariant, five safety theorems, and that no open order gets stuck |
| `EngineHistoryProofs` | a second inductive invariant on what the engine remembers; receipts, final settlements, kept terms, ids, the view of the TxIP layer, and the refinement |
| `MCCoreProverEngine` | instances for TLC |
| `DualCommitEscrow` | abstract specification: what the dual commitment promises, no amounts or clocks |
| `CoreProverEscrow` | the contract, one action per external function; implements `DualCommitEscrow` |
| `CoreProverEscrowProofs` | type correctness, inductive invariant, accounting per order and over all orders, commit or refund, and the refinement |
| `FiniteSums` | lemmas about sums over finite sets, for the accounting |
| `MCCoreProverEscrow` | instances for TLC |
| `TxipSessions` | the TxIP handlers as tasks over one session table, one step per critical section |
| `TxipSessionsProofs` | type correctness, inductive invariant, five safety theorems and the safety part of answering |
| `MCTxipSessions` | instances for TLC |
| `EngineView` | extends `CoreProverEngine`: its receipts and deadlines in the types of the TxIP layer |
| `ReceiptVault` | the receipt contract |
| `EscrowWithVault` | `CoreProverEscrow` and `ReceiptVault` on one chain |
| `EscrowWithVaultProofs` | receipts are immutable; the vault does not disturb the escrow, so what is proved of the escrow holds beside it |
| `MCEscrowWithVault` | instance for TLC |
| `TgpSession` | one TGP session under a wall clock, one action per method |
| `TgpSessionProofs` | type correctness, inductive invariant and three safety theorems |
| `MCTgpSession` | instance for TLC |
| `SerdeJson` | what serde and Rust's strings do for the modules below |
| `TgpFields`, `TgpMessages` | types, validators and messages of `tbc-core/src/tgp` |
| `Protocol` | the same messages as `protocol.rs` has them |
| `TripleClock` | timestamps on three clocks, deadlines, windows |
| `TxProvenance` | transaction ids of an order and the CoreProver receipt |
| `TxipEnvelopes`, `TxipHandler` | TxIP envelopes and their JSON; what the handler answers |
| `TgpWire` | composes them: a message from its constructor to its validation, and the answer back |
| `TgpWireProofs` | inductive invariant of a message's way; what is written is read back, answers fit, the two implementations agree, offer terms hold, fees are bounded |
| `MCTgpWire` | instances for TLC |

### CoreProverEngine

`escrows` and `receipts` are the two vectors, `current_*` the clock,
`next_session_counter` the id counter. `paid[i]` counts the `Ok(amount)` replies
given for the i-th order: the code returns the amount to its caller and keeps no
trace of it. Every `&mut self` method is one action because nothing else runs
while it does. A call rejected before it wrote anything stutters; `Settle` is
where a rejected call has already written: the escrow is terminal before
`finalize_receipt` can answer `Err("receipt stub not found")`.

Lookups are sets of positions: `get_escrow` and `get_receipt` hold the FIRST
match (`iter().find`), `LastReceipt` the last (`rposition`), empty for `None`.
Transaction ids are model values with one blank; the parties, the amount, the
buyer's chain and the ISO clock are stored and never read, and left out. Ids
live in a space of `IdSpace` values (65536 in the code).

`SettlementPromise` tells the same story without states, stored deadlines,
receipts and ids: a deal has its terms, the instants of its opening, acceptance
and last delivery, an outcome and the number of replies with the amount. The
refinement mapping (`OutcomeOf`, `DealOf`, `Deals`) reads these off the instants
and transaction ids an escrow recorded and never looks at its `state` or its
deadlines, so a wrong transition or a wrong deadline shows as a step that the
promise does not allow. That a claim of an order nobody delivered returns no
amount is part of the promise (`Settled`), because it is what the code does; the
finding `engine_unfulfilled` is about it.

### CoreProverEscrow

A transaction is one action, a revert a stutter. `transfer` refuses recipients
in `Rejecting` (contracts without a receive function) and amounts the contract
does not own. `ledger` and `bothCommittedAt` are history: the ether that moved
on account of an order, and the block of its `BothCommitted` event. The
refinement mapping (`PhaseOf`, `PaymentOf`, `CounterOf`) is read off this
history and not off the `state` field, so a wrong state label cannot hide a
wrong payment.

### TxipSessions

Each HTTP request is a task with a program counter `pc` and its local `now`; the
task `Cleaner` runs `cleanup_expired`. A step is one critical section or one
reading of the clock, because that is what other threads can fall between.
`guard` is the write lock of `sessions`, which `handle_hello`, `close_session`
and `cleanup_expired` keep while they take the lock of `message_cache` (two
steps each); every other access to the table waits for it, and
`record_message`, which takes only the second lock, does not. No task waits for
a lock inside the second one, so that lock needs no variable. A session keeps
its two monotonic instants; what HELLO negotiates is never read again. The two
arms for a payload that does not match the message type cannot be reached, the
validation of the envelope having refused it. `saw`, `kept` and `replay` are
history: what a request could have seen, and which requests repeat a recorded
one. A TGP message whose session is closed under way leaves its id in a cache
without a session; `CachedIdsWereServed` says of every id in any cache where it
comes from, so that nothing that was not served answers for a later message.

### EngineView

The TxIP layer has types of its own for what the engine knows: a
`CoreProverReceipt`, the provenance of its transactions, deadlines and windows
on three clocks. By its comments it computes nothing. `EngineView` builds these
values from the variables of `CoreProverEngine` (`ReceiptOf`, `Buyer`, `Seller`,
`At`), so the runs of the engine compare the layer's own predicates with what
the engine did. `EscrowView::from_engine` is left out: it reads fields
(`created_at`, `buyer_txids`, ...) that the engine's `Escrow` does not have.

### ReceiptVault and EscrowWithVault

`receipts` and `nextTokenId` are the storage of the contract, `minted` its
events. The deployment script puts both contracts on one chain; neither calls
the other, so `EscrowWithVault` interleaves their transactions and shares only
the block time. Its run is also the one that has two orders.

### TgpSession

The methods take `&mut self`, so one is one action; but `transition` reads the
wall clock twice, in `is_timed_out` and for `updated_at`. Hence the action
checks at `now` and stores at `now'`, and in between the clock may stand, go on
or be set back (`Advance`, `SameSecond`, `SetBack`). `set_timeout` wraps at
`TimeSpace` as an u64 does in a release build. `passed`, `started` and `inCalls`
are history. `is_timed_out` changes nothing and is an operator, used in guards
and properties. `remaining_timeout()` and `age()` are left out: they only read,
and no method uses them.

### Messages: SerdeJson, TgpFields, TgpMessages, Protocol, TxipEnvelopes, TxipHandler

A message, an envelope and a JSON object are records: in JSON an `Option` that
is `None` is absent (`ToObject`), a struct is read by its required fields, and
an absent `Option` is `None` (`FromObject`). Whether an object is read at all is
a predicate of its own, one per struct (`Fits` on the required fields, then
`MessageFits`, `ControlFits`, `PayloadFits`, `EnvelopeFits` on the values), and
`Rejected` is what the text reads as when it is not. A payload of an envelope is an
untagged enum: its kind is not written, and `payload_from_value` finds it again
by trying the variants in order. Texts are opaque but for what a validator looks
at: whether one is empty; of a hash or an address whether it starts with 0x, its
length and whether its digits are hexadecimal; of a timestamp whether there is a
T, the hyphens of its date, the instant written and what follows it. Two
timestamps are compared as texts (`string_later`), which is what the code does.

`TgpWire` follows one message. It is composed by the constructors and builders
of either implementation, put into an envelope, written to JSON and read, maybe
later, by both implementations; `Answer` is the handler's reply, sent back the
same way. `tables` is what the TBC's two tables hold for the session: whether it
is open, and the ids in its cache; it starts with any content that earlier
requests can leave, an id without a session included. `handle_txip_message` of
`TxipHandler` is the handler from the validation over the duplicate check to the
routing, with the tables it leaves (`record_message`, and what HELLO and CLOSE
do), for one request at a time; how concurrent requests interleave in those
tables is the matter of `TxipSessions`.

## Runs

| Run | Shows |
|---|---|
| `engine_one` | one order in depth, two txids, repeated late deliveries: outcome, reply, receipts and clock agree, also in the types of the TxIP layer; the engine implements `SettlementPromise` |
| `engine_many` | three orders over two ids: interleaved calls, ids before and after the wrap, block heights, and every order settles, or was delivered on time without timed release |
| `engine_unfulfilled` | violated: `seller_claim` settles an order nobody delivered |
| `engine_stub` | violated: the receipt returned for a settled order has no outcome |
| `escrow_one` | one order, any two of three accounts (equal ones too), one refusing transfers; safety, refinement and liveness |
| `escrow_two` | two orders on one balance, and receipts minted for them: solvency, no order blocks the other, receipts stay |
| `escrow_locked` | violated: a buyer who claims first locks the seller's payment |
| `txip_requests` | three requests of every kind, interleaved with each other, the cleaner and the clock: lock, tables and replays agree, no id is cached that was not served, every request is answered |
| `txip_duplicate` | violated: two copies of one TGP message are both processed |
| `tgp_session` | one session, every call, the clock going on within calls and set back any number of times: stages, timeouts, and no wait for ever once the deadlines and the clock are left alone |
| `tgp_wire` | every message of both implementations and every control and error message through an envelope to the validation, and the answer back, with any content of the tables: repeated messages too |
| `tgp_notimezone` | violated: a timestamp without a timezone is accepted |

Bounds and why they suffice. Windows are zero, one or two seconds and the clock
runs past the longest chain of windows (`MaxMono`, `MaxTime`), so every deadline
is met early, hit exactly and missed. `LastCommit`/`LastCreate` only stop new
orders late enough that the old ones still see all their deadlines. Three
receipts allow two repeated late deliveries and the wrong stub in first, middle
and last place. Two ids and three orders wrap once with one order on each side.
Two orders suffice for the shared balance: a call touches one order, and any
other is represented by the second. Two receipts can be minted for one order or for two. For TxIP three requests are one to open the
session, one to use it and one to interfere or repeat, besides one cleanup; the
clock ticks once and the timeout is zero, so a session can be fresh, idle and
younger than the instant a task read; operations touch one session each (the
cleaner treats them one by one), so one session stands for all, and the proofs
cover any number. For the TGP session the windows are one and two seconds, a
custom timeout is none, two seconds or the largest number there is (which wraps),
and the clock runs past all windows in a row. `LastCall` only lets the last
windows end within `MaxNow`; `WaitingEnds` does not rest on it, see Fairness. On
the wire every field is well-formed or ill-formed
in each way a validator tells apart, at most one text of a message and one thing
of an envelope's head wrong at a time, for the validations are conjunctions;
amounts are nothing, the least and the largest at a width of 16 bits, and the
clock reads before, at and after an expiry, in UTC, at an offset or without a
zone; the cache of a session holds the id of the message or not. `CHECK_DEADLOCK FALSE` because all runs end
when the bounded clock has stopped and every order is terminal.

Fairness. `engine_many`: time passes, and `update_state`, `buyer_withdraw` and
`timed_release` are called again and again while they would succeed: these are
the calls the buyer and the timeout worker exist for; nothing is assumed of the
seller. `escrow_one`: blocks keep coming, and `triggerTimedRelease` and
`refundBuyerTimeout`, which have no sender check, are eventually made by
somebody; nothing is assumed of what only the buyer or the seller can call.
`tgp_session`: the clock goes on, and no call has to come. An owner that calls
`set_timeout` again before each deadline keeps a session waiting for ever, and so
does a clock that is set back again and again; `WaitingEnds` therefore speaks of
behaviours in which from some moment on the owner leaves the deadline of the
current stage alone and the clock is not set back (`<>[][Undisturbed]_vars`),
and exempts a wait whose deadline was cleared.
`txip_requests`: the runtime goes on scheduling a request that can take a step,
and a cleaner that has started; the clock, the clients and the start of a
cleanup are free. The requests are finitely many, so weak fairness is enough for
a lock that others take in between; that the lock itself is fair under endless
traffic is not claimed.

## Findings

* `engine_unfulfilled`: `update_state` gives an accepted and undelivered order
  the state a late delivery gives, `FulfillmentExpired`; `seller_claim` (and
  `seller_refund`, `timed_release`) accept it, make it terminal, and fail on the
  missing receipt: no amount is returned and nobody can settle it again.
* `engine_stub`: repeated late deliveries leave several stubs; settlement
  completes the last, `get_receipt` returns the first.
* `escrow_locked`: `BUYER_CLAIMED` admits no payment to the seller, although
  the specification calls the two claims independent.
* `txip_duplicate`: the duplicate check and `record_message` are critical
  sections of their own with three others in between, so copies of a message
  that arrive together are all processed, although the specification forbids
  double processing.
* `tgp_notimezone`: `validate_iso` takes any hyphen for the sign of an offset,
  and a date has two: `2024-11-14T12:00:00` is accepted, which the comment above
  the check excludes and a test asserts to be refused. The expiry of an OFFER
  (`tgp/types.rs:234`) is checked the same way; `validate_rfc3339_format` counts
  the hyphens and is right. So `tgp` accepts an OFFER whose expiry has no zone,
  `2025-11-10T23:59:59`, although the docs at `tgp/types.rs:196` and `:207` ask for
  valid RFC 3339. `OfferTermsHold` covers such an expiry (the comparison takes it
  for UTC) and says for other offsets within which span the comparison is wrong.
* At the second of the deadline itself `remaining_timeout` answers `None`, which
  by its doc (`tgp/state.rs:541`) and comment (`:559`) means no timeout or already
  timed out; but `is_timed_out` (`:508`) is false there, and `transition` still
  succeeds. `remaining_timeout` is not modelled, no run is about it, and the
  disagreement stands.
* Seen in passing, without a run of their own: the contract accepts a
  counter-escrow of zero ether as a commitment, `triggerTimedRelease` leaves the
  counter-escrow behind, and the engine takes `SellerAccepted ->
  FulfillmentExpired` and `SellerFulfilled -> SellerRefunded`, which the matrix
  in `tests/state_transition_matrix.rs` lacks. `last_activity` of a TxIP session
  can go back, since `touch_session` reads the clock before it takes the lock; a
  session past its timeout is revived by the next message, as only
  `cleanup_expired` looks at the timeout and only tests call it; and a TGP
  message whose session was closed under way is processed all the same and leaves
  a cache without a session until the next cleanup or HELLO; until then a
  repetition of it is answered 200, where any other message gets 401. The
  duplicate check comes before the routing: a HELLO with an id already recorded gets
  a bare acceptance and no WELCOME, and a CLOSE with one leaves the session open.
  A TGP session that has timed out refuses even the move to `Errored`, although
  any state can transition to it by `tgp/state.rs:45` and `:256`; only
  `force_error` makes it. `set_timeout` with a huge number wraps to a
  deadline in the past (or panics in a debug build), and `age()` underflows once the
  clock was set back before the session's creation. An engine order delivered late
  and then withdrawn leaves a receipt whose `buyer_withdraw_txid` is never
  written. Of an envelope without a session id the
  handler's error answer is itself invalid; a HELLO without a common version is
  answered as an internal error that may be retried. `protocol.rs` refuses an
  expiry in `+00:00`, the form the engine writes, and does not look at the digits
  of a hash. The receipt id the escrow announces is no token of the vault, whose
  `mintReceipt` anyone may call, other than docs/specs/coreprover.md:447 and 512
  say. An expired OFFER is valid, `validate` having no clock. The engine settles
  an order over the amount 0, whose receipt the TxIP layer refuses.

## Proofs

Each theorem holds for all constants that satisfy the named assumptions of its
module. Every safety invariant, action property and refinement of a passing run is
proved, `CommitXorRefund` in a form without `ENABLED`.

### Assumptions

They say what the constants stand for, and none says what the code does:
ranges (`EngineAssumption`, `BoundAssumption`, `TimeAssumption`,
`SecondsAssumption`, `AmountAssumption`, `ClockAssumption`, the `EnvelopeAssumption`
of the wire), that enumerated inputs are of their type (`ProfileAssumption`, the
`EnvelopeAssumption` of TxIP), that `None` is no value of an `Option`
(`TxidAssumption`, `TaskAssumption`, `NoneAssumption`, `HelloAssumption`), that
there are finitely many order ids (`OrderAssumption`; an id has 32 bytes), that
the zero address sends no transaction (`AddressAssumption`), and of the view of
the engine that its clock starts after the epoch and a transaction id that is
not blank is not empty (`ViewAssumption`). The bounds that stop TLC (`MaxMono`, `MaxOrders`, ...) are
constants too, so the theorems hold for any bound.

### The engine

`TypeCorrect` has one step per action. `IInv` says, per stage of an order, which
instants are recorded, that they are ordered as the deadlines demand, that an
open order was not paid, that an order with a delivery has a receipt (without
this conjunct `PaidOnce` is not inductive: `Settle` could fail on a delivered
order), and that heights follow instants. Five properties follow from it.

`OpenOrdersCanEnd` (once its windows are over, an open order has a way out) follows
from it as well and is the safety part of the liveness
property `EveryOrderSettles`: of an open order whose windows are over, the guard
of one of the calls that fairness speaks of holds, and a timed release finds its
receipt. What stays with TLC is that the calls are then made.

`HInv` adds the history: both clocks advance together; ids are counted, so the
i-th order has the id `i % IdSpace`; an escrow keeps its own trace (deadlines from
instants and windows); and every receipt belongs to the order `get_escrow` finds
for it, the earlier receipts of an order being stubs for ever and the last one
following the escrow (`Linked`). The link is to the FIRST order with the id, which
is why it needs `IdsCounted`: a commit past the wrap must not capture the receipts
of another order. One lemma per call proves that it keeps all this and that it
changes no settled order, no accepted term and no settled receipt (`Follows`), so
the action properties `SettledIsFinal` and `TermsAreKept` come with the invariant.
`IdsUniqueUntilWrap` is arithmetic on remainders. `DeadlinesAgree` and
`ReceiptsValidate` compare the types of the TxIP layer with the engine's.

`PromiseImplemented`: both invariants together tie the stored state and deadlines
to the instants and ids the mapping reads. `OpenDeal` says that an order without
a settlement instant is an open deal with the same deadlines, `DealReplaced` and
`DealRewritten` that a call changes one deal at most, and one lemma per call that
it is the abstract step of the same meaning: `SettlePromised` serves the three
calls that end in `Settle`, whose failure half way is `Settled` without a reply;
`UpdatePromised` shows that noticing an expiry is a stutter. `PromiseStep`
collects them. Given `HInv`, which ties the deadlines to the instants, the refinement
covers `TermsAreKept`, which therefore has a proof (`TermsKeptCorrect`) and no run.

### The escrow

`OrderSound` says which payments each stored state stands for and that they were
made in full; `NothingLost` and `CommitmentDecides` follow, order by order.

`Solvent` is a sum over all orders. Every call changes what is held for one order
at most, and the balance by as much (`BalanceMoves`); that the sum then changes
by as much is `SumChange` of `FiniteSums`. The sum of the community modules is a
recursion over an arbitrary choice of elements; its lemmas show that it exists
and that any element may be taken out first. They are inductions over finite
sets, made by LEAST COUNTEREXAMPLE: the library's induction theorems take the
statement as an operator and are out of reach, but `WFMin`, by which a non-empty
set has a minimal element in a well-founded ordering, does not. From solvency
follow `Covered` (the ether of every single order is there) and `CommitOrRefund`:
at every instant the seller can commit to an offer or the buyer can be refunded,
and never both, the guards being written out where `CommitXorRefund` says
`ENABLED`. It needs `Covered`, for a refund the contract cannot pay would revert.
`ReleaseIsCovered` says the same of an agreed order nothing was paid of: a timed
release finds the state it requires and the ether to pay.

`DualCommitImplemented`: under the invariant the mapped values are functions of
the stored state (`MappedOrder`), a call moves them at one order only
(`MappedUpdate`), and every action is the abstract action of the same meaning or
a stutter (`DualStep`).

`EscrowUndisturbed`: the system of escrow and vault implements the escrow, so its
theorems carry over (`SystemSolvent`, `SystemImplementsDualCommit`).
`ReceiptsImmutableCorrect`: the tokens minted so far are exactly those below the
counter, in order, so a mint writes where nothing was.

### TxIP sessions

The invariant says that the lock is held exactly between the two steps of a
holder, that a session without a cache is one whose HELLO holds the lock, that a
recorded id is in the cache until the history forgets it, that a request past
the look at the table saw its session, and that every id in a cache is that of a
recorded request that saw its session; each conjunct has a lemma (`LockStep`,
`CacheStep`, `KeptStep`, `SeenStep`, `ServedStep`). The last needs the one before
it: what is recorded comes from a request past that look. It does not follow from
the lock, for `record_message` does not take it. `OnlyIdleSessionsExpireCorrect` is an action
property and needs only the types: an instant that was read has come, and
`hello_store`, `touch` and `close_session`, the other writers of the table, are
not the cleaner. `AnswersComeNearer` and `LockComesBack` are the safety part of
`EveryRequestAnswered`: a request only ever steps towards its answer, and whoever
holds the lock waits for nobody and gives it back in its next step.

### The TGP session

The invariant says that the deadline belongs to the stage (it is the stage's own
unless the owner or a set-back clock intervened, which `started` remembers), and
that `passed` is the way to the stage. Without the first `EnteredInTime` is not
inductive: a stage could be entered at any time. `OnlyOwnerRevivesCorrect` needs
only that `transition` refuses a session that has timed out.

### The wire

`WireOK` says that the text on the wire is the JSON of the envelope that was
sent, that a TGP message in it is the one that was composed (nobody composes
while it is under way), that what was read is what was sent, and that an answer
fits its request. The constructors and builders make values of the types
(`QueryMade`, ..., `EnvelopeMade`). Reading back goes from the inside out: a
struct written and read is the struct (`WrittenRead`), hence a TGP message
(`MessageRead`) and a control message (`ControlRead`); an untagged payload is
taken by its own variant and by none that is tried before it (`PayloadRead`),
which holds because their required fields differ; then the envelope
(`EnvelopeRead`). `HandlerAnswers` goes through what the handler can answer (a
refused envelope, a repetition, or one of the routes), with what each leaves in the
tables, and `AnswerKeeps` sends the answer the same way back.

`ImplementationsAgreeCorrect` is apart: the two implementations have the same
structs (`SameStructs`), hence decode every object alike (`SameDecoding`), to the
shape of a struct (`DecodedShape`); the two validations are then compared phase
by phase (`AcceptedByProtocol`, `AcceptedByTgp`). `OfferTermsHoldCorrect`: two
texts with a T that are otherwise written alike compare as their local times do,
and at the same local time by what follows them (`LaterText`); the local time of
an expiry and that of a UTC clock differ by the offset, which bounds the span in
which the comparison is wrong (`ExpiryCompared`). Texts written differently
(basic against extended form) are outside of it. `FeeBounded` is arithmetic: a
product by at most 10000, divided by 10000, fits the width.

### Only model-checked

Liveness (`EveryOrderSettles`, `OfferResolves`, `TimedReleasePays`, `WaitingEnds`,
`EveryRequestAnswered`) and `ENABLED` (`CommitXorRefund`, `PaymentStaysClaimable`)
are out of the prover's reach; what is safety in them is proved: `OpenOrdersCanEnd`, `CommitOrRefund` (also for
`OfferResolves`), `ReleaseIsCovered`, `AnswersComeNearer` with `LockComesBack`,
and the `OwnDeadline` of the TGP session's invariant. The violated properties of the
findings are refuted by TLC.

## Plan

1. Done: engine, contract, TxIP sessions, and their proofs.
2. Done: `TgpSession`, `ReceiptVault` with the escrow, messages and envelopes
   end to end, the engine in the types of TxIP.
3. Done: proofs of every safety invariant and action property of the runs, and of
   the refinements `DualCommitEscrow` and `SettlementPromise`.
4. Left: arithmetic at the width of the engine's instants (hazard at
   `engine.rs:246`), for which its clock would be modelled at a width; the history
   of a TxIP cache across a repeated HELLO.

## Not modelled

Of the modelled components: the validators of `validation.rs` that no message
calls (URLs, ids, correlation ids), descriptions, display texts and the float
`max_fee_percentage`; `EscrowView`; the ownership check of the vault, a
placeholder that accepts any non-empty proof; re-exports (`txip_mod_v03.rs`
beyond its tests' use of envelopes).

Components left out: placeholders and pure I/O (HTTP service with fixed replies,
settlement monitor and workers that sleep and log, payment profiles that are
constants, bridge, SDK, CLI, ZK stubs, gateway), and the test code with the
obsolete simulations in `test_v2_obsolete`, as listed in `PROJECT.json`. They
keep no state that another part reads.
