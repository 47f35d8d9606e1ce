# Agent-ID-Trust in TLA+

A verification development for the API server of this repository
(`artifacts/api-server/src`, schema in `lib/db/src/schema`). It models six parts
where requests, workers, Stripe and the chain race each other: the marketplace
order from checkout to payout or refund; a paid task and its escrow; an agent's
keys and challenges; the transfer of an agent to another owner; the deliveries
to an agent's webhook; the on-chain anchor of a handle. TLC checks each part on
small instances; TLAPS proves every safety property of those runs for every value
of the constants, under conditions on the kinds of requests where section 5 names
them. Paths below are relative to `artifacts/api-server/src` unless they
start with another top directory. The inventory says what the rest of the system
is, and the plan at the end in which order it would be added.

## 1. The system

### Components

| component | source | state it keeps | operations that change it |
|---|---|---|---|
| Order saga | `services/orders.ts` | `marketplace_orders` row, hire counter of the listing, `payout_ledger`, `payment_ledger` | createOrder, confirmPayment, confirmOrder, completeOrder, cancelOrder |
| Payment providers | `services/payment-providers.ts` | none; Stripe keeps PaymentIntents, refunds, transfers | capture, refund, cancel, transfer |
| Stripe webhook | `routes/v1/webhooks.ts`, claim and finalize in `services/billing.ts` | `webhook_events` | one handler per event type |
| Dispute saga | `services/disputes.ts` | `marketplace_disputes`, order status | openDispute, respondToDispute, resolveDispute |
| Milestone saga | `services/marketplace-milestones.ts` | `marketplace_milestones`, released amount of the order | createMilestones, markMilestoneComplete, releaseMilestoneEscrow |
| Job board and proposals | `services/jobs.ts`, `services/proposals.ts` | jobs, proposals, the order an acceptance makes | create, edit, accept, reject, withdraw |
| Stripe Connect, task escrow | `services/stripe-connect.ts` | connect status of an agent, escrow status of a task | onboarding events, capture, cancel |
| Task lifecycle | `services/tasks.ts`, `services/task-forwarding.ts`, `routes/v1/tasks.ts` | delivery, business and forwarding status, credit for trust | submit, acknowledge, update, forward, escrow release |
| Listings, reviews, analytics | `services/marketplace.ts`, `reviews.ts`, `marketplace-analytics.ts` | listings, reviews | single-row edits |
| Billing | `services/billing.ts` | plan subscriptions, included handle | checkout, subscription events, agent activation |
| Agent transfer, trust | `services/agent-transfer.ts`, `trust-recalibration.ts`, `operator-history.ts` | transfer and its events, owner of the agent, operator history | initiate, list, accept, fund, start and complete handoff, cancel, dispute |
| Keys, nonces, sessions | `services/agent-keys.ts`, `auth-session.ts`, `oauth.ts`, `api-keys.ts`, `claim-ticket.ts` | agent keys, single-use nonces, sessions | create, rotate, verify, revoke, exchange |
| Agents, credentials | `services/agents.ts`, `credentials.ts`, `verifiable-credential.ts` ... | agents, credentials, caches | edit, issue, revoke |
| Handles | `services/handle.ts`, `workers/handle-lifecycle.ts` | handle, expiry, auction, retirement | register, renew, expire, auction |
| On-chain registrar | `services/chains/*`, `workers/nft-mint.ts`, `nft-transfer-detector.ts` | mint state of a handle | mint, detect transfer |
| Agent webhooks | `services/webhook-delivery.ts`, `workers/webhook-*.ts` | webhook rows, deliveries, failure counts | deliver, retry, auto-disable |
| Mail | `services/mail*.ts`, `workers/outbound-mail.ts` | messages, queues, limits | send, receive, retry |
| Wallets, x402, MPP | `services/wallet.ts`, `x402-client.ts`, `mpp-provider.ts` | wallet transactions, spending rules | authorize, pay |
| Trust, reputation, logs | `services/trust-score.ts`, `reputation.ts`, ... | recomputed scores | recompute |
| Domains, agent expiry | `services/domains.ts`, `workers/domain-provisioning.ts`, `agent-expiry.ts` | domains, expiry | provision, sweep |
| A2A services, Markdown | `services/a2a-services.ts`, `agent-markdown.ts` | CRUD rows | edit, render |
| HTTP layer, infrastructure | `app.ts`, `middlewares/*`, `lib/*` | Redis counters, caches | - |
| SDKs, MCP servers, resolver, front ends | `lib/*`, other `artifacts/*` | none of their own | - |

### How they interact

Every service works directly on one Postgres database and on Stripe; there is
no lock manager and no queue between the commerce services. Two requests meet
only through rows. A handler typically reads the order, checks permissions and
status on what it read, and later writes; between the two, other requests run.
Some writes repeat the test in their `WHERE` (`confirmOrder`'s claim and
rollback, `completeOrder`'s claim, `cancelOrder`, `resolveDispute`'s claim, the
capturable webhook); the others name only the row's id (`confirmPayment`,
`openDispute`, `respondToDispute`, the succeeded and payment_failed webhooks).
`completeOrder`, `cancelOrder`, `resolveDispute` and `releaseMilestoneEscrow` are
sagas: a transaction records the intent in a ledger with status `pending`, Stripe
is called with an idempotency key derived from the order, dispute or milestone,
and a last write finalizes the row. A retry finds the pending row and replays.
Nothing in the code replays a saga by itself: no worker reads the pending rows,
so a saga that crashed waits for the party to call the route again. The
marketplace order routes exist only if `MARKETPLACE_COMMERCE_ENABLED` is set
(`routes/v1/marketplace.ts:56`); the model is of the system with it set.

### What is hard, and what correctness means

* Interleaving: several servers handle requests of buyer, seller and operators
  and deliveries of Stripe on one order. Correct: the outcome of an order is
  decided once; losers of a race move no money.
* Crash between two steps of a saga, or a Stripe call whose response is lost.
  Correct: no money moves without a row, no row says money moved that did not, a
  retry does not pay twice, and enough retries finish the job.
* Webhooks arrive late, twice or in any order. Correct: they never take a
  decided order back.
* Sagas that share a ledger (an order and its milestones, two resolutions of one
  dispute). Correct: each takes up only its own pending rows.
* Writes by id after a read: task status, transfer status, keys, the webhook's
  failure counter, the anchor's row. Correct: money, ownership and keys do not
  follow a write that lost its race, even where a status column does.
* Timers that do not wait for their own last pass (webhook retries, mint worker).
  Correct: overlapping passes never claim what did not happen, and what was
  scheduled ends.
* Counters and limits read before an insert (plans, wallets, mail): listed as
  hazards, not modelled.

## 2. The modules

| module | models | a reader starts from |
|---|---|---|
| `MarketplaceOrder` | the shared state of the commerce modules: rows, Stripe objects, requests | VARIABLES, `TypeOK`, `Init` |
| `StripeGateway` | Stripe, the card, the connected account | `CapturePI`, `RefundPI`, `Transfer`, `StripeNext` |
| `OrderSaga` | `services/orders.ts`, order of an accepted proposal | `OrderNext` |
| `PaymentEvents` | `routes/v1/webhooks.ts` for orders and payouts | `EventNext` |
| `DisputeSaga` | `services/disputes.ts` | `DisputeNext` |
| `MilestoneSaga` | `services/marketplace-milestones.ts` | `MilestoneNext` |
| `Marketplace` | all of them together; the properties | `Next`, `Spec` |
| `Settlement` | abstract: what the order services promise about the payment | `Spec` |
| `TaskLifecycle` | `services/tasks.ts`, `task-forwarding.ts`, the payment part of `stripe-connect.ts`, `routes/v1/tasks.ts`, the escrow event of the webhook | `Submit`, `Recipient`, `Dispute` |
| `EscrowHold` | abstract: what the task escrow promises about the card | `Spec` |
| `AgentKeys` | `services/agent-keys.ts`, the nonces of `auth-session.ts`, `agent-auth.ts`, `oauth.ts`, key expiry, revocation and deletion of the agent | `KeyNext`, `AuthNext` |
| `AgentTransfer` | `services/agent-transfer.ts` with readiness, trust recalibration and claims, composed with `AgentKeys` | `DealNext` |
| `AgentTenure` | abstract: what transfers promise about the owner | `Spec` |
| `WebhookDelivery` | `services/webhook-delivery.ts`, `workers/webhook-retry.ts` | `WorkerStep` |
| `HandleAnchor` | `workers/nft-mint.ts`, the registrar, the handle checkout, claim-nft, mint requests, NFT transfer, `workers/handle-lifecycle.ts` | `PassStep`, `RequestStep` |
| `MCMarketplace`, `MCTask`, `MCKeys`, `MCTransfer`, `MCWebhook`, `MCAnchor` | instances for TLC: sets of kinds, symmetry | |
| `MarketplaceTypes` | typing of `Marketplace`; what its operators and each group of actions leave alone | `TypeCorrect`, the frame lemmas |
| `MarketplaceRecords` | proofs about `Marketplace`: ledgers, disputes and milestones against what Stripe executed | `IntentInv`, `RefundInv`, `PayInv`, `OneRowInv`, `FreeInv` |
| `MarketplaceOutcome` | proofs about `Marketplace`: the outcome, its money, the refinement of `Settlement` | `GuardInv`, `PaidInv`, `BookedInv`, `SettleInv` |
| `TaskProofs` | proofs about `TaskLifecycle` | `EscrowInv`, `ImplementsHold` |
| `KeysProofs` | proofs about `AgentKeys` | `KeysInv` |
| `TransferProofs` | proofs about `AgentTransfer`, on top of `KeysProofs` | `RetireInv`, `PaperInv`, `TransfersImplementTenure` |
| `DeliveryProofs` | proofs about `WebhookDelivery` | `Inv` |
| `AnchorProofs` | proofs about `HandleAnchor` | `BackedInv` |

### Common form

A request, pass or worker is a slot with a program counter. A handler is a
sequence of actions; each ends at a point where another slot can run: one
statement, one transaction or one call to Stripe, an endpoint or the registrar.
Consecutive reads without a write between them are one step. Authentication
tests are left out (each route fixes who calls); every test of a status, a row
or an external answer is kept. `Abandon`, `Drop`, `WorkerStops`, `PassDies` and
`RequestDies` end a slot at any point with nothing further written: the process
dies, or the error path only returns. A call that took effect and whose response
is lost is the effect followed by one of these.

### The marketplace (`MarketplaceOrder` to `Marketplace`)

One order is modelled: orders share only the hire counter, which is a plain
increment. `status` is the order's column; `hires`, `released`, `tasks` count
what the order added to its listing, to its released amount and to the task
table; `payouts`, `entries`, `refunds`, `disputes` are the ledger and dispute rows
in insertion order; `milestone` and `mpi` are the row and PaymentIntent of each
milestone; `pi`, `tagged`, `refunded`, `refundKeys`, `transfers`, `reversed`
are what Stripe knows; `events` is the delivery state of each Stripe event in
`webhook_events`. An idempotency key is what distinguishes it: a transfer's is
the order or the milestone, a refund's is the cancellation or the dispute and
resolution. Money is counted in halves of the order's payment, which is what
`refund_buyer` (the rest) and `split` (half) tell apart. `payment_ledger`
inserts entries in groups; a group is one row.

A request is a slot in `Requests` with the row it holds (`row`), what it decided
from its reads (`seen`), the milestone or event it is about (`item`) and its
dispute. `confirmOrder` is the one handler whose error path writes
(`ConfirmOrderCaptureFails`, `ConfirmOrderRollback`).

`Settlement` has three variables: who the order was decided for, whether a
payment to that party is on record and unsettled, whether the money moved.
The decision is made once and with the record, the money moves once and only
while on record, and the record closes only after the money moved.
`Marketplace!Settled` maps it: `outcome` from the status, `owed` from the pending
payout and cancellation rows, `moved` from Stripe. The run `guarded` checks
`SettlementSpec` as a property.

### The task (`TaskLifecycle`)

One task under one idempotency key. `rows` counts inserts under the key,
`delivery` and `receipts` are what forwarding writes, `business` and `completedAt`
the status the recipient writes, `escrow` and `payment` the two columns that
speak of money, `intents`, `pi`, `secret` what Stripe and the client have, and
`event` the authorization event. POST /tasks is insert, counter, forwarding
(with or without an endpoint), PaymentIntent, two writes and the response. A
status change is a read (`UpdateStatus`) and a write by id (`UpdateStatusWrite`);
what follows depends on the route, `AfterStatus`: the complete route releases a
held escrow and captures, PATCH captures or voids, reject and fail leave the
money alone. A dispute writes "disputed", voids, writes "refunded".
`EscrowHold` is the abstract hold: placed once, paid only when earned, recorded
only after it ended; the mapping reads the money from `pi` and the record from
`payment`.

### Keys and challenges (`AgentKeys`)

Keys are numbered in the order of insertion; `status` and the rotation `log` are
columns (`rotatedByKid`, which nothing reads, is left out). A rotation is insert, mark of the old key, log; a
verification is a write of the old key and one of the log. A challenge is
presented to one of three handlers (session, proof-of-possession JWT, signed
assertion), which all read the key, consume the nonce with the conditional
UPDATE, read the agent, and grant. `usable` remembers which keys were active at
some time since the challenge was created; `grants` and `signers` what was
granted. An owner's rotation and the purge of a key for a purpose revoke before
they insert: `took` is what such a request has revoked, and `stranded` what one
revoked that died before its insert. `LockOutHasCause` lists, with these, the only
ways in which an active agent comes to have no active key. Grace time is not a status here because the code has none: a rotating
key is not accepted (see finding 10).

### Transfers (`AgentTransfer`)

Extends `AgentKeys`: the seller's key operations run beside the transfer. `phase`
is the status column, guarded by `VALID_TRANSITIONS` on what was read and written
by id; the handoff is advance, snapshot, start, and then one transaction that
reads the active keys, revokes those, moves `userId`, completes the transfer,
and a recalibration after it. `retired` remembers the newest key that existed
when a committed handoff read the keys, `parties` who accepted a transfer or was
named in an update of it; an update may also name none. The readiness report's other
blockers are left out, so that more transfers start than the code admits.
`AgentTenure` is the abstract tenure (open, agreed,
prepared, moved); the mapping reads the stage from the times and the snapshot,
which nothing clears, and not from the status, which blind writes move back.

### Webhook deliveries (`WebhookDelivery`)

One webhook and its deliveries. A worker is a request that raises an event or a
pass over pending rows; what a pass read of a row (`stale`, `rest`) and of the
webhook (`failures`) stays with the worker and is written later. `tries` counts the
calls of `ssrfSafeFetch` for a delivery, those it refuses before it connects
included (the rows do not tell them from an endpoint that does not answer); `acked`
and `misses` say which of them the endpoint answered with success. The first
attempt is counted when the row is inserted, before the call, so `StatusTrue`
speaks of the attempts from the second on. The `try` block's catch is
`StatementFails`, bounded with `WorkerStops` by `MaxFaults`.

### Anchors (`HandleAnchor`)

One paid handle: its columns, the registrar's record (`chain`, `keeper`) and the
slots that work on both. The registrar is external: it registers a free handle,
gives an NFT away while it is the platform's, and a call may take effect and
still throw. The attempts the worker counts stop at `MAX_RETRIES` because a
greater count is the same to the code. `expiry` is `handleExpiresAt`, "past" when the
grace period is over too; `registration` is the chain that the entry of
`chainRegistrations` names, which only the mint worker takes from the registrar
(`Network`, "base" or "base-sepolia").

A completed checkout reads the row, writes it (`CheckoutWrite`) beside
`markHandlePaymentComplete` (`MarkRead`, `MarkWrite`), and registers the handle if it is
short enough. Both writes replace the metadata whole, with the attempts that were
read. The order of the two is simplified: the model's second write comes last,
because the first undoes it otherwise. What a checkout does to a short handle is
over-approximated: finding 14 is that the code refuses it earlier.

The model is of a server with `ONCHAIN_MINTING_ENABLED` and a configured registrar.
Without either `processPendingAnchors` returns at once (`workers/nft-mint.ts:41-48`),
and a queued handle stays queued: `PendingSettles` says nothing of such a server.

### Seeded faults

Beside some actions stands a faulty variant, marked "Seeded fault". No behaviour
uses it. `PROJECT.json` pairs it with the action and the property that must catch
it: replacing the action by the variant makes TLC report that property.

## 3. The runs

| run | instance of | kinds and bounds | result |
|---|---|---|---|
| `guarded` | Marketplace | 3 requests; create, capturable webhook, confirm, complete, cancel, transfer_failed | the outcome is final, one captures, the payment leaves at most once, completion is booked once, money and ledger agree, the sagas implement `Settlement` |
| `disputes` | Marketplace | 2 requests; create, confirmPayment, succeeded, payment_failed, confirm, open, resolve | one resolution per dispute moves money, a resolved dispute names the one that did, money and ledger agree, also under the writers that overwrite the status |
| `milestones` | Marketplace | 2 requests, milestone m1; checkout, milestones, release, confirm, complete, cancel | each release is credited once and paid from its own capture; money and ledger agree |
| `proposals` | Marketplace | 2 requests, m1, order without a payment of its own; milestones, disputes with responses, complete, cancel | the order is booked only after a milestone was paid out; one payout row per milestone |
| `retries` | Marketplace | 2 requests, kinds of `guarded`, `RetriesSpec` | pending payouts and refunds of captured payments settle |
| `tasks` | TaskLifecycle | 2 requests of any kind, the card, the event | the payment's record is true, the recipient is paid only for completed work, a refund leaves no hold, a key makes one hold, the code implements `EscrowHold` |
| `keys` | AgentKeys | 2 requests, 3 keys, 1 challenge, all kinds | one grant per challenge, with a key that lived since; an agent is without a key only for the causes named |
| `tenure` | AgentTransfer | 2 requests about 1 transfer, 3 users, 1 request of the seller's rotations, 2 keys | the agent moves only by an accepted and prepared transfer, its former keys are retired with it |
| `delivery` | WebhookDelivery | 2 workers, 2 deliveries, 1 retry, limit 2, 1 fault | statuses tell what the tries did, the webhook is disabled for cause, a scheduled retry ends |
| `anchors` | HandleAnchor | 2 overlapping passes of the mint worker, 1 request slot, 2 wallets, 2 attempts, 1 fault, on base-sepolia | the row claims nothing the chain does not know, a queued handle does not stay queued |
| `cancel_race` | Marketplace | 2 requests, kinds of `guarded` | violated: finding 1 |
| `claimed_agent` | AgentTransfer | 2 requests, 1 transfer, no key operations | violated: finding 2 |

### Bounds, and why they are enough

* Slots: two give every pairwise race, and a slot that returns or is abandoned is
  used again, so a run contains any number of requests one after the other,
  crashes and retries included. `guarded` has three because a second capturer
  needs a third request that moves the status back in between.
* Milestones: one is enough for a release to race itself, the completion and the
  cancellation; milestones may be created in two batches, and the theorems have
  any number. `MaxTasks` 2: an acceptance whose transaction aborts leaves a task
  behind. `MaxRefunds` 2: a resolution that is resumed and one that is not.
* Stripe emits an event of a type for a PaymentIntent once and delivers it any
  number of times. An event whose type is not among the kinds of a run is not kept.
* `tasks`: one task, because tasks share only counters. The counters stay small
  without a bound: a status is written only after a read of an earlier one, so a
  slot can take it back at most once, and the insert happens once.
* `keys`: three keys are a key, its successor and one more that overlaps either;
  one challenge suffices because challenges do not interact, and both slots can
  present it.
* `tenure`: one transfer; two slots race any two of its operations, and the key
  slot runs beside. A later transfer, or the second draft of two racing
  createTransfer calls, is not in the run; `TransferProofs` has any number.
* `delivery`: `MaxRetries` 1 and a limit of 2 make both limits reachable within two
  deliveries; `MaxFaults` 1 puts one failing statement or one dying worker
  anywhere.
* `anchors`: `MAX_RETRIES` 2 has a first, a last and a refused attempt; the two
  passes of the worker overlap, which one pass alone never does. On base-sepolia the
  worker's entries and the checkout's name different chains; on base they are the
  same, which has fewer behaviours. The proofs cover both chains and any number of
  passes and requests.
* Symmetry: request slots are interchangeable, and so are challenges and the users
  beside the creator; the safety runs use permutations of them. The runs with
  liveness use no symmetry.
* Deadlock is checked but in `tasks`, `delivery` and `anchors`: a finished task, a
  webhook whose events are raised and an auctioned handle have no further step.

The kinds of the marketplace are split over runs because all sixteen together
exceed what TLC can enumerate; each split keeps those together that write the
same columns. `guarded` leaves out exactly the kinds that overwrite a status
blindly: a late confirmPayment undoes a decided outcome (finding 3) and, by
putting a confirmed order back to pending, lets a second confirmOrder capture
beside the first.

### Fairness

The sagas have no sweeper: fairness is what the parties do. `RequestsEnd` (weak
fairness of every slot) says a request that a server handles ends, be it by
dying. `BuyerRetries` and `CancellerRetries` say that the party repeats the call
as long as the status allows it and that the server does not die, nor Stripe
fail, at the same step forever: strong fairness of each step of the saga, since
`Abandon` can interrupt it again and again. `BuyerRetries` also assumes that the
seller's connected account ends up enabled. Nothing is assumed of Stripe's own
steps.

The two workers run on timers. `WebhookDelivery` assumes weak fairness of each
worker's steps and of a pass while some retry is due, and that time passes;
`HandleAnchor` assumes weak fairness of the mint worker's reading and of its
steps. Nothing is assumed of requests, endpoints or the registrar; faults are
bounded by `MaxFaults`, because a server that dies in every pass ends nothing. So
does a webhook whose secret never decrypts: the signature is computed outside the
`try` (`services/webhook-delivery.ts:207`), and the error ends every pass that reaches
it. `RetrySettles` holds as long as that is not so forever.

## 4. Findings

The first two are runs that TLC refutes by what the code does, against a sentence
of the repository (quoted in `PROJECT.json`).

1. `cancelOrder` takes the "no money has moved yet" path on a status it read; its
   UPDATE tests only `NOT IN ('completed', 'cancelled')`, so it also cancels an
   order that was confirmed and captured since. No refund entry exists. Run
   `cancel_race`.
2. `completeHandoff` writes the buyer into `userId` and leaves `ownerUserId`. An
   agent that was claimed before the handoff committed stays with the owner who
   gave it away, since `isAgentOwner` looks at `ownerUserId` first. Run
   `claimed_agent`.

The others have no run of their own. Where a property is named, it is defined in
the component's module (section "What a reader may expect and the code does not
do", except `OneResolution` and `OnePayoutPerMilestone`, which hold in their runs
and not in the wider instance named here); a cfg with that property, the
component's specification and two slots shows the behaviour.

3. `confirmPayment` writes `pending` with no test of the status, over a completed
   order too (`services/orders.ts:171`); it can then be confirmed, cancelled and
   refunded. `CompletedNotRefunded`, with create, confirmPayment, confirm,
   complete and cancel.
4. `respondToDispute` writes by id (`services/disputes.ts:170`); a response read
   before an operator's claim reopens the dispute under that operator, and a
   second one claims it for another resolution. `OneResolution`, with three
   requests and responses.
5. `completeOrder`'s recovery takes any pending payout row of the order, a
   milestone's included (`services/orders.ts:403`); the milestone's retry then
   inserts a second row. `OnePayoutPerMilestone`, with the kinds of `milestones`.
6. `completeOrder` finalizes the payout row and the seller_payout entries in two
   UPDATEs (`services/orders.ts:615`); after a crash between them no retry reaches
   the second. `EntriesSettle` under `RetriesSpec`.
7. `cancelOrder` records a refund for a confirmed order whose payment was not
   captured (`services/orders.ts:929`); Stripe refuses it on every retry and the
   entry stays pending. `RefundIntentSettles` under `RetriesSpec`.
8. If the webhook moves the order to pending before the client's confirmPayment,
   that call is refused (`services/orders.ts:147`) and no task is ever submitted to
   the seller's agent. `AuthorizedOrderGetsTask` under `BuyerReportsSpec`.
9. Tasks: a dispute that finds the payment captured returns without a word and
   still writes "refunded" (`routes/v1/tasks.ts:748`, `stripe-connect.ts:232`): the
   seller has the money of a task whose escrow says it was returned,
   `RefundedNotCaptured`. Two completions that both read the earlier status credit
   the agent twice (`services/tasks.ts:295`), `CreditedOnce`. A shutdown cancels
   pending tasks and leaves the hold on the card until it lapses.
10. Keys: an agent's revocation revokes the keys that are active at that moment; a
    key whose insertion was under way, or that a rotation inserts, is active
    afterwards (`routes/v1/admin.ts:188`), and the deletion of an agent leaves its
    keys: `RevokedAgentHasNoKey`. Authentication still refuses them, because it
    reads the agent's status. A verification that runs inside a rotation's second
    write leaves the old key rotating (`services/agent-keys.ts:271`),
    `VerifiedOldKeyRevoked`. The grace of 24 hours that `routes/v1/agents.ts:823`
    announces does not exist: only active keys are accepted. An owner's rotation
    revokes the old key before it inserts the new one, in two statements
    (`services/agent-keys.ts:155`), and so does createAgentKey's purge: a server that
    dies between leaves the agent without an active key, one of the causes that
    `LockOutHasCause` names.
11. Webhooks: the counter of consecutive failures is written from the row read
    before the request (`services/webhook-delivery.ts:153`), so a success between
    them is undone and a failure is lost. A process that dies in a first attempt
    leaves the delivery pending without a retry time, which no pass picks up.
    Overlapping passes send a delivery more often than its attempts say. A
    delivered row whose counter reset fails is turned back to pending and resent.
12. Anchors: a handle whose registration took effect and whose receipt was lost
    has no entry in `chainRegistrations`, so the expiry renames and auctions it
    (`workers/handle-lifecycle.ts:109`): `AnchoredNotAuctioned`. On base-sepolia every
    handle that the worker anchored is auctioned, since the expiry knows only
    entries of "base" (line 102), whereas claim-nft knows both. The late UPDATE
    of the mint worker or of a checkout sets the custodian back to the platform
    after a claim, and the checkout's requeue overwrites "active", after which the
    worker is refused until it records anchor_failed. A give-up writes back the
    metadata it read, and so do a checkout and markHandlePaymentComplete: attempts
    that were counted meanwhile are forgotten.
13. Transfers: `updateTransfer` writes a buyer by id after an acceptance it did
    not see, and the handoff then gives the agent to a user who accepted nothing;
    `AgentTenure` therefore counts a named user as a party. A key inserted between
    the handoff's read and its commit stays active, which is why
    `HandoffRetiresKeys` speaks of the keys that existed at the read. A crash
    after the commit leaves the trust score and the operator history behind, and
    no route repeats them.
14. Checkout: the completed checkout of a handle of three or four characters is
    skipped, because `checkHandleRegistrationLimits` refuses those tiers with "must
    be purchased through checkout" (`services/handle.ts:441`, called from
    `services/billing.ts:1822`), so that what was paid is not assigned, and the code
    that registers such a handle (`services/billing.ts:1904`) is not reached. The
    unit test of that code replaces the function by one that refuses nothing.

Two remarks on the documents. Item F7 of `audits/04-billing-stripe-flows.md` (line
376) says that a retry of completeOrder is blocked and needs manual
reconciliation. That no longer describes the code: `PayoutIntentSettles` holds.
The header of `services/stripe-connect.ts` says an order without a ready account
falls back to a manual payout; `completeOrder` returns `SELLER_PAYOUT_NOT_READY`
instead, and the model has that guard.

## 5. What is proved

### Marketplace

For any set of requests, any set of milestones, any kinds and bounds, from the
assumptions named in `MarketplaceOrder` (the kinds are known, the bounds are
naturals, `HasPaymentRef` is Boolean, "order" and "none" are not milestones):

* `TypeCorrect` (`MarketplaceTypes`): `Spec => []TypeOK`. `TypeOK` is not inductive:
  an action writes `item[r]` or `dispute[r]` into a row, so the invariant
  `TypeInv` adds `FieldsOK`: a request inside a release holds a milestone, one
  inside a resolution holds a resolution. One lemma per group of actions; `MapInSeq`,
  `NewPayout`, `PayoutFinalized` and their companions say what a ledger update
  does to a sequence. `EnterMoves`, `GotoMoves` and `ReturnMoves` state once that
  a step touches no other request, which the later proofs rest on.
  The lemmas that follow it say, saga by saga, what the saga leaves alone and how
  it may change the status and the transfers (`StripeFrame` and its companions);
  the two modules below cite them instead of going through the actions again.

Every invariant below that speaks of requests has the same shape: an obligation
per request that depends on its program counter, and a lemma (`IntentStep`,
`RefundStep`, `PayStep`, ...) which says what a step of one request has to
show so that the obligations of the others survive it.

`MarketplaceRecords`, for any kinds unless a condition is named:

* `IntentBeforeMoneyTheorem`, under `NoMix` (no milestones, or no resolutions by
  operators). `IntentInv`: a request at a money step already has its row, a dispute
  whose resolution refunds has its entry, because a resumed resolution does not
  add one, and a completed order has its payout row, because `completeOrder`'s
  recovery does not add one either. Ledgers keep their rows (`PayoutsKept`,
  `RefundsKept`). `NoMix` is needed: a dispute resolved for the seller completes
  the order without a payout row, and completeOrder's recovery then takes a
  milestone's pending row for its own (the mechanism of finding 5).
* `ResolutionPaidTheorem`, without a condition, and `OneResolutionTheorem`, under
  `NoReopening` (no answers to disputes, or no resolutions). `RefundInv`: a request
  that settles a refund holds the entry of what it refunds, one that finalizes
  has paid, and while nobody answers, a claimed dispute keeps its resolution, so
  that all who hold it hold the same. With answers a claimed dispute can be
  reopened and claimed for another resolution (finding 4).
* `RecordedMoneyMovedTheorem`, under `NoReopening` or for an order without a
  payment. It needs the same condition for another reason: the operator who claims
  a reopened dispute, say for the seller, finalizes the refund entry that the
  first one recorded and never executed.
* `MilestonesSettleOnceTheorem`, for any set of milestones. `PayInv`: a request
  past its capture has captured and past its transfer has transferred, a row names
  only transfers that were made, and the credited amount is the number of released
  milestones, whose set stays finite because the step that credits one is the
  step that releases it.
* `OnePayoutPerMilestoneTheorem`, under `Sole` (no completeOrder, or at most one
  milestone on an order without a payment). `OneRowInv`: a row that is not pending
  belongs to a released milestone, so that a release which finds no pending row
  adds the first. completeOrder breaks this where `Sole` does not hold: it
  finalizes a milestone's row as its own, the milestone is not released, and its
  release adds a second row (finding 5). On an order without a payment that takes
  two milestones: the first is released, a completion crashes behind its claim, its
  retry reads the milestones before the request that creates the second inserts
  it, and then takes up the row of the second's release.
* `NoFreeCompletionTheorem`, without a condition. `FreeInv`: an order without a
  payment is never awaiting one, and a request that is about to book the completion
  either stands behind a transfer, which a released milestone implies (`PayInv`),
  or found the order closed, which stays closed, so that its claim fails.

`MarketplaceOutcome`, under `Guarded` (none of the kinds arrives that overwrite the
status blindly; finding 3 is what they do):

* `OutcomeIsFinalTheorem` and `SingleCapturerTheorem`: a completed or cancelled
  order never changes again, and two confirmOrder requests are never both about to
  capture. `GuardInv` says which points of a request are unreachable, that the
  inserting request is alone and finds no order, and that while some request is
  capturing or rolling back the order has left the statuses it could be claimed
  from, which makes the rollback and the second claim exclusive.
* `PaidOnceTheorem`. `PaidInv`: who is about to transfer stands behind a completed
  order and a capture, who is about to refund behind a cancelled one, and money
  that left says the same of the order; since the outcome is final the two
  exclude each other.
* `CompletionBookedOnceTheorem`. `BookedInv` is the property with its cardinality
  made usable: the set of the order's rows is finite, and every step but the
  claim of the completion leaves that set, the entries and the hires alone.
* `SettlementTheorem`, `Spec => SettlementSpec`, for an order without milestones.
  `SettleInv`: a request between claim and finalization holds a row that is owed or
  has moved the money, and a row that is not pending is paid. Each action is
  then a step of `Settlement` or stutters on it. With milestones the mapping itself
  does not fit: a milestone's pending row is owed before the order is decided,
  and `Settlement` speaks of the order's own payment.

The conditions are satisfied by the runs that check the same property, and each
excludes a behaviour that TLC exhibits or that a finding describes; none of them
is about the size of the instance.

### Tasks (`TaskProofs`)

For any set of requests and either value of `TrustEligible`, every property the
run `tasks` checks. Two invariants carry them. `TypeInv` is `TypeOK` and `Asked`:
a request past the read of a status holds a status that it may ask for, without
which the write would not be typed. `EscrowInv` is, in parts: `RowInv`, what
Stripe's state says of the columns (a secret is out only after the intent, an
event only after an authorization, a capture only after a completion);
`RequestInv`, what a request at a money step already established (at the release
the task is completed, at the recording of a capture Stripe captured); and that
at most one request is between the insert and the response, which the unique
index gives and which makes two PaymentIntents impossible. Each property follows
from `EscrowInv`, and `HoldStep` shows step by step that every action is a step of
`EscrowHold` or stutters on it: this is `ImplementsHold`.

### Keys (`KeysProofs`)

For any set of requests, any number of keys and of challenges, all four
properties of the run `keys`. `KeysTypeInv` adds to the types that keys are
inserted in order and that a request past its insertion holds a key. `NonceInv`
carries `OneGrantPerNonce`: a request between the consumption and the grant
has a consumed challenge without a grant, and no two have the same. `SignInv`
carries `SignedSinceChallenge`: what is active now is in `usable` of every
challenge that exists, so the key a handler read was usable, however late it
grants. `LockInv` carries `LockOutHasCause`: a pending rotation and its verification
replace a key that is not the newest, and the newest key is active, expired, or
accounted for (`NewestAccounted`): a request that has yet to insert took it, or one
that died did, or the agent was revoked. An insert makes a newer key, which is
active, and with that the account is closed.

### Transfers (`TransferProofs`)

For any number of requests, transfers, users and keys, every property of the run
`tenure`. `RetireInv`: a handoff that is about to commit holds every active key
of those that existed when it read them. It survives the seller's rotations
because keys only get larger numbers and none becomes active again
(`KeysOnward`, from the actions of `AgentKeys`). `PaperInv` says which of a
request's tests survive the blind writes of the status: not the status itself,
but that the transfer was accepted, that its snapshot exists, that the buyer
read is one of its parties. The times and the snapshot are never cleared, which
is what `HandoffsRecalibrate` and the refinement rest on:
`TransfersImplementTenure` shows that every action is a step of `AgentTenure` or
stutters on it.

### Webhook deliveries (`DeliveryProofs`)

For any sets of workers and deliveries, any limits and any number of faults,
every safety property of the run `delivery`. `CounterInv`: no worker holds, and the row does
not have, a failure count above the failures that were; a worker that is about
to count one has it in `misses` or `faults`. `AttemptsInv` and `WorkerInv`: what
a row, a pass or a worker counts was tried. `StatusInv` then follows: a delivery
is delivered only after an answer, and failed only beyond its retries or with
the webhook disabled.

### Anchors (`AnchorProofs`)

For any sets of passes, requests and wallets and any `MAX_RETRIES`, the safety
properties of the run `anchors`. `BackedInv` keeps, beside what the row says, what
each slot is going to write: a slot about to record a registration or a transfer
saw it happen there, and the registrar frees no handle again. That a claim is not
taken back by a late write is what fails (finding 12), and why `ChainBacked` speaks
of what the row claims and not of what it forgets.

### Only model-checked

Every invariant, action property and refinement that a passing run checks is a
theorem. The liveness properties (`PayoutIntentSettles`, `CapturedRefundSettles` and
those of the workers) are not: they rest on fairness, and ENABLED is beyond the
prover. The outcome of a marketplace where the blind writers do arrive, and the
combinations that `NoMix`, `NoReopening` and `Sole` exclude, are where the
properties fail, as the findings say.

## 6. What is not modelled

* Time. Authorizations, challenges and retries lapse or come due at any moment;
  Stripe's idempotency keys never expire, whereas they do after 24 hours, so a
  retry later than that is outside the model (listed as a hazard).
* Amounts beyond halves of the payment: fees, rounding, currencies; trust scores;
  the prices of an auction.
* E-mails, activity log, notes and the webhook's other event types.
* Authentication and permission checks, beyond who owns an agent.
* A listing's price or an agent's status changing during a request, beyond the
  connected account's and what `AgentKeys` has.
* What becomes of a session or a token after it was granted; API keys, claim
  tickets.
* Tron, the detector of NFT transfers on the chain, reservations of handles,
  reminders and the reconciliation of handles.
* Mail, wallets and their payments, billing limits, domains, the job board: their
  state is rows with limits read before inserts or jobs of a queue with retries of
  its own. `PROJECT.json` gives the reason for each component that is not modelled.
* SDKs, generated API clients, resolver, MCP servers, front ends, edge worker:
  together the larger part of the repository's lines. They keep no protocol state;
  a model of them would be of HTTP calls and of user interface.

## 7. Plan

What a next step would add, most important first:

1. `JobBoard`: two acceptances of one job; an order per job. Composes with
   `OrderSaga`'s order without a payment.
2. `PlanEntitlements`: plan limits and the included handle against subscription
   events; `SpendingCaps`: wallet caps against payments in flight.
3. `OutboundMail`: queue and rate limit.
4. The NFT transfer detector beside `HandleAnchor`; sessions and tokens after the
   revocation of their key beside `AgentKeys`.

Theorems: each new module's invariants; for the marketplace, which of the excluded
properties hold once the blind writes test the status in their `WHERE`, as a
specification of the repair.
