--------------------------- MODULE MarketplaceOrder ---------------------------
(***************************************************************************)
(* The state that the commerce services share about ONE marketplace order: *)
(* its row and ledger rows in Postgres, its objects at Stripe, and the HTTP *)
(* requests and webhook deliveries that the API servers are handling.       *)
(* Orders share nothing but the listing's hire counter, so one is enough.   *)
(*                                                                         *)
(* A request is a slot in Requests with a program counter.  A step is one   *)
(* database statement, one transaction or one Stripe call; requests         *)
(* interleave between steps.  Consecutive reads with no write of the same   *)
(* request between them are one step.                                       *)
(***************************************************************************)
EXTENDS Naturals, Sequences

CONSTANTS Requests,       \* slots for requests in flight on the API servers
          Milestones,     \* identities createMilestones may give to milestones
          HasPaymentRef,  \* FALSE: the order comes from acceptProposal, no Stripe PI
          Kinds,          \* the requests and webhooks that arrive
          MaxTasks,       \* bound on the tasks of acceptances that abort
          MaxRefunds      \* bound on the refund entries of dispute resolutions

AllKinds == {"createOrder", "acceptProposal", "confirmPayment", "confirmOrder",
             "completeOrder", "cancelOrder", "createMilestones",
             "markMilestoneComplete", "releaseMilestoneEscrow", "openDispute",
             "respondToDispute", "resolveDispute", "amount_capturable_updated",
             "succeeded", "payment_failed", "transfer_failed"}

ASSUME KindsAssumption == Kinds \subseteq AllKinds
ASSUME BoundsAssumption == MaxTasks \in Nat /\ MaxRefunds \in Nat
ASSUME RefAssumption == HasPaymentRef \in BOOLEAN
ASSUME MilestonesAssumption == "order" \notin Milestones /\ "none" \notin Milestones

VARIABLES
  \* marketplace_orders, marketplace_listings, tasks
  status,      \* order.status, "none" before the insert
  hires,       \* what this order added to listing.totalHires
  tasks,       \* marketplace_order tasks submitted for the order
  released,    \* milestones credited to order.releasedAmount
  connect,     \* stripeConnectStatus of the seller's agent is "active"
  \* payout_ledger and payment_ledger
  payouts,     \* payout_ledger rows in insertion order
  entries,     \* payoutStatus of each seller_payout entry (one per entry triple)
  refunds,     \* refund entries; the pair a cancellation inserts is one row here
  milestone,   \* marketplace_milestones.status, "absent" before the insert
  disputes,    \* marketplace_disputes rows, the latest last
  \* Stripe
  pi,          \* status of the order's PaymentIntent
  mpi,         \* status of each milestone's PaymentIntent
  tagged,      \* the order's PaymentIntent carries the orderId metadata
  refunded,    \* halves of the order's payment returned to the buyer
  refundKeys,  \* idempotency keys of the refunds Stripe executed
  transfers,   \* idempotency keys of the transfers Stripe executed
  reversed,    \* transfers Stripe reversed
  events,      \* webhook_events: delivery state of each event
  \* the requests
  pc, row, seen, item, dispute

orderVars     == <<status, hires, tasks, released, connect>>
ledgerVars    == <<payouts, entries, refunds>>
milestoneVars == <<milestone, mpi>>
moneyVars     == <<refunded, refundKeys, transfers, reversed>>
stripeVars    == <<pi, tagged, moneyVars, events>>
requestVars   == <<pc, row, seen, item, dispute>>
vars == <<orderVars, ledgerVars, milestoneVars, disputes, stripeVars, requestVars>>

-----------------------------------------------------------------------------
(* Types *)

OrderStatus == {"none", "payment_pending", "payment_failed", "pending", "confirmed",
                "in_progress", "completed", "cancelled", "disputed"}
PIStatus == {"none", "requires_payment_method", "requires_capture", "succeeded",
             "canceled"}
MilestoneStatus == {"absent", "pending", "completed", "released"}

Sources == {"order"} \union Milestones   \* what a PaymentIntent or transfer is for
EventTypes == {"amount_capturable_updated", "succeeded", "payment_failed",
               "transfer_failed"}
EventIds == EventTypes \X Sources
EventState == {"none", "sent", "pending", "processed", "failed"}

Resolutions == {"refund_buyer", "release_seller", "split"}
DisputeRow == [status: {"open", "responded", "resolving", "resolved"},
               resolution: Resolutions \union {"none"}]
PayoutRow == [for: Sources, stage: {"pending", "completed", "failed"},
              transfer: Sources \union {"none"}]
RefundRow == [for: Nat,                  \* 0: the cancellation, d: dispute d
              stage: {"pending", "finalized"}]

\* order_refund_<id> is <<0, "refund_buyer">>; dispute_refund_<d> and
\* dispute_split_refund_<d> are <<d, "refund_buyer">> and <<d, "split">>.
RefundKeys == Nat \X Resolutions

Modes == {"payable", "unpayable", "milestones"}
Labels == {"idle", "create_insert", "create_tag", "accept_commit",
           "pay_verify", "pay_write", "pay_task",
           "confirm_claim", "confirm_capture", "confirm_rollback",
           "complete_claim", "complete_capture", "complete_transfer",
           "complete_finalize", "complete_entry",
           "cancel_flip", "cancel_pi", "cancel_claim", "cancel_refund",
           "cancel_reverse", "cancel_finalize",
           "milestones_cancel", "milestones_insert",
           "release_intent", "release_capture", "release_transfer",
           "release_finalize",
           "open_write", "respond_write", "resolve_claim", "resolve_money",
           "resolve_finalize", "event_handle", "event_write", "event_done"}

OrderTypeOK ==
  /\ status \in OrderStatus /\ hires \in Nat /\ tasks \in Nat /\ released \in Nat
  /\ connect \in BOOLEAN

LedgerTypeOK ==
  /\ payouts \in Seq(PayoutRow) /\ refunds \in Seq(RefundRow)
  /\ entries \in Seq({"pending", "completed"})
  /\ disputes \in Seq(DisputeRow)

StripeTypeOK ==
  /\ milestone \in [Milestones -> MilestoneStatus] /\ mpi \in [Milestones -> PIStatus]
  /\ pi \in PIStatus /\ tagged \in BOOLEAN
  /\ refunded \in 0..2 /\ refundKeys \subseteq RefundKeys
  /\ transfers \subseteq Sources /\ reversed \subseteq transfers
  /\ events \in [EventIds -> EventState]

RequestTypeOK ==
  /\ pc \in [Requests -> Labels]
  /\ row \in [Requests -> Nat] /\ dispute \in [Requests -> Nat]
  /\ seen \in [Requests -> Modes \union Resolutions \union EventTypes \union {"none"}]
  /\ item \in [Requests -> Sources \union {"none"}]

\* Every variable holds a value of its column, Stripe field or request field.
TypeOK == OrderTypeOK /\ LedgerTypeOK /\ StripeTypeOK /\ RequestTypeOK

Init ==
  /\ status = "none" /\ hires = 0 /\ tasks = 0 /\ released = 0 /\ connect = TRUE
  /\ payouts = <<>> /\ entries = <<>> /\ refunds = <<>> /\ disputes = <<>>
  /\ milestone = [m \in Milestones |-> "absent"]
  /\ pi = "none" /\ mpi = [m \in Milestones |-> "none"] /\ tagged = FALSE
  /\ refunded = 0 /\ refundKeys = {} /\ transfers = {} /\ reversed = {}
  /\ events = [e \in EventIds |-> "none"]
  /\ pc = [r \in Requests |-> "idle"] /\ row = [r \in Requests |-> 0]
  /\ seen = [r \in Requests |-> "none"] /\ item = [r \in Requests |-> "none"]
  /\ dispute = [r \in Requests |-> 0]

-----------------------------------------------------------------------------
(* Control of a request *)

At(r, label) == pc[r] = label

\* A request of one of the Kinds reaches a server.
Arrives(r, kind) == At(r, "idle") /\ kind \in Kinds

Enter(r, label, s) ==
  /\ pc' = [pc EXCEPT ![r] = label]
  /\ seen' = [seen EXCEPT ![r] = s]
  /\ UNCHANGED <<row, item, dispute>>

Goto(r, label) ==
  /\ pc' = [pc EXCEPT ![r] = label]
  /\ UNCHANGED <<row, seen, item, dispute>>

GotoRow(r, label, i) ==
  /\ pc' = [pc EXCEPT ![r] = label]
  /\ row' = [row EXCEPT ![r] = i]
  /\ UNCHANGED <<seen, item, dispute>>

Return(r) ==
  /\ pc' = [pc EXCEPT ![r] = "idle"]
  /\ row' = [row EXCEPT ![r] = 0]
  /\ seen' = [seen EXCEPT ![r] = "none"]
  /\ item' = [item EXCEPT ![r] = "none"]
  /\ dispute' = [dispute EXCEPT ![r] = 0]

\* The request ends before its next step and writes nothing more.  The process
\* died there, or the Stripe call it is at failed and the handler's error path
\* only returns.  A call that took effect but whose response was lost is the
\* step with the effect followed by this one.
Abandon(r) ==
  /\ pc[r] # "idle"
  /\ Return(r)
  /\ UNCHANGED <<orderVars, ledgerVars, milestoneVars, disputes, stripeVars>>

-----------------------------------------------------------------------------
(* Reads that several handlers share *)

Present == {m \in Milestones : milestone[m] # "absent"}
HasMilestones == Present # {}

PendingPayouts == {i \in 1..Len(payouts) : payouts[i].stage = "pending"}
PendingRefunds(d) == {i \in 1..Len(refunds) : refunds[i].for = d
                                               /\ refunds[i].stage = "pending"}

=============================================================================
