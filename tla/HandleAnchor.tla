------------------------------ MODULE HandleAnchor ------------------------------
(***************************************************************************)
(* The anchor of one paid handle: its row in the database, its record in the *)
(* registrar on the chain, and what works on both: the passes of              *)
(* workers/nft-mint.ts, which overlap, the checkout that registers at once,    *)
(* claim-nft, request-mint and anchor/retry, the NFT transfer, and the expiry  *)
(* of workers/handle-lifecycle.ts.  Each action is one statement, one          *)
(* transaction or one call of the registrar.                                   *)
(***************************************************************************)
EXTENDS Naturals

CONSTANTS
  Passes,      \* passes of the mint worker at the same time
  Requests,    \* requests, webhooks and expiry passes at the same time
  Wallets,     \* wallets a user names
  Network,     \* the registrar's chain, as getNetworkLabel names it
  MAX_RETRIES, \* of the mint worker
  MaxFaults    \* passes that die, and writes of an anchor that fail

Networks == {"base", "base-sepolia"}

ASSUME AnchorAssumption ==
  /\ Network \in Networks /\ MAX_RETRIES \in Nat \ {0} /\ MaxFaults \in Nat
  /\ "none" \notin Wallets /\ "platform" \notin Wallets

VARIABLES
  nftStatus, nftCustodian, nftOwnerWallet,
  registration,   \* chainRegistrations: the chain its entry names, or "none"
  anchorAttempts, \* up to MAX_RETRIES; a greater count is the same to the code
  handleStatus,   \* "auctioned": renamed, and the handle offered to others
  expiry,         \* handleExpiresAt: "ahead", "past" with its grace period, or "null"
  checkedOut,     \* the handle's checkout was completed
  chain, keeper,  \* the registrar's record: its state, and whose the NFT is
  faults, pc, job

rowVars   == <<nftStatus, nftCustodian, nftOwnerWallet, registration, anchorAttempts>>
lifeVars  == <<handleStatus, expiry, checkedOut>>
chainVars == <<chain, keeper>>
jobVars   == <<pc, job>>
vars == <<rowVars, lifeVars, chainVars, faults, jobVars>>

Slots == Passes \union Requests

\* A checkout of a handle short enough for an NFT, and of another.
CheckoutKinds == {"checkout", "plainCheckout"}
JobKinds == {"none", "mint", "claim", "transfer", "queue", "paidQueue", "retry", "expire"}
            \union CheckoutKinds

\* A job: its kind, the wallet it names, the attempts and the registration it read, and
\* whether it read the handle's own name.
Jobs == [kind : JobKinds, wallet : Wallets \union {"none"}, attempts : 0..MAX_RETRIES,
         entry : Networks \union {"none"}, named : BOOLEAN]

NoJob == [kind |-> "none", wallet |-> "none", attempts |-> 0, entry |-> "none", named |-> TRUE]

Points == {"idle", "give_up", "count", "register", "record", "failed", "pay", "mark", "requeue",
           "resolve", "give", "claimed", "queue", "retire", "release", "auction"}

RowsOK ==
  /\ nftStatus \in {"none", "pending_anchor", "active", "anchor_failed"}
  /\ nftCustodian \in {"null", "platform", "user"} /\ nftOwnerWallet \in Wallets \union {"none"}
  /\ registration \in Networks \union {"none"} /\ anchorAttempts \in 0..MAX_RETRIES
  /\ handleStatus \in {"live", "retired", "auctioned"} /\ expiry \in {"ahead", "past", "null"}
  /\ checkedOut \in BOOLEAN
  /\ chain \in {"free", "registered", "retired"} /\ keeper \in Wallets \union {"none", "platform"}
  /\ faults \in 0..MaxFaults

SlotsOK == pc \in [Slots -> Points] /\ job \in [Slots -> Jobs]

TypeOK == RowsOK /\ SlotsOK

\* A handle whose agent was verified, or that was bought without an anchor.
Init ==
  /\ nftStatus = "none" /\ nftCustodian = "null" /\ nftOwnerWallet = "none"
  /\ registration = "none" /\ anchorAttempts = 0
  /\ handleStatus = "live" /\ expiry = "ahead" /\ checkedOut = FALSE
  /\ chain = "free" /\ keeper = "none" /\ faults = 0
  /\ pc = [s \in Slots |-> "idle"] /\ job = [s \in Slots |-> NoJob]

Begin(s, to, j) ==
  pc[s] = "idle" /\ pc' = [pc EXCEPT ![s] = to] /\ job' = [job EXCEPT ![s] = j]

Goto(s, from, to) == pc[s] = from /\ pc' = [pc EXCEPT ![s] = to] /\ job' = job

Finish(s) == pc' = [pc EXCEPT ![s] = "idle"] /\ job' = [job EXCEPT ![s] = NoJob]

-----------------------------------------------------------------------------
(* The registrar: it refuses a handle it knows, and gives an NFT away once *)

\* registerOnChain of the mint worker, the checkout and claim-nft.  The call may take
\* effect and still throw, when its receipt does not come in time.
AfterRegister(s) ==
  CASE job[s].kind = "mint"     -> [ok |-> "record", thrown |-> "failed"]
    [] job[s].kind = "checkout" -> [ok |-> "record", thrown |-> "requeue"]
    [] OTHER                    -> [ok |-> "give",   thrown |-> "idle"]

RegisterOnChain(s, answered) ==
  /\ job[s].named /\ chain = "free"
  /\ Goto(s, "register", IF answered THEN AfterRegister(s).ok ELSE AfterRegister(s).thrown)
  /\ chain' = "registered" /\ keeper' = "platform"
  /\ UNCHANGED <<rowVars, lifeVars, faults>>

RegisterFails(s) ==
  /\ Goto(s, "register", AfterRegister(s).thrown)
  /\ UNCHANGED <<rowVars, lifeVars, chainVars, faults>>

\* transferToUser, of claim-nft and of the NFT transfer.
TransferToUser(s, answered) ==
  /\ chain = "registered" /\ keeper = "platform"
  /\ Goto(s, "give", IF answered THEN "claimed" ELSE "idle")
  /\ keeper' = job[s].wallet
  /\ UNCHANGED <<rowVars, lifeVars, chain, faults>>

\* Seeded fault: a transfer that was refused is taken for one made before.
TransferFailsQuietly(s) ==
  /\ Goto(s, "give", "claimed")
  /\ UNCHANGED <<rowVars, lifeVars, chainVars, faults>>

TransferFails(s) ==
  /\ Goto(s, "give", "idle")
  /\ UNCHANGED <<rowVars, lifeVars, chainVars, faults>>

-----------------------------------------------------------------------------
(* The mint worker *)

\* A pass reads the pending row with its attempts.  A renamed handle is none that the
\* registrar accepts.
MintRead(s) ==
  /\ nftStatus = "pending_anchor"
  /\ Begin(s, IF anchorAttempts >= MAX_RETRIES THEN "give_up" ELSE "count",
           [NoJob EXCEPT !.kind = "mint", !.attempts = anchorAttempts,
                         !.named = (handleStatus # "auctioned")])
  /\ UNCHANGED <<rowVars, lifeVars, chainVars, faults>>

\* Seeded fault: the row is left as it is.
MintGivesNothingUp(s) ==
  /\ pc[s] = "give_up" /\ Finish(s)
  /\ UNCHANGED <<rowVars, lifeVars, chainVars, faults>>

\* The metadata it read is written back with the failure.
MintGiveUp(s) ==
  /\ pc[s] = "give_up" /\ Finish(s)
  /\ nftStatus' = "anchor_failed" /\ anchorAttempts' = job[s].attempts
  /\ UNCHANGED <<nftCustodian, nftOwnerWallet, registration, lifeVars, chainVars, faults>>

CountedUp == IF anchorAttempts < MAX_RETRIES THEN anchorAttempts + 1 ELSE MAX_RETRIES

MintCount(s) ==
  /\ Goto(s, "count", "register")
  /\ anchorAttempts' = CountedUp
  /\ UNCHANGED <<nftStatus, nftCustodian, nftOwnerWallet, registration, lifeVars, chainVars,
                 faults>>

\* Only the mint worker names the registrar's own chain.
AnchoredRow(s) ==
  /\ nftStatus' = "active" /\ nftCustodian' = "platform"
  /\ registration' = IF job[s].kind = "mint" THEN Network ELSE "base"
  /\ UNCHANGED <<nftOwnerWallet, anchorAttempts>>

\* The mint worker, and the checkout when it registered the handle itself.
RecordAnchor(s) ==
  /\ pc[s] = "record" /\ Finish(s) /\ AnchoredRow(s)
  /\ UNCHANGED <<lifeVars, chainVars, faults>>

MintFailed(s) ==
  /\ pc[s] = "failed" /\ Finish(s)
  /\ nftStatus' = IF job[s].attempts + 1 < MAX_RETRIES THEN nftStatus ELSE "anchor_failed"
  /\ UNCHANGED <<nftCustodian, nftOwnerWallet, registration, anchorAttempts, lifeVars, chainVars,
                 faults>>

\* The write of an anchor the registrar made fails, which is handled as a refusal.  So is
\* a checkout's row in the audit log, which follows the write.
RecordFails(s) ==
  /\ faults < MaxFaults /\ faults' = faults + 1
  /\ Goto(s, "record", AfterRegister(s).thrown)
  /\ UNCHANGED rowVars \/ (job[s].kind = "checkout" /\ AnchoredRow(s))
  /\ UNCHANGED <<lifeVars, chainVars>>

PassDies(s) ==
  /\ faults < MaxFaults /\ faults' = faults + 1
  /\ pc[s] # "idle" /\ Finish(s)
  /\ UNCHANGED <<rowVars, lifeVars, chainVars>>

-----------------------------------------------------------------------------
(* Requests that queue an anchor *)

\* handle_registration reads the metadata, with the attempts, of a row it found by id.
\* Its test of the tier refuses the handles that are short enough (the README has that as
\* finding 14); what it does with one is modelled as if the test let it through.
CheckoutRead(s, kind) ==
  /\ ~checkedOut /\ checkedOut' = TRUE
  /\ Begin(s, "pay", [NoJob EXCEPT !.kind = kind, !.attempts = anchorAttempts])
  /\ UNCHANGED <<rowVars, handleStatus, expiry, chainVars, faults>>

\* It writes the row without a look at it, its metadata and its name whole.
CheckoutWrite(s) ==
  /\ Goto(s, "pay", "mark")
  /\ nftStatus' = IF job[s].kind = "checkout" THEN "pending_anchor" ELSE "none"
  /\ nftCustodian' = IF job[s].kind = "checkout" THEN "platform" ELSE "null"
  /\ anchorAttempts' = job[s].attempts
  /\ handleStatus' = IF handleStatus = "auctioned" THEN "live" ELSE handleStatus
  /\ expiry' = "ahead"
  /\ UNCHANGED <<nftOwnerWallet, registration, checkedOut, chainVars, faults>>

\* markHandlePaymentComplete runs beside that write.  It read the metadata before it, or
\* reads it now, and writes it whole too; when it wrote first, the write above undid it.
MarkRead(s) ==
  /\ pc[s] = "mark" /\ job' = [job EXCEPT ![s].attempts = anchorAttempts]
  /\ UNCHANGED <<rowVars, lifeVars, chainVars, faults, pc>>

MarkWrite(s) ==
  /\ pc[s] = "mark"
  /\ IF job[s].kind = "plainCheckout" THEN Finish(s)
     ELSE /\ pc' = [pc EXCEPT ![s] = "register"]
          /\ job' = [job EXCEPT ![s] = [NoJob EXCEPT !.kind = "checkout"]]
  /\ anchorAttempts' = job[s].attempts
  /\ UNCHANGED <<nftStatus, nftCustodian, nftOwnerWallet, registration, lifeVars, chainVars,
                 faults>>

\* When that failed the handle is queued, whatever a pass of the worker did by now.
CheckoutRequeue(s) ==
  /\ pc[s] = "requeue" /\ Finish(s)
  /\ nftStatus' = "pending_anchor"
  /\ UNCHANGED <<nftCustodian, nftOwnerWallet, registration, anchorAttempts, lifeVars, chainVars,
                 faults>>

\* request-mint and the completed payment of a mint read that nothing is anchored or
\* queued; anchor/retry reads that the worker gave up.  Only request-mint finds the row by
\* the handle's name.
Queue(s, kind) ==
  /\ nftStatus \in (IF kind = "retry" THEN {"anchor_failed"} ELSE {"none", "anchor_failed"})
  /\ kind = "queue" => handleStatus # "auctioned"
  /\ Begin(s, "queue", [NoJob EXCEPT !.kind = kind])
  /\ UNCHANGED <<rowVars, lifeVars, chainVars, faults>>

QueueWrite(s) ==
  /\ pc[s] = "queue" /\ Finish(s)
  /\ nftStatus' = "pending_anchor"
  /\ nftCustodian' = IF job[s].kind = "queue" THEN "platform" ELSE nftCustodian
  /\ anchorAttempts' = IF job[s].kind = "retry" THEN 0 ELSE anchorAttempts
  /\ UNCHANGED <<nftOwnerWallet, registration, lifeVars, chainVars, faults>>

-----------------------------------------------------------------------------
(* Requests that give the NFT to the user *)

\* claim-nft reads the row once; its ticket is consumed only in the end.
ClaimNft(s, w) ==
  /\ nftCustodian # "user" /\ handleStatus # "auctioned"
  /\ nftCustodian = "platform" \/ nftStatus = "pending_anchor" \/ registration # "none"
  /\ Begin(s, IF registration # "none" THEN "give" ELSE "resolve",
           [NoJob EXCEPT !.kind = "claim", !.wallet = w, !.entry = registration])
  /\ UNCHANGED <<rowVars, lifeVars, chainVars, faults>>

\* A handle the registrar knows is not registered again; when it does not answer, it is.
ClaimResolve(s, answered) ==
  /\ Goto(s, "resolve", IF answered /\ chain = "registered" THEN "give" ELSE "register")
  /\ UNCHANGED <<rowVars, lifeVars, chainVars, faults>>

\* The NFT transfer needs an anchor in the platform's custody.
TransferNft(s, w) ==
  /\ nftStatus = "active" /\ nftCustodian = "platform" /\ handleStatus # "auctioned"
  /\ Begin(s, "give", [NoJob EXCEPT !.kind = "transfer", !.wallet = w])
  /\ UNCHANGED <<rowVars, lifeVars, chainVars, faults>>

\* Seeded fault: a status no other part knows.
GivenWriteClaimed(s) ==
  /\ pc[s] = "claimed" /\ Finish(s)
  /\ nftCustodian' = "user" /\ nftOwnerWallet' = job[s].wallet /\ nftStatus' = "claimed"
  /\ UNCHANGED <<registration, anchorAttempts, lifeVars, chainVars, faults>>

GivenWrite(s) ==
  /\ pc[s] = "claimed" /\ Finish(s)
  /\ nftCustodian' = "user" /\ nftOwnerWallet' = job[s].wallet
  /\ IF job[s].kind = "claim"
     THEN /\ nftStatus' = "active"
          /\ registration' = IF job[s].entry = "none" THEN "base" ELSE job[s].entry
     ELSE UNCHANGED <<nftStatus, registration>>
  /\ UNCHANGED <<anchorAttempts, lifeVars, chainVars, faults>>

-----------------------------------------------------------------------------
(* The expiry *)

\* A checkout moves the expiry a year ahead, so that none is past its write.
HandleExpires ==
  /\ expiry = "ahead" /\ expiry' = "past"
  /\ \A s \in Slots : job[s].kind \in CheckoutKinds => pc[s] = "pay"
  /\ UNCHANGED <<rowVars, handleStatus, checkedOut, chainVars, faults, jobVars>>

\* expireHandles reads the registrations with the expired rows, and knows one chain.
ExpireRead(s) ==
  /\ expiry = "past"
  /\ Begin(s, IF registration = "base" THEN "retire" ELSE "auction",
           [NoJob EXCEPT !.kind = "expire"])
  /\ UNCHANGED <<rowVars, lifeVars, chainVars, faults>>

ExpireRetire(s) ==
  /\ Goto(s, "retire", "release")
  /\ handleStatus' = "retired" /\ expiry' = "null"
  /\ UNCHANGED <<rowVars, checkedOut, chainVars, faults>>

\* releaseHandle is the contract owner's and may be refused, which is logged.
ExpireRelease(s) ==
  /\ pc[s] = "release" /\ Finish(s)
  /\ chain' \in {chain, "retired"}
  /\ UNCHANGED <<rowVars, lifeVars, keeper, faults>>

ExpireAuction(s) ==
  /\ pc[s] = "auction" /\ Finish(s)
  /\ handleStatus' = "auctioned" /\ expiry' = "null"
  /\ UNCHANGED <<rowVars, checkedOut, chainVars, faults>>

RequestDies(s) ==
  /\ pc[s] # "idle" /\ Finish(s)
  /\ UNCHANGED <<rowVars, lifeVars, chainVars, faults>>

-----------------------------------------------------------------------------
RegistrarCall(s) ==
  \/ \E answered \in BOOLEAN : RegisterOnChain(s, answered) \/ TransferToUser(s, answered)
  \/ RegisterFails(s) \/ TransferFails(s)

PassStep(s) ==
  MintGiveUp(s) \/ MintCount(s) \/ RegistrarCall(s) \/ RecordAnchor(s) \/ MintFailed(s)

RequestStep(s) ==
  \/ \E kind \in CheckoutKinds : CheckoutRead(s, kind)
  \/ CheckoutWrite(s) \/ MarkRead(s) \/ MarkWrite(s) \/ CheckoutRequeue(s)
  \/ RegistrarCall(s) \/ RecordAnchor(s) \/ RecordFails(s)
  \/ \E kind \in {"queue", "paidQueue", "retry"} : Queue(s, kind)
  \/ QueueWrite(s) \/ GivenWrite(s)
  \/ \E w \in Wallets : ClaimNft(s, w) \/ TransferNft(s, w)
  \/ \E answered \in BOOLEAN : ClaimResolve(s, answered)
  \/ ExpireRead(s) \/ ExpireRetire(s) \/ ExpireRelease(s) \/ ExpireAuction(s) \/ RequestDies(s)

Next ==
  \/ \E s \in Passes : MintRead(s) \/ PassStep(s) \/ RecordFails(s) \/ PassDies(s)
  \/ \E s \in Requests : RequestStep(s)
  \/ HandleExpires

\* The timer runs the worker, and its passes go on; requests may stop anywhere.
Spec ==
  Init /\ [][Next]_vars /\ \A s \in Passes : WF_vars(MintRead(s)) /\ WF_vars(PassStep(s))

-----------------------------------------------------------------------------
(* What the anchor promises *)

\* The row never claims more than the registrar knows, whichever call or write fails
\* between them and however late passes and requests write: an anchor it records was
\* registered, and the NFT it calls the user's is in the wallet it names.
ChainBacked ==
  /\ nftStatus = "active" \/ registration # "none" => chain # "free"
  /\ nftCustodian = "user" => keeper = nftOwnerWallet

\* A queued handle does not stay queued: it is anchored or its failure is on record,
\* although passes die and attempts are counted by several of them.
PendingSettles == (nftStatus = "pending_anchor") ~> (nftStatus # "pending_anchor")

-----------------------------------------------------------------------------
(* What a reader may expect and the code does not do *)

\* "Do NOT rename or auction": an anchored handle is not offered to others.
AnchoredNotAuctioned == handleStatus = "auctioned" => chain = "free"
=============================================================================
