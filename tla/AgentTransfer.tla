----------------------------- MODULE AgentTransfer -----------------------------
(***************************************************************************)
(* The transfers of one agent from owner to owner, services/agent-transfer.ts *)
(* with transfer-readiness.ts, trust-recalibration.ts, and the claims of        *)
(* routes/v1/agents.ts, beside the agent's keys (AgentKeys).                   *)
(* Each action is one statement or one transaction of a request's handler; the *)
(* handoff's transaction reads the keys before it commits, so it is two.       *)
(***************************************************************************)
EXTENDS AgentKeys

CONSTANTS
  Dealers,        \* slots of requests about transfers
  MaxTransfers,   \* transfers ever created for the agent
  Users, Creator  \* users, and the one who created the agent

ASSUME TransferAssumption == MaxTransfers \in Nat /\ Creator \in Users /\ "none" \notin Users

Transfers == 1..MaxTransfers

VARIABLES
  userId, ownerUserId,   \* of the agent; ownerUserId is "none" until it is claimed
  phase,      \* status of each transfer, "none" before its insertion
  seller, buyer,         \* of each transfer
  parties,    \* history: who accepted each transfer, or was named by an update of it
  acceptedAt, handoffStartedAt, completedAt,   \* transfers with that time; never cleared
  snapshots,  \* transfers with a snapshot of the agent's trust
  recalibrated,          \* transfers whose snapshot was blended with the new operator
  retired,    \* history: keys up to this one are the previous owners'
  step, deal  \* where each request is, and what it read

agentVars    == <<userId, ownerUserId>>
transferVars == <<phase, seller, buyer, parties, acceptedAt, handoffStartedAt, completedAt>>
trustVars    == <<snapshots, recalibrated>>
dealVars     == <<step, deal>>
vars == <<keysVars, agentVars, transferVars, trustVars, retired, dealVars>>

Phases == {"draft", "pending_acceptance", "transfer_pending", "in_handoff", "completed",
           "disputed", "cancelled"}

VALID_TRANSITIONS ==
  [p \in Phases |->
     CASE p = "draft"              -> {"pending_acceptance", "cancelled"}
       [] p = "pending_acceptance" -> {"transfer_pending", "cancelled"}
       [] p = "transfer_pending"   -> {"in_handoff", "cancelled", "disputed"}
       [] p = "in_handoff"         -> {"completed", "disputed", "cancelled"}
       [] p = "disputed"           -> {"cancelled", "in_handoff"}
       [] OTHER                    -> {}]

\* A request: its transfer, the user who makes it or is named by it, the status it asks
\* for, and the keys it read.
Maybe(S) == S \union {"none"}
Deals == [t : 0..MaxTransfers, user : Maybe(Users), to : Phases \union {"none"},
          keys : SUBSET Keys, newest : 0..MaxKeys]
NoDeal == [t |-> 0, user |-> "none", to |-> "none", keys |-> {}, newest |-> 0]

Steps == {"idle", "insert", "update", "write", "advance", "snapshot", "start", "read_keys",
          "commit", "recalibrate", "claim"}

TransfersOK ==
  /\ userId \in Users /\ ownerUserId \in Maybe(Users)
  /\ phase \in [Transfers -> Phases \union {"none"}]
  /\ seller \in [Transfers -> Maybe(Users)] /\ buyer \in [Transfers -> Maybe(Users)]
  /\ parties \in [Transfers -> SUBSET Users]
  /\ acceptedAt \subseteq Transfers /\ handoffStartedAt \subseteq Transfers
  /\ completedAt \subseteq Transfers
  /\ snapshots \subseteq Transfers /\ recalibrated \subseteq Transfers
  /\ retired \in 0..MaxKeys

DealsOK == step \in [Dealers -> Steps] /\ deal \in [Dealers -> Deals]

TypeOK == KeysTypeOK /\ TransfersOK /\ DealsOK

Init ==
  /\ KeysInit
  /\ userId = Creator /\ ownerUserId = "none"
  /\ phase = [t \in Transfers |-> "none"]
  /\ seller = [t \in Transfers |-> "none"] /\ buyer = [t \in Transfers |-> "none"]
  /\ parties = [t \in Transfers |-> {}]
  /\ acceptedAt = {} /\ handoffStartedAt = {} /\ completedAt = {}
  /\ snapshots = {} /\ recalibrated = {} /\ retired = 0
  /\ step = [d \in Dealers |-> "idle"] /\ deal = [d \in Dealers |-> NoDeal]

\* isAgentOwner: a user who claimed the agent comes before its userId.
EffectiveOwner == IF ownerUserId = "none" THEN userId ELSE ownerUserId

\* Request d begins with deal j, goes on, and returns.
Begin(d, to, j) ==
  step[d] = "idle" /\ step' = [step EXCEPT ![d] = to] /\ deal' = [deal EXCEPT ![d] = j]

Proceed(d, from, to) == step[d] = from /\ step' = [step EXCEPT ![d] = to] /\ deal' = deal

Finish(d) == step' = [step EXCEPT ![d] = "idle"] /\ deal' = [deal EXCEPT ![d] = NoDeal]

\* The server dies or the database fails; a transaction leaves nothing.
Drop(d) ==
  /\ step[d] # "idle" /\ Finish(d)
  /\ UNCHANGED <<keysVars, agentVars, transferVars, trustVars, retired>>

-----------------------------------------------------------------------------
(* From the offer to the handoff *)

\* createTransfer reads that the seller owns the agent and that no other transfer of it
\* is under way (of the readiness report's blockers the one about transfers; the others
\* only refuse more), ...
CreateTransfer(d, u) ==
  /\ u = EffectiveOwner
  /\ \A t \in Transfers : phase[t] \in {"none", "completed", "cancelled"}
  /\ Begin(d, "insert", [NoDeal EXCEPT !.user = u])
  /\ UNCHANGED <<keysVars, agentVars, transferVars, trustVars, retired>>

\* ... and inserts the transfer, for a buyer it names or for anyone.
CreateInsertDraft(d) ==
  /\ step[d] = "insert" /\ Finish(d)
  /\ \E t \in Transfers, b \in Maybe(Users) :
       /\ phase[t] = "none" /\ \A s \in 1..(t - 1) : phase[s] # "none"
       /\ phase' = [phase EXCEPT ![t] = "draft"]
       /\ seller' = [seller EXCEPT ![t] = deal[d].user]
       /\ buyer' = [buyer EXCEPT ![t] = b]
  /\ UNCHANGED <<keysVars, agentVars, parties, acceptedAt, handoffStartedAt, completedAt,
                 trustVars, retired>>

\* updateTransfer: the seller changes a draft, and may name another buyer ("none": the
\* update has no buyerId) ...
UpdateTransfer(d, t, u) ==
  /\ phase[t] = "draft"
  /\ Begin(d, "update", [NoDeal EXCEPT !.t = t, !.user = u])
  /\ UNCHANGED <<keysVars, agentVars, transferVars, trustVars, retired>>

\* ... and writes what the update has by the transfer's id.
UpdateWrite(d) ==
  LET t == deal[d].t
  IN /\ step[d] = "update" /\ Finish(d)
     /\ buyer' = [buyer EXCEPT ![t] = IF deal[d].user = "none" THEN @ ELSE deal[d].user]
     /\ parties' = [parties EXCEPT ![t] = @ \union ({deal[d].user} \ {"none"})]
     /\ UNCHANGED <<keysVars, agentVars, phase, seller, acceptedAt, handoffStartedAt,
                    completedAt, trustVars, retired>>

\* acceptTransfer, and the write of its status and buyer.
AcceptTransfer(d, t, u) ==
  /\ phase[t] = "draft" /\ u # seller[t] /\ buyer[t] \in {"none", u}
  /\ Begin(d, "write", [NoDeal EXCEPT !.t = t, !.user = u, !.to = "pending_acceptance"])
  /\ UNCHANGED <<keysVars, agentVars, transferVars, trustVars, retired>>

\* Seeded fault: the acceptance does not write who accepted.
AcceptKeepsBuyer(d) ==
  LET t == deal[d].t
  IN /\ step[d] = "write" /\ deal[d].to = "pending_acceptance" /\ Finish(d)
     /\ phase' = [phase EXCEPT ![t] = "pending_acceptance"]
     /\ acceptedAt' = acceptedAt \union {t}
     /\ UNCHANGED <<keysVars, agentVars, seller, buyer, parties, handoffStartedAt, completedAt,
                    trustVars, retired>>

AcceptWrite(d) ==
  LET t == deal[d].t
  IN /\ step[d] = "write" /\ deal[d].to = "pending_acceptance" /\ Finish(d)
     /\ phase' = [phase EXCEPT ![t] = "pending_acceptance"]
     /\ buyer' = [buyer EXCEPT ![t] = deal[d].user]
     /\ parties' = [parties EXCEPT ![t] = @ \union {deal[d].user}]
     /\ acceptedAt' = acceptedAt \union {t}
     /\ UNCHANGED <<keysVars, agentVars, seller, handoffStartedAt, completedAt, trustVars,
                    retired>>

\* advanceToTransferPending, cancelTransfer and disputeTransfer check the transition on
\* what they read, and write the status by the transfer's id.
ChangePhase(d, t, to) ==
  /\ phase[t] # "none" /\ to \in VALID_TRANSITIONS[phase[t]]
  /\ Begin(d, "write", [NoDeal EXCEPT !.t = t, !.to = to])
  /\ UNCHANGED <<keysVars, agentVars, transferVars, trustVars, retired>>

ChangePhaseWrite(d) ==
  /\ step[d] = "write" /\ deal[d].to # "pending_acceptance" /\ Finish(d)
  /\ phase' = [phase EXCEPT ![deal[d].t] = deal[d].to]
  /\ UNCHANGED <<keysVars, agentVars, seller, buyer, parties, acceptedAt, handoffStartedAt,
                 completedAt, trustVars, retired>>

-----------------------------------------------------------------------------
(* The handoff *)

\* startHandoff of an accepted transfer writes transfer_pending first.
StartHandoff(d, t) ==
  /\ phase[t] \in {"pending_acceptance", "transfer_pending", "disputed"}
  /\ buyer[t] # "none"
  /\ Begin(d, IF phase[t] = "pending_acceptance" THEN "advance" ELSE "snapshot",
           [NoDeal EXCEPT !.t = t])
  /\ UNCHANGED <<keysVars, agentVars, transferVars, trustVars, retired>>

\* Seeded fault: the handoff starts, and the snapshot is left to another request.
StartAdvanceSkipsSnapshot(d) ==
  /\ Proceed(d, "advance", "start")
  /\ phase' = [phase EXCEPT ![deal[d].t] = "transfer_pending"]
  /\ UNCHANGED <<keysVars, agentVars, seller, buyer, parties, acceptedAt, handoffStartedAt,
                 completedAt, trustVars, retired>>

StartAdvance(d) ==
  /\ Proceed(d, "advance", "snapshot")
  /\ phase' = [phase EXCEPT ![deal[d].t] = "transfer_pending"]
  /\ UNCHANGED <<keysVars, agentVars, seller, buyer, parties, acceptedAt, handoffStartedAt,
                 completedAt, trustVars, retired>>

\* snapshotTrustState
StartSnapshot(d) ==
  /\ Proceed(d, "snapshot", "start")
  /\ snapshots' = snapshots \union {deal[d].t}
  /\ UNCHANGED <<keysVars, agentVars, transferVars, recalibrated, retired>>

\* Seeded fault: a status that is none of the transfer's.
StartWriteStarted(d) ==
  /\ step[d] = "start" /\ Finish(d)
  /\ phase' = [phase EXCEPT ![deal[d].t] = "started"]
  /\ UNCHANGED <<keysVars, agentVars, seller, buyer, parties, acceptedAt, handoffStartedAt,
                 completedAt, trustVars, retired>>

StartWrite(d) ==
  LET t == deal[d].t
  IN /\ step[d] = "start" /\ Finish(d)
     /\ phase' = [phase EXCEPT ![t] = "in_handoff"]
     /\ handoffStartedAt' = handoffStartedAt \union {t}
     /\ UNCHANGED <<keysVars, agentVars, seller, buyer, parties, acceptedAt, completedAt,
                    trustVars, retired>>

\* completeHandoff reads the transfer and its buyer, ...
CompleteHandoff(d, t) ==
  /\ phase[t] = "in_handoff" /\ buyer[t] # "none"
  /\ Begin(d, "read_keys", [NoDeal EXCEPT !.t = t, !.user = buyer[t]])
  /\ UNCHANGED <<keysVars, agentVars, transferVars, trustVars, retired>>

\* ... in its transaction the active keys, ...
HandoffReadKeys(d) ==
  /\ step[d] = "read_keys" /\ step' = [step EXCEPT ![d] = "commit"]
  /\ deal' = [deal EXCEPT ![d].keys = ActiveKeys, ![d].newest = count]
  /\ UNCHANGED <<keysVars, agentVars, transferVars, trustVars, retired>>

\* Seeded fault: the seller's keys stay active.
HandoffKeepsKeys(d) ==
  LET t == deal[d].t
  IN /\ Proceed(d, "commit", "recalibrate")
     /\ userId' = deal[d].user
     /\ phase' = [phase EXCEPT ![t] = "completed"]
     /\ completedAt' = completedAt \union {t}
     /\ retired' = IF deal[d].newest > retired THEN deal[d].newest ELSE retired
     /\ UNCHANGED <<keysVars, ownerUserId, seller, buyer, parties, acceptedAt,
                    handoffStartedAt, trustVars>>

\* ... and commits: these keys revoked, the agent moved, the transfer completed.
HandoffCommit(d) ==
  LET t == deal[d].t
  IN /\ Proceed(d, "commit", "recalibrate")
     /\ status' = [k \in Keys |-> IF k \in deal[d].keys THEN "revoked" ELSE status[k]]
     /\ userId' = deal[d].user
     /\ phase' = [phase EXCEPT ![t] = "completed"]
     /\ completedAt' = completedAt \union {t}
     /\ retired' = IF deal[d].newest > retired THEN deal[d].newest ELSE retired
     /\ UNCHANGED <<count, purposeful, log, agent, stranded, nonceVars,
                    requestVars, ownerUserId, seller, buyer, parties, acceptedAt,
                    handoffStartedAt, trustVars>>

\* recalibrateTrust blends the snapshot with the new operator's reputation; without a
\* snapshot it throws, and the request ends.  The operator history and the caches follow;
\* nothing here reads them.
Recalibrate(d) ==
  /\ step[d] = "recalibrate" /\ deal[d].t \in snapshots /\ Finish(d)
  /\ recalibrated' = recalibrated \union {deal[d].t}
  /\ UNCHANGED <<keysVars, agentVars, transferVars, snapshots, retired>>

-----------------------------------------------------------------------------
(* Claims of an agent that nobody claimed: POST agents/:id/claim by its owner *)

ClaimAgent(d, u) ==
  /\ ownerUserId = "none" /\ u = userId
  /\ Begin(d, "claim", [NoDeal EXCEPT !.user = u])
  /\ UNCHANGED <<keysVars, agentVars, transferVars, trustVars, retired>>

\* The UPDATE tests again that nobody claimed it.
ClaimWrite(d) ==
  /\ step[d] = "claim" /\ ownerUserId = "none" /\ Finish(d)
  /\ ownerUserId' = deal[d].user
  /\ UNCHANGED <<keysVars, userId, transferVars, trustVars, retired>>

\* POST agents/claim: a user who holds the agent's claim token claims it, in one
\* transaction.
ClaimByToken(u) ==
  /\ ownerUserId = "none"
  /\ ownerUserId' = u
  /\ UNCHANGED <<keysVars, userId, transferVars, trustVars, retired, dealVars>>

DealNext(d) ==
  \/ \E u \in Users : CreateTransfer(d, u) \/ ClaimAgent(d, u)
  \/ \E t \in Transfers, u \in Maybe(Users) : UpdateTransfer(d, t, u)
  \/ \E t \in Transfers, u \in Users : AcceptTransfer(d, t, u)
  \/ \E t \in Transfers :
       \/ \E to \in {"transfer_pending", "cancelled", "disputed"} : ChangePhase(d, t, to)
       \/ StartHandoff(d, t) \/ CompleteHandoff(d, t)
  \/ CreateInsertDraft(d) \/ UpdateWrite(d) \/ AcceptWrite(d) \/ ChangePhaseWrite(d)
  \/ StartAdvance(d) \/ StartSnapshot(d) \/ StartWrite(d)
  \/ HandoffReadKeys(d) \/ HandoffCommit(d)
  \/ Recalibrate(d)
  \/ ClaimWrite(d) \/ Drop(d)

KeysStep == KeysNext /\ UNCHANGED <<agentVars, transferVars, trustVars, retired, dealVars>>

Next ==
  \/ \E d \in Dealers : DealNext(d)
  \/ \E u \in Users : ClaimByToken(u)
  \/ KeysStep

Spec == Init /\ [][Next]_vars

-----------------------------------------------------------------------------
(* What transfers promise *)

\* Once a handoff committed, no key that existed when it read the keys is active, also
\* when the seller's rotations, added keys or a second handoff run beside it.
HandoffRetiresKeys == \A k \in ActiveKeys : k > retired

\* recalibrateTrust finds its snapshot: the agent never moves to a buyer and leaves
\* completeHandoff dead before it recorded the new operator for want of one.
HandoffCanRecalibrate ==
  \A d \in Dealers : step[d] = "recalibrate" => deal[d].t \in snapshots

Stage ==
  [t \in Transfers |-> IF t \in completedAt THEN "moved"
                       ELSE IF t \in snapshots THEN "prepared"
                       ELSE IF t \in acceptedAt THEN "agreed"
                       ELSE IF phase[t] # "none" THEN "open" ELSE "none"]

Tenure == INSTANCE AgentTenure WITH owner <- userId, stage <- Stage

\* Whatever the blind writes of the status do, the agent moves only by a transfer that was
\* accepted and prepared, and only to a user who accepted it or whom an update named.
TenureSpec == Tenure!Spec

-----------------------------------------------------------------------------
(* What a reader may expect and the code does not do *)

\* "This prevents former creators from retaining privileged access after an agent has
\* been claimed or transferred to a different user": nobody who gave the agent away by a
\* transfer owns it still.
FormerOwnerIsOut ==
  \A t \in completedAt : userId # seller[t] => EffectiveOwner # seller[t]
=============================================================================
