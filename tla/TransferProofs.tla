---------------------------- MODULE TransferProofs ----------------------------
(***************************************************************************)
(* What AgentTransfer's run tenure checks, for any number of requests,       *)
(* transfers, users and keys: types, the retired keys, the snapshot of every  *)
(* handoff, and that transfers implement AgentTenure.                         *)
(***************************************************************************)
EXTENDS AgentTransfer, KeysProofs

-----------------------------------------------------------------------------
(* Type correctness *)

\* A handoff about to commit read only keys that were inserted.
ReadsInserted ==
  \A d \in Dealers : step[d] = "commit" =>
    deal[d].newest <= count /\ \A k \in deal[d].keys : k <= count

\* A request beyond its reading of a transfer has one, and who it writes as a buyer.
HasTransfer ==
  \A d \in Dealers :
    /\ step[d] \notin {"idle", "insert", "claim"} => deal[d].t \in Transfers
    /\ step[d] \in {"insert", "claim", "read_keys", "commit"} => deal[d].user \in Users
    /\ step[d] = "write" =>
         /\ deal[d].to \in Phases
         /\ deal[d].to = "pending_acceptance" => deal[d].user \in Users

TransferTypeInv == KeysTypeInv /\ TransfersOK /\ DealsOK /\ ReadsInserted /\ HasTransfer

LEMMA NoDealTyped == NoDeal \in Deals
  BY KeysAssumption, TransferAssumption DEF NoDeal, Deals, Maybe

\* A deal stays one when a field is written.
LEMMA FieldsTyped ==
  ASSUME NEW j \in Deals
  PROVE  /\ \A t \in Transfers : [j EXCEPT !.t = t] \in Deals
         /\ \A u \in Maybe(Users) : [j EXCEPT !.user = u] \in Deals
         /\ \A p \in Phases : [j EXCEPT !.to = p] \in Deals
         /\ \A ks \in SUBSET Keys : [j EXCEPT !.keys = ks] \in Deals
         /\ \A n \in 0..MaxKeys : [j EXCEPT !.newest = n] \in Deals
<1>1. \A t \in Transfers : [j EXCEPT !.t = t] \in Deals
  BY TransferAssumption DEF Deals, Transfers
<1>2. \A u \in Maybe(Users) : [j EXCEPT !.user = u] \in Deals
  BY DEF Deals
<1>3. \A p \in Phases : [j EXCEPT !.to = p] \in Deals
  BY DEF Deals
<1>4. \A ks \in SUBSET Keys : [j EXCEPT !.keys = ks] \in Deals
  BY DEF Deals
<1>5. \A n \in 0..MaxKeys : [j EXCEPT !.newest = n] \in Deals
  BY DEF Deals
<1> QED BY <1>1, <1>2, <1>3, <1>4, <1>5

\* The deals that requests begin with.
LEMMA DealsTyped ==
  /\ \A u \in Users : [NoDeal EXCEPT !.user = u] \in Deals
  /\ \A t \in Transfers : [NoDeal EXCEPT !.t = t] \in Deals
  /\ \A t \in Transfers, u \in Maybe(Users) : [NoDeal EXCEPT !.t = t, !.user = u] \in Deals
  /\ \A t \in Transfers, p \in Phases : [NoDeal EXCEPT !.t = t, !.to = p] \in Deals
  /\ \A t \in Transfers, u \in Users, p \in Phases :
       [NoDeal EXCEPT !.t = t, !.user = u, !.to = p] \in Deals
<1>1. \A u \in Users : [NoDeal EXCEPT !.user = u] \in Deals
  BY NoDealTyped, FieldsTyped DEF Maybe
<1>2. \A t \in Transfers : [NoDeal EXCEPT !.t = t] \in Deals
  BY NoDealTyped, FieldsTyped
<1>3. ASSUME NEW t \in Transfers, NEW u \in Maybe(Users)
      PROVE  [NoDeal EXCEPT !.t = t, !.user = u] \in Deals
  <2>1. [[NoDeal EXCEPT !.t = t] EXCEPT !.user = u] \in Deals
    BY <1>2, FieldsTyped
  <2> QED BY <2>1, Zenon
<1>4. ASSUME NEW t \in Transfers, NEW p \in Phases
      PROVE  [NoDeal EXCEPT !.t = t, !.to = p] \in Deals
  <2>1. [[NoDeal EXCEPT !.t = t] EXCEPT !.to = p] \in Deals
    BY <1>2, FieldsTyped
  <2> QED BY <2>1, Zenon
<1>5. ASSUME NEW t \in Transfers, NEW u \in Users, NEW p \in Phases
      PROVE  [NoDeal EXCEPT !.t = t, !.user = u, !.to = p] \in Deals
  <2>1. [[NoDeal EXCEPT !.t = t, !.user = u] EXCEPT !.to = p] \in Deals
    BY <1>3, FieldsTyped DEF Maybe
  <2> QED BY <2>1, Zenon
<1> QED BY <1>1, <1>2, <1>3, <1>4, <1>5

\* A request that begins, goes on or returns stays typed.
LEMMA BeginTyped ==
  ASSUME DealsOK, NEW d \in Dealers, NEW to \in Steps, NEW j \in Deals, Begin(d, to, j)
  PROVE  DealsOK'
  BY DEF DealsOK, Begin

LEMMA ProceedTyped ==
  ASSUME DealsOK, NEW d \in Dealers, NEW from, NEW to \in Steps, Proceed(d, from, to)
  PROVE  DealsOK'
  BY DEF DealsOK, Proceed

LEMMA FinishTyped ==
  ASSUME DealsOK, NEW d \in Dealers, Finish(d)
  PROVE  DealsOK'
<1>1. "idle" \in Steps
  BY DEF Steps
<1> QED BY <1>1, NoDealTyped DEF DealsOK, Finish

\* What a request without a step of its own on the keys leaves as it was.
LEMMA KeysKept ==
  ASSUME KeysTypeInv, UNCHANGED keysVars
  PROVE  KeysTypeInv' /\ count' = count /\ ActiveKeys' = ActiveKeys
  BY KeysTypeStep DEF keysVars, keyVars, ActiveKeys

LEMMA NextPhases == \A p \in Phases : VALID_TRANSITIONS[p] \subseteq Phases
  BY DEF VALID_TRANSITIONS, Phases

\* Keys are inserted in order, and a key that is not active does not become so.
KeysGrow == count' >= count /\ \A k \in ActiveKeys' : k \in ActiveKeys \/ k > count

LEMMA KeysOnward == KeysTypeInv /\ KeysNext => KeysGrow
<1> SUFFICES ASSUME KeysTypeInv, KeysNext PROVE KeysGrow
  OBVIOUS
<1> USE KeysAssumption DEF KeysTypeInv, KeysTypeOK, KeyRowsOK, ActiveKeys, Keys, keyVars, KeysGrow
<1>1. ASSUME NEW r \in Requests, Act(r) PROVE KeysGrow
  <2>1. ASSUME NEW kind \in {"add", "addForPurpose"}, AddKey(r, kind) PROVE KeysGrow
    BY <2>1 DEF AddKey
  <2>2. CASE CreatePurge(r)
    BY <2>2 DEF CreatePurge
  <2>3. CASE CreateInsert(r)
    BY <2>3 DEF CreateInsert
  <2>4. ASSUME NEW k \in Keys, RotateRevoke(r, k) PROVE KeysGrow
    BY <2>4 DEF RotateRevoke
  <2>5. ASSUME NEW k \in Keys, VerifyRotation(r, k) PROVE KeysGrow
    BY <2>5 DEF VerifyRotation
  <2>6. ASSUME NEW k \in Keys, ExpireRead(r, k) PROVE KeysGrow
    BY <2>6 DEF ExpireRead
  <2>7. ASSUME NEW k \in Keys, NEW immediate \in BOOLEAN,
              InitiateRotation(r, k, immediate)
       PROVE  KeysGrow
    BY <2>7 DEF InitiateRotation
  <2>8. CASE InitiateMark(r)
    BY <2>8 DEF InitiateMark
  <2>9. CASE InitiateLog(r)
    BY <2>9 DEF InitiateLog
  <2>10. CASE VerifyRevoke(r)
    BY <2>10 DEF VerifyRevoke
  <2>11. CASE VerifyLog(r)
    BY <2>11 DEF VerifyLog
  <2>12. CASE ExpireWrite(r)
    BY <2>12 DEF ExpireWrite
  <2>13. CASE CreateChallenge(r)
    BY <2>13 DEF CreateChallenge
  <2>14. CASE ChallengeInsert(r)
    BY <2>14 DEF ChallengeInsert
  <2>15. ASSUME NEW kind \in {"session", "popJwt", "assertion"}, NEW n \in Nonces, NEW k \in Keys,
              Present(r, kind, n, k)
       PROVE  KeysGrow
    BY <2>15 DEF Present
  <2>16. CASE ReadKey(r)
    BY <2>16 DEF ReadKey
  <2>17. CASE ConsumeNonce(r)
    BY <2>17 DEF ConsumeNonce
  <2>18. CASE ReadAgent(r)
    BY <2>18 DEF ReadAgent
  <2>19. CASE Grant(r)
    BY <2>19 DEF Grant
  <2>20. CASE Abandon(r)
    BY <2>20 DEF Abandon
  <2> QED BY <1>1, <2>1, <2>2, <2>3, <2>4, <2>5, <2>6, <2>7, <2>8, <2>9, <2>10, <2>11,
             <2>12, <2>13, <2>14, <2>15, <2>16, <2>17, <2>18, <2>19, <2>20
          DEF Act, KeyNext, AuthNext
<1>2. CASE RevokeAgent
  BY <1>2 DEF RevokeAgent
<1>3. CASE DeleteAgent
  BY <1>3 DEF DeleteAgent
<1>4. ASSUME NEW n \in Nonces, NonceLapses(n) PROVE KeysGrow
  BY <1>4 DEF NonceLapses
<1> QED BY <1>1, <1>2, <1>3, <1>4, NextActs

LEMMA TransferTypeStep == TransferTypeInv /\ [Next]_vars => TransferTypeInv'
<1> SUFFICES ASSUME TransferTypeInv, [Next]_vars PROVE TransferTypeInv'
  OBVIOUS
<1> USE KeysAssumption, TransferAssumption DEF TransferTypeInv
<1>1. ASSUME NEW d \in Dealers, DealNext(d) PROVE TransferTypeInv'
  <2>1. ASSUME NEW u \in Users, CreateTransfer(d, u) PROVE TransferTypeInv'
    <3>1. KeysTypeInv'
      BY <2>1, KeysKept DEF CreateTransfer
    <3>2. TransfersOK'
      BY <2>1 DEF CreateTransfer, TransfersOK, agentVars, transferVars, trustVars,
          HasTransfer, DealsOK, Deals, Phases, Maybe
    <3>3. DealsOK'
      BY <2>1, BeginTyped, DealsTyped DEF CreateTransfer, Steps, Phases
    <3>4. count' = count
      BY <2>1 DEF CreateTransfer, keysVars, keyVars
    <3>5. ReadsInserted'
      BY <2>1, <3>4 DEF CreateTransfer, ReadsInserted, Begin, Proceed, Finish,
          DealsOK, ActiveKeys, KeysTypeInv, Inserted, KeysTypeOK, KeyRowsOK
    <3>6. HasTransfer'
      BY <2>1 DEF CreateTransfer, HasTransfer, Begin, Proceed, Finish, DealsOK,
          TransfersOK, Maybe, Phases
    <3> QED BY <3>1, <3>2, <3>3, <3>5, <3>6
  <2>2. ASSUME NEW u \in Users, ClaimAgent(d, u) PROVE TransferTypeInv'
    <3>1. KeysTypeInv'
      BY <2>2, KeysKept DEF ClaimAgent
    <3>2. TransfersOK'
      BY <2>2 DEF ClaimAgent, TransfersOK, agentVars, transferVars, trustVars,
          HasTransfer, DealsOK, Deals, Phases, Maybe
    <3>3. DealsOK'
      BY <2>2, BeginTyped, DealsTyped DEF ClaimAgent, Steps, Phases
    <3>4. count' = count
      BY <2>2 DEF ClaimAgent, keysVars, keyVars
    <3>5. ReadsInserted'
      BY <2>2, <3>4 DEF ClaimAgent, ReadsInserted, Begin, Proceed, Finish, DealsOK,
          ActiveKeys, KeysTypeInv, Inserted, KeysTypeOK, KeyRowsOK
    <3>6. HasTransfer'
      BY <2>2 DEF ClaimAgent, HasTransfer, Begin, Proceed, Finish, DealsOK,
          TransfersOK, Maybe, Phases
    <3> QED BY <3>1, <3>2, <3>3, <3>5, <3>6
  <2>3. ASSUME NEW t \in Transfers, NEW u \in Maybe(Users),
              UpdateTransfer(d, t, u)
       PROVE  TransferTypeInv'
    <3>1. KeysTypeInv'
      BY <2>3, KeysKept DEF UpdateTransfer
    <3>2. TransfersOK'
      BY <2>3 DEF UpdateTransfer, TransfersOK, agentVars, transferVars, trustVars,
          HasTransfer, DealsOK, Deals, Phases, Maybe
    <3>3. DealsOK'
      BY <2>3, BeginTyped, DealsTyped DEF UpdateTransfer, Steps, Phases
    <3>4. count' = count
      BY <2>3 DEF UpdateTransfer, keysVars, keyVars
    <3>5. ReadsInserted'
      BY <2>3, <3>4 DEF UpdateTransfer, ReadsInserted, Begin, Proceed, Finish,
          DealsOK, ActiveKeys, KeysTypeInv, Inserted, KeysTypeOK, KeyRowsOK
    <3>6. HasTransfer'
      BY <2>3 DEF UpdateTransfer, HasTransfer, Begin, Proceed, Finish, DealsOK,
          TransfersOK, Maybe, Phases
    <3> QED BY <3>1, <3>2, <3>3, <3>5, <3>6
  <2>4. ASSUME NEW t \in Transfers, NEW u \in Users,
              AcceptTransfer(d, t, u)
       PROVE  TransferTypeInv'
    <3>1. KeysTypeInv'
      BY <2>4, KeysKept DEF AcceptTransfer
    <3>2. TransfersOK'
      BY <2>4 DEF AcceptTransfer, TransfersOK, agentVars, transferVars, trustVars,
          HasTransfer, DealsOK, Deals, Phases, Maybe
    <3>3. DealsOK'
      BY <2>4, BeginTyped, DealsTyped DEF AcceptTransfer, Steps, Phases
    <3>4. count' = count
      BY <2>4 DEF AcceptTransfer, keysVars, keyVars
    <3>5. ReadsInserted'
      BY <2>4, <3>4 DEF AcceptTransfer, ReadsInserted, Begin, Proceed, Finish,
          DealsOK, ActiveKeys, KeysTypeInv, Inserted, KeysTypeOK, KeyRowsOK
    <3>6. HasTransfer'
      BY <2>4 DEF AcceptTransfer, HasTransfer, Begin, Proceed, Finish, DealsOK,
          TransfersOK, Maybe, Phases
    <3> QED BY <3>1, <3>2, <3>3, <3>5, <3>6
  <2>5. ASSUME NEW t \in Transfers, NEW to \in {"transfer_pending", "cancelled", "disputed"},
              ChangePhase(d, t, to)
       PROVE  TransferTypeInv'
    <3>1. KeysTypeInv'
      BY <2>5, KeysKept DEF ChangePhase
    <3>2. TransfersOK'
      BY <2>5 DEF ChangePhase, TransfersOK, agentVars, transferVars, trustVars,
          HasTransfer, DealsOK, Deals, Phases, Maybe
    <3>3. DealsOK'
      BY <2>5, BeginTyped, DealsTyped DEF ChangePhase, Steps, Phases
    <3>4. count' = count
      BY <2>5 DEF ChangePhase, keysVars, keyVars
    <3>5. ReadsInserted'
      BY <2>5, <3>4 DEF ChangePhase, ReadsInserted, Begin, Proceed, Finish, DealsOK,
          ActiveKeys, KeysTypeInv, Inserted, KeysTypeOK, KeyRowsOK
    <3>6. HasTransfer'
      BY <2>5, NextPhases DEF ChangePhase, HasTransfer, Begin, Proceed, Finish,
          DealsOK, TransfersOK, Maybe, Phases
    <3> QED BY <3>1, <3>2, <3>3, <3>5, <3>6
  <2>6. ASSUME NEW t \in Transfers, StartHandoff(d, t) PROVE TransferTypeInv'
    <3>1. KeysTypeInv'
      BY <2>6, KeysKept DEF StartHandoff
    <3>2. TransfersOK'
      BY <2>6 DEF StartHandoff, TransfersOK, agentVars, transferVars, trustVars,
          HasTransfer, DealsOK, Deals, Phases, Maybe
    <3>3. DealsOK'
      BY <2>6, BeginTyped, DealsTyped DEF StartHandoff, Steps, Phases
    <3>4. count' = count
      BY <2>6 DEF StartHandoff, keysVars, keyVars
    <3>5. ReadsInserted'
      BY <2>6, <3>4 DEF StartHandoff, ReadsInserted, Begin, Proceed, Finish, DealsOK,
          ActiveKeys, KeysTypeInv, Inserted, KeysTypeOK, KeyRowsOK
    <3>6. HasTransfer'
      BY <2>6 DEF StartHandoff, HasTransfer, Begin, Proceed, Finish, DealsOK,
          TransfersOK, Maybe, Phases
    <3> QED BY <3>1, <3>2, <3>3, <3>5, <3>6
  <2>7. ASSUME NEW t \in Transfers, CompleteHandoff(d, t) PROVE TransferTypeInv'
    <3>1. KeysTypeInv'
      BY <2>7, KeysKept DEF CompleteHandoff
    <3>2. TransfersOK'
      BY <2>7 DEF CompleteHandoff, TransfersOK, agentVars, transferVars, trustVars,
          HasTransfer, DealsOK, Deals, Phases, Maybe
    <3>3. DealsOK'
      <4>1. buyer[t] \in Users
        BY <2>7 DEF CompleteHandoff, TransfersOK, Maybe
      <4>2. [NoDeal EXCEPT !.t = t, !.user = buyer[t]] \in Deals
        BY <4>1, DealsTyped DEF Maybe
      <4> QED BY <2>7, <4>2, BeginTyped DEF CompleteHandoff, Steps
    <3>4. count' = count
      BY <2>7 DEF CompleteHandoff, keysVars, keyVars
    <3>5. ReadsInserted'
      BY <2>7, <3>4 DEF CompleteHandoff, ReadsInserted, Begin, Proceed, Finish,
          DealsOK, ActiveKeys, KeysTypeInv, Inserted, KeysTypeOK, KeyRowsOK
    <3>6. HasTransfer'
      BY <2>7 DEF CompleteHandoff, HasTransfer, Begin, Proceed, Finish, DealsOK,
          TransfersOK, Maybe, Phases
    <3> QED BY <3>1, <3>2, <3>3, <3>5, <3>6
  <2>8. CASE CreateInsertDraft(d)
    <3>1. KeysTypeInv'
      BY <2>8, KeysKept DEF CreateInsertDraft
    <3>2. TransfersOK'
      BY <2>8 DEF CreateInsertDraft, TransfersOK, agentVars, transferVars, trustVars,
          HasTransfer, DealsOK, Deals, Phases, Maybe
    <3>3. DealsOK'
      BY <2>8, FinishTyped DEF CreateInsertDraft, Steps, Phases
    <3>4. count' = count
      BY <2>8 DEF CreateInsertDraft, keysVars, keyVars
    <3>5. ReadsInserted'
      BY <2>8, <3>4 DEF CreateInsertDraft, ReadsInserted, Begin, Proceed, Finish,
          DealsOK, ActiveKeys, KeysTypeInv, Inserted, KeysTypeOK, KeyRowsOK
    <3>6. HasTransfer'
      BY <2>8 DEF CreateInsertDraft, HasTransfer, Begin, Proceed, Finish, DealsOK,
          TransfersOK, Maybe, Phases
    <3> QED BY <3>1, <3>2, <3>3, <3>5, <3>6
  <2>9. CASE UpdateWrite(d)
    <3>1. KeysTypeInv'
      BY <2>9, KeysKept DEF UpdateWrite
    <3>2. TransfersOK'
      BY <2>9 DEF UpdateWrite, TransfersOK, agentVars, transferVars, trustVars,
          HasTransfer, DealsOK, Deals, Phases, Maybe
    <3>3. DealsOK'
      BY <2>9, FinishTyped DEF UpdateWrite, Steps, Phases
    <3>4. count' = count
      BY <2>9 DEF UpdateWrite, keysVars, keyVars
    <3>5. ReadsInserted'
      BY <2>9, <3>4 DEF UpdateWrite, ReadsInserted, Begin, Proceed, Finish, DealsOK,
          ActiveKeys, KeysTypeInv, Inserted, KeysTypeOK, KeyRowsOK
    <3>6. HasTransfer'
      BY <2>9 DEF UpdateWrite, HasTransfer, Begin, Proceed, Finish, DealsOK,
          TransfersOK, Maybe, Phases
    <3> QED BY <3>1, <3>2, <3>3, <3>5, <3>6
  <2>10. CASE AcceptWrite(d)
    <3>1. KeysTypeInv'
      BY <2>10, KeysKept DEF AcceptWrite
    <3>2. TransfersOK'
      BY <2>10 DEF AcceptWrite, TransfersOK, agentVars, transferVars, trustVars,
          HasTransfer, DealsOK, Deals, Phases, Maybe
    <3>3. DealsOK'
      BY <2>10, FinishTyped DEF AcceptWrite, Steps, Phases
    <3>4. count' = count
      BY <2>10 DEF AcceptWrite, keysVars, keyVars
    <3>5. ReadsInserted'
      BY <2>10, <3>4 DEF AcceptWrite, ReadsInserted, Begin, Proceed, Finish, DealsOK,
          ActiveKeys, KeysTypeInv, Inserted, KeysTypeOK, KeyRowsOK
    <3>6. HasTransfer'
      BY <2>10 DEF AcceptWrite, HasTransfer, Begin, Proceed, Finish, DealsOK,
          TransfersOK, Maybe, Phases
    <3> QED BY <3>1, <3>2, <3>3, <3>5, <3>6
  <2>11. CASE ChangePhaseWrite(d)
    <3>1. KeysTypeInv'
      BY <2>11, KeysKept DEF ChangePhaseWrite
    <3>2. TransfersOK'
      BY <2>11 DEF ChangePhaseWrite, TransfersOK, agentVars, transferVars, trustVars,
          HasTransfer, DealsOK, Deals, Phases, Maybe
    <3>3. DealsOK'
      BY <2>11, FinishTyped DEF ChangePhaseWrite, Steps, Phases
    <3>4. count' = count
      BY <2>11 DEF ChangePhaseWrite, keysVars, keyVars
    <3>5. ReadsInserted'
      BY <2>11, <3>4 DEF ChangePhaseWrite, ReadsInserted, Begin, Proceed, Finish,
          DealsOK, ActiveKeys, KeysTypeInv, Inserted, KeysTypeOK, KeyRowsOK
    <3>6. HasTransfer'
      BY <2>11 DEF ChangePhaseWrite, HasTransfer, Begin, Proceed, Finish, DealsOK,
          TransfersOK, Maybe, Phases
    <3> QED BY <3>1, <3>2, <3>3, <3>5, <3>6
  <2>12. CASE StartAdvance(d)
    <3>1. KeysTypeInv'
      BY <2>12, KeysKept DEF StartAdvance
    <3>2. TransfersOK'
      BY <2>12 DEF StartAdvance, TransfersOK, agentVars, transferVars, trustVars,
          HasTransfer, DealsOK, Deals, Phases, Maybe
    <3>3. DealsOK'
      BY <2>12, ProceedTyped DEF StartAdvance, Steps, Phases
    <3>4. count' = count
      BY <2>12 DEF StartAdvance, keysVars, keyVars
    <3>5. ReadsInserted'
      BY <2>12, <3>4 DEF StartAdvance, ReadsInserted, Begin, Proceed, Finish, DealsOK,
          ActiveKeys, KeysTypeInv, Inserted, KeysTypeOK, KeyRowsOK
    <3>6. HasTransfer'
      BY <2>12 DEF StartAdvance, HasTransfer, Begin, Proceed, Finish, DealsOK,
          TransfersOK, Maybe, Phases
    <3> QED BY <3>1, <3>2, <3>3, <3>5, <3>6
  <2>13. CASE StartSnapshot(d)
    <3>1. KeysTypeInv'
      BY <2>13, KeysKept DEF StartSnapshot
    <3>2. TransfersOK'
      <4>1. deal[d].t \in Transfers
        BY <2>13 DEF StartSnapshot, Proceed, HasTransfer
      <4>2. snapshots' \subseteq Transfers
        BY <2>13, <4>1 DEF StartSnapshot, TransfersOK
      <4> QED BY <2>13, <4>2 DEF StartSnapshot, TransfersOK, agentVars, transferVars
    <3>3. DealsOK'
      BY <2>13, ProceedTyped DEF StartSnapshot, Steps, Phases
    <3>4. count' = count
      BY <2>13 DEF StartSnapshot, keysVars, keyVars
    <3>5. ReadsInserted'
      BY <2>13, <3>4 DEF StartSnapshot, ReadsInserted, Begin, Proceed, Finish,
          DealsOK, ActiveKeys, KeysTypeInv, Inserted, KeysTypeOK, KeyRowsOK
    <3>6. HasTransfer'
      BY <2>13 DEF StartSnapshot, HasTransfer, Begin, Proceed, Finish, DealsOK,
          TransfersOK, Maybe, Phases
    <3> QED BY <3>1, <3>2, <3>3, <3>5, <3>6
  <2>14. CASE StartWrite(d)
    <3>1. KeysTypeInv'
      BY <2>14, KeysKept DEF StartWrite
    <3>2. TransfersOK'
      BY <2>14 DEF StartWrite, TransfersOK, agentVars, transferVars, trustVars,
          HasTransfer, DealsOK, Deals, Phases, Maybe
    <3>3. DealsOK'
      BY <2>14, FinishTyped DEF StartWrite, Steps, Phases
    <3>4. count' = count
      BY <2>14 DEF StartWrite, keysVars, keyVars
    <3>5. ReadsInserted'
      BY <2>14, <3>4 DEF StartWrite, ReadsInserted, Begin, Proceed, Finish, DealsOK,
          ActiveKeys, KeysTypeInv, Inserted, KeysTypeOK, KeyRowsOK
    <3>6. HasTransfer'
      BY <2>14 DEF StartWrite, HasTransfer, Begin, Proceed, Finish, DealsOK,
          TransfersOK, Maybe, Phases
    <3> QED BY <3>1, <3>2, <3>3, <3>5, <3>6
  <2>15. CASE HandoffReadKeys(d)
    <3>1. KeysTypeInv'
      BY <2>15, KeysKept DEF HandoffReadKeys
    <3>2. TransfersOK'
      BY <2>15 DEF HandoffReadKeys, TransfersOK, agentVars, transferVars, trustVars,
          HasTransfer, DealsOK, Deals, Phases, Maybe
    <3>3. DealsOK'
      <4>1. [[deal[d] EXCEPT !.keys = ActiveKeys] EXCEPT !.newest = count] \in Deals
        <5>1. deal[d] \in Deals /\ ActiveKeys \in SUBSET Keys /\ count \in 0..MaxKeys
          BY DEF DealsOK, ActiveKeys, KeysTypeInv, KeysTypeOK, KeyRowsOK
        <5> QED BY <5>1, FieldsTyped
      <4>2. [deal[d] EXCEPT !.keys = ActiveKeys, !.newest = count] \in Deals
        BY <4>1, Zenon
      <4> QED BY <2>15, <4>2 DEF HandoffReadKeys, DealsOK, Steps
    <3>4. count' = count
      BY <2>15 DEF HandoffReadKeys, keysVars, keyVars
    <3>5. ReadsInserted'
      BY <2>15, <3>4 DEF HandoffReadKeys, ReadsInserted, Begin, Proceed, Finish,
          DealsOK, ActiveKeys, KeysTypeInv, Inserted, KeysTypeOK, KeyRowsOK
    <3>6. HasTransfer'
      BY <2>15 DEF HandoffReadKeys, HasTransfer, Begin, Proceed, Finish, DealsOK,
          TransfersOK, Maybe, Phases
    <3> QED BY <3>1, <3>2, <3>3, <3>5, <3>6
  <2>16. CASE HandoffCommit(d)
    <3>1. KeysTypeInv'
      <4>1. \A k \in deal[d].keys : status[k] # "none"
        BY <2>16 DEF HandoffCommit, Proceed, ReadsInserted, KeysTypeInv, Inserted,
            DealsOK, Deals
      <4>2. status' = [k \in Keys |-> IF k \in deal[d].keys THEN "revoked" ELSE status[k]]
        BY <2>16 DEF HandoffCommit
      <4>3. UNCHANGED <<count, purposeful, log, agent, stranded, nonceVars, requestVars>>
        BY <2>16 DEF HandoffCommit
      <4>4. KeyRowsOK' /\ Inserted'
        BY <4>1, <4>2, <4>3 DEF KeysTypeInv, KeysTypeOK, KeyRowsOK, Inserted
      <4>5. ChallengesOK' /\ RequestsOK' /\ Holds'
        BY <4>3 DEF KeysTypeInv, KeysTypeOK, ChallengesOK, RequestsOK, Holds,
            nonceVars, requestVars
      <4> QED BY <4>4, <4>5 DEF KeysTypeInv, KeysTypeOK
    <3>2. TransfersOK'
      <4>1. deal[d].t \in Transfers /\ deal[d].user \in Users
        BY <2>16 DEF HandoffCommit, Proceed, HasTransfer
      <4>2. deal[d].newest \in 0..MaxKeys
        BY DEF DealsOK, Deals
      <4>3. userId' \in Users /\ retired' \in 0..MaxKeys
        BY <2>16, <4>1, <4>2 DEF HandoffCommit, TransfersOK
      <4>4. phase' \in [Transfers -> Phases \union {"none"}] /\ completedAt' \subseteq Transfers
        BY <2>16, <4>1 DEF HandoffCommit, TransfersOK, Phases
      <4> QED BY <2>16, <4>3, <4>4 DEF HandoffCommit, TransfersOK, trustVars
    <3>3. DealsOK'
      BY <2>16, ProceedTyped DEF HandoffCommit, Steps, Phases
    <3>4. count' = count
      BY <2>16 DEF HandoffCommit
    <3>5. ReadsInserted'
      BY <2>16, <3>4 DEF HandoffCommit, ReadsInserted, Begin, Proceed, Finish,
          DealsOK, ActiveKeys, KeysTypeInv, Inserted, KeysTypeOK, KeyRowsOK
    <3>6. HasTransfer'
      BY <2>16 DEF HandoffCommit, HasTransfer, Begin, Proceed, Finish, DealsOK,
          TransfersOK, Maybe, Phases
    <3> QED BY <3>1, <3>2, <3>3, <3>5, <3>6
  <2>17. CASE Recalibrate(d)
    <3>1. KeysTypeInv'
      BY <2>17, KeysKept DEF Recalibrate
    <3>2. TransfersOK'
      BY <2>17 DEF Recalibrate, TransfersOK, agentVars, transferVars, trustVars,
          HasTransfer, DealsOK, Deals, Phases, Maybe
    <3>3. DealsOK'
      BY <2>17, FinishTyped DEF Recalibrate, Steps, Phases
    <3>4. count' = count
      BY <2>17 DEF Recalibrate, keysVars, keyVars
    <3>5. ReadsInserted'
      BY <2>17, <3>4 DEF Recalibrate, ReadsInserted, Begin, Proceed, Finish, DealsOK,
          ActiveKeys, KeysTypeInv, Inserted, KeysTypeOK, KeyRowsOK
    <3>6. HasTransfer'
      BY <2>17 DEF Recalibrate, HasTransfer, Begin, Proceed, Finish, DealsOK,
          TransfersOK, Maybe, Phases
    <3> QED BY <3>1, <3>2, <3>3, <3>5, <3>6
  <2>18. CASE ClaimWrite(d)
    <3>1. KeysTypeInv'
      BY <2>18, KeysKept DEF ClaimWrite
    <3>2. TransfersOK'
      BY <2>18 DEF ClaimWrite, TransfersOK, agentVars, transferVars, trustVars,
          HasTransfer, DealsOK, Deals, Phases, Maybe
    <3>3. DealsOK'
      BY <2>18, FinishTyped DEF ClaimWrite, Steps, Phases
    <3>4. count' = count
      BY <2>18 DEF ClaimWrite, keysVars, keyVars
    <3>5. ReadsInserted'
      BY <2>18, <3>4 DEF ClaimWrite, ReadsInserted, Begin, Proceed, Finish, DealsOK,
          ActiveKeys, KeysTypeInv, Inserted, KeysTypeOK, KeyRowsOK
    <3>6. HasTransfer'
      BY <2>18 DEF ClaimWrite, HasTransfer, Begin, Proceed, Finish, DealsOK,
          TransfersOK, Maybe, Phases
    <3> QED BY <3>1, <3>2, <3>3, <3>5, <3>6
  <2>19. CASE Drop(d)
    <3>1. KeysTypeInv'
      BY <2>19, KeysKept DEF Drop
    <3>2. TransfersOK'
      BY <2>19 DEF Drop, TransfersOK, agentVars, transferVars, trustVars, HasTransfer,
          DealsOK, Deals, Phases, Maybe
    <3>3. DealsOK'
      BY <2>19, FinishTyped DEF Drop, Steps, Phases
    <3>4. count' = count
      BY <2>19 DEF Drop, keysVars, keyVars
    <3>5. ReadsInserted'
      BY <2>19, <3>4 DEF Drop, ReadsInserted, Begin, Proceed, Finish, DealsOK,
          ActiveKeys, KeysTypeInv, Inserted, KeysTypeOK, KeyRowsOK
    <3>6. HasTransfer'
      BY <2>19 DEF Drop, HasTransfer, Begin, Proceed, Finish, DealsOK, TransfersOK,
          Maybe, Phases
    <3> QED BY <3>1, <3>2, <3>3, <3>5, <3>6
  <2> QED BY <1>1, <2>1, <2>2, <2>3, <2>4, <2>5, <2>6, <2>7, <2>8, <2>9, <2>10, <2>11,
             <2>12, <2>13, <2>14, <2>15, <2>16, <2>17, <2>18, <2>19 DEF DealNext
<1>2. ASSUME NEW u \in Users, ClaimByToken(u) PROVE TransferTypeInv'
  <2>1. KeysTypeInv' /\ count' = count
    BY <1>2, KeysKept DEF ClaimByToken
  <2>2. TransfersOK' /\ DealsOK' /\ HasTransfer' /\ ReadsInserted'
    BY <1>2, <2>1 DEF ClaimByToken, TransfersOK, DealsOK, HasTransfer, ReadsInserted,
        transferVars, trustVars, dealVars, Maybe
  <2> QED BY <2>1, <2>2
<1>3. CASE KeysStep
  <2>1. KeysTypeInv' /\ KeysGrow
    BY <1>3, KeysTypeStep, KeysOnward DEF KeysStep
  <2>2. TransfersOK' /\ DealsOK' /\ HasTransfer'
    BY <1>3 DEF KeysStep, TransfersOK, DealsOK, HasTransfer, agentVars, transferVars,
        trustVars, dealVars
  <2>3. count' >= count /\ count \in Nat /\ count' \in Nat
    BY <2>1 DEF KeysGrow, KeysTypeInv, KeysTypeOK, KeyRowsOK
  <2>4. \A d \in Dealers : /\ step'[d] = step[d] /\ deal'[d] = deal[d] /\ deal[d].newest \in Nat
                           /\ deal[d].keys \subseteq Nat
    BY <1>3 DEF KeysStep, dealVars, DealsOK, Deals, Keys
  <2>5. ReadsInserted'
    BY <2>3, <2>4 DEF ReadsInserted
  <2> QED BY <2>1, <2>2, <2>5
<1>4. CASE UNCHANGED vars
  BY <1>4, KeysKept DEF vars, keysVars, keyVars, nonceVars, requestVars, agentVars,
      transferVars, trustVars,
              dealVars, TransfersOK, DealsOK, ReadsInserted, HasTransfer
<1> QED BY <1>1, <1>2, <1>3, <1>4 DEF Next

LEMMA TransferTypeInit == Init => TransferTypeInv
<1> SUFFICES ASSUME Init PROVE TransferTypeInv
  OBVIOUS
<1>1. KeysTypeInv
  BY KeysTypeInit DEF Init
<1>2. TransfersOK
  BY TransferAssumption, KeysAssumption DEF Init, TransfersOK, Maybe
<1>3. DealsOK
  BY NoDealTyped DEF Init, DealsOK, Steps
<1>4. ReadsInserted /\ HasTransfer
  BY DEF Init, ReadsInserted, HasTransfer
<1> QED BY <1>1, <1>2, <1>3, <1>4 DEF TransferTypeInv

\* The agent, its keys and its transfers keep their types.
THEOREM TransfersTyped == Spec => []TypeOK
<1>1. Spec => []TransferTypeInv
  BY TransferTypeInit, TransferTypeStep, PTL DEF Spec
<1>2. TransferTypeInv => TypeOK
  BY DEF TransferTypeInv, TypeOK, KeysTypeInv
<1> QED BY <1>1, <1>2, PTL

-----------------------------------------------------------------------------
(* The keys a handoff retires *)

\* A handoff about to commit read every active key of those that existed then: keys that
\* are inserted later have larger numbers, and none becomes active again.
RetireInv ==
  /\ retired <= count
  /\ HandoffRetiresKeys
  /\ \A d \in Dealers : step[d] = "commit" =>
       \A k \in ActiveKeys : k <= deal[d].newest => k \in deal[d].keys

LEMMA RetireInit == Init => RetireInv
  BY DEF Init, KeysInit, RetireInv, HandoffRetiresKeys, ActiveKeys, Keys

\* A request that leaves the keys and what it read as they were keeps it.
LEMMA RetireKept ==
  ASSUME RetireInv, NEW d \in Dealers, DealsOK,
         UNCHANGED <<count, retired>>, ActiveKeys' = ActiveKeys,
         \A e \in Dealers \ {d} : step'[e] = step[e] /\ deal'[e] = deal[e],
         step'[d] # "commit"
  PROVE  RetireInv'
  BY DEF RetireInv, HandoffRetiresKeys

LEMMA RetireStep == TransferTypeInv /\ RetireInv /\ [Next]_vars => RetireInv'
<1> SUFFICES ASSUME TransferTypeInv /\ RetireInv, [Next]_vars PROVE RetireInv'
  OBVIOUS
<1> USE KeysAssumption, TransferAssumption DEF TransferTypeInv
<1>1. ASSUME NEW d \in Dealers, DealNext(d) PROVE RetireInv'
  <2>1. ASSUME NEW u \in Users, CreateTransfer(d, u) PROVE RetireInv'
    <3>1. UNCHANGED <<count, retired>> /\ ActiveKeys' = ActiveKeys
      BY <2>1, KeysKept DEF CreateTransfer
    <3>2. /\ \A e \in Dealers \ {d} : step'[e] = step[e] /\ deal'[e] = deal[e]
          /\ step'[d] # "commit"
      BY <2>1 DEF CreateTransfer, Begin, DealsOK
    <3> QED BY <3>1, <3>2, RetireKept
  <2>2. ASSUME NEW u \in Users, ClaimAgent(d, u) PROVE RetireInv'
    <3>1. UNCHANGED <<count, retired>> /\ ActiveKeys' = ActiveKeys
      BY <2>2, KeysKept DEF ClaimAgent
    <3>2. /\ \A e \in Dealers \ {d} : step'[e] = step[e] /\ deal'[e] = deal[e]
          /\ step'[d] # "commit"
      BY <2>2 DEF ClaimAgent, Begin, DealsOK
    <3> QED BY <3>1, <3>2, RetireKept
  <2>3. ASSUME NEW t \in Transfers, NEW u \in Maybe(Users),
              UpdateTransfer(d, t, u)
       PROVE  RetireInv'
    <3>1. UNCHANGED <<count, retired>> /\ ActiveKeys' = ActiveKeys
      BY <2>3, KeysKept DEF UpdateTransfer
    <3>2. /\ \A e \in Dealers \ {d} : step'[e] = step[e] /\ deal'[e] = deal[e]
          /\ step'[d] # "commit"
      BY <2>3 DEF UpdateTransfer, Begin, DealsOK
    <3> QED BY <3>1, <3>2, RetireKept
  <2>4. ASSUME NEW t \in Transfers, NEW u \in Users, AcceptTransfer(d, t, u) PROVE RetireInv'
    <3>1. UNCHANGED <<count, retired>> /\ ActiveKeys' = ActiveKeys
      BY <2>4, KeysKept DEF AcceptTransfer
    <3>2. /\ \A e \in Dealers \ {d} : step'[e] = step[e] /\ deal'[e] = deal[e]
          /\ step'[d] # "commit"
      BY <2>4 DEF AcceptTransfer, Begin, DealsOK
    <3> QED BY <3>1, <3>2, RetireKept
  <2>5. ASSUME NEW t \in Transfers, NEW to \in {"transfer_pending", "cancelled", "disputed"},
              ChangePhase(d, t, to)
       PROVE  RetireInv'
    <3>1. UNCHANGED <<count, retired>> /\ ActiveKeys' = ActiveKeys
      BY <2>5, KeysKept DEF ChangePhase
    <3>2. /\ \A e \in Dealers \ {d} : step'[e] = step[e] /\ deal'[e] = deal[e]
          /\ step'[d] # "commit"
      BY <2>5 DEF ChangePhase, Begin, DealsOK
    <3> QED BY <3>1, <3>2, RetireKept
  <2>6. ASSUME NEW t \in Transfers, StartHandoff(d, t) PROVE RetireInv'
    <3>1. UNCHANGED <<count, retired>> /\ ActiveKeys' = ActiveKeys
      BY <2>6, KeysKept DEF StartHandoff
    <3>2. /\ \A e \in Dealers \ {d} : step'[e] = step[e] /\ deal'[e] = deal[e]
          /\ step'[d] # "commit"
      BY <2>6 DEF StartHandoff, Begin, DealsOK
    <3> QED BY <3>1, <3>2, RetireKept
  <2>7. ASSUME NEW t \in Transfers, CompleteHandoff(d, t) PROVE RetireInv'
    <3>1. UNCHANGED <<count, retired>> /\ ActiveKeys' = ActiveKeys
      BY <2>7, KeysKept DEF CompleteHandoff
    <3>2. /\ \A e \in Dealers \ {d} : step'[e] = step[e] /\ deal'[e] = deal[e]
          /\ step'[d] # "commit"
      BY <2>7 DEF CompleteHandoff, Begin, DealsOK
    <3> QED BY <3>1, <3>2, RetireKept
  <2>8. CASE CreateInsertDraft(d)
    <3>1. UNCHANGED <<count, retired>> /\ ActiveKeys' = ActiveKeys
      BY <2>8, KeysKept DEF CreateInsertDraft
    <3>2. /\ \A e \in Dealers \ {d} : step'[e] = step[e] /\ deal'[e] = deal[e]
          /\ step'[d] # "commit"
      BY <2>8 DEF CreateInsertDraft, Finish, DealsOK
    <3> QED BY <3>1, <3>2, RetireKept
  <2>9. CASE UpdateWrite(d)
    <3>1. UNCHANGED <<count, retired>> /\ ActiveKeys' = ActiveKeys
      BY <2>9, KeysKept DEF UpdateWrite
    <3>2. /\ \A e \in Dealers \ {d} : step'[e] = step[e] /\ deal'[e] = deal[e]
          /\ step'[d] # "commit"
      BY <2>9 DEF UpdateWrite, Finish, DealsOK
    <3> QED BY <3>1, <3>2, RetireKept
  <2>10. CASE AcceptWrite(d)
    <3>1. UNCHANGED <<count, retired>> /\ ActiveKeys' = ActiveKeys
      BY <2>10, KeysKept DEF AcceptWrite
    <3>2. /\ \A e \in Dealers \ {d} : step'[e] = step[e] /\ deal'[e] = deal[e]
          /\ step'[d] # "commit"
      BY <2>10 DEF AcceptWrite, Finish, DealsOK
    <3> QED BY <3>1, <3>2, RetireKept
  <2>11. CASE ChangePhaseWrite(d)
    <3>1. UNCHANGED <<count, retired>> /\ ActiveKeys' = ActiveKeys
      BY <2>11, KeysKept DEF ChangePhaseWrite
    <3>2. /\ \A e \in Dealers \ {d} : step'[e] = step[e] /\ deal'[e] = deal[e]
          /\ step'[d] # "commit"
      BY <2>11 DEF ChangePhaseWrite, Finish, DealsOK
    <3> QED BY <3>1, <3>2, RetireKept
  <2>12. CASE StartAdvance(d)
    <3>1. UNCHANGED <<count, retired>> /\ ActiveKeys' = ActiveKeys
      BY <2>12, KeysKept DEF StartAdvance
    <3>2. /\ \A e \in Dealers \ {d} : step'[e] = step[e] /\ deal'[e] = deal[e]
          /\ step'[d] # "commit"
      BY <2>12 DEF StartAdvance, Proceed, DealsOK
    <3> QED BY <3>1, <3>2, RetireKept
  <2>13. CASE StartSnapshot(d)
    <3>1. UNCHANGED <<count, retired>> /\ ActiveKeys' = ActiveKeys
      BY <2>13, KeysKept DEF StartSnapshot
    <3>2. /\ \A e \in Dealers \ {d} : step'[e] = step[e] /\ deal'[e] = deal[e]
          /\ step'[d] # "commit"
      BY <2>13 DEF StartSnapshot, Proceed, DealsOK
    <3> QED BY <3>1, <3>2, RetireKept
  <2>14. CASE StartWrite(d)
    <3>1. UNCHANGED <<count, retired>> /\ ActiveKeys' = ActiveKeys
      BY <2>14, KeysKept DEF StartWrite
    <3>2. /\ \A e \in Dealers \ {d} : step'[e] = step[e] /\ deal'[e] = deal[e]
          /\ step'[d] # "commit"
      BY <2>14 DEF StartWrite, Finish, DealsOK
    <3> QED BY <3>1, <3>2, RetireKept
  <2>15. CASE HandoffReadKeys(d)
    <3>1. UNCHANGED <<count, retired>> /\ ActiveKeys' = ActiveKeys
      BY <2>15, KeysKept DEF HandoffReadKeys
    <3>2. deal'[d].keys = ActiveKeys
      BY <2>15 DEF HandoffReadKeys, DealsOK, Deals
    <3>3. \A e \in Dealers \ {d} : step'[e] = step[e] /\ deal'[e] = deal[e]
      BY <2>15 DEF HandoffReadKeys, DealsOK
    <3> QED BY <3>1, <3>2, <3>3 DEF RetireInv, HandoffRetiresKeys
  <2>16. CASE HandoffCommit(d)
    <3>1. /\ step[d] = "commit" /\ deal' = deal /\ count' = count
          /\ \A e \in Dealers : step'[e] = "commit" => step[e] = "commit"
      BY <2>16 DEF HandoffCommit, Proceed, DealsOK
    <3>2. \A k \in ActiveKeys' : k \in ActiveKeys /\ k \notin deal[d].keys
      BY <2>16 DEF HandoffCommit, ActiveKeys
    <3>3. /\ deal[d].newest \in Nat /\ deal[d].newest <= count /\ count \in Nat
          /\ retired \in Nat /\ ActiveKeys \subseteq Nat
      BY <3>1 DEF ReadsInserted, DealsOK, Deals, KeysTypeInv, KeysTypeOK, KeyRowsOK,
          TransfersOK,
                  ActiveKeys, Keys
    <3>4. retired' = IF deal[d].newest > retired THEN deal[d].newest ELSE retired
      BY <2>16 DEF HandoffCommit
    <3>5. retired' <= count'
      BY <3>1, <3>3, <3>4 DEF RetireInv
    <3>6. ASSUME NEW k \in ActiveKeys' PROVE k > retired'
      <4>1. k > retired
        BY <3>2 DEF RetireInv, HandoffRetiresKeys
      <4>2. ~(k <= deal[d].newest)
        BY <3>1, <3>2 DEF RetireInv
      <4>3. k \in Nat /\ deal[d].newest \in Nat
        BY <3>2, <3>3
      <4>4. CASE deal[d].newest > retired
        BY <3>4, <4>2, <4>3, <4>4
      <4>5. CASE ~(deal[d].newest > retired)
        BY <3>4, <4>1, <4>5
      <4> QED BY <4>4, <4>5
    <3> QED BY <3>1, <3>2, <3>5, <3>6 DEF RetireInv, HandoffRetiresKeys
  <2>17. CASE Recalibrate(d)
    <3>1. UNCHANGED <<count, retired>> /\ ActiveKeys' = ActiveKeys
      BY <2>17, KeysKept DEF Recalibrate
    <3>2. /\ \A e \in Dealers \ {d} : step'[e] = step[e] /\ deal'[e] = deal[e]
          /\ step'[d] # "commit"
      BY <2>17 DEF Recalibrate, Finish, DealsOK
    <3> QED BY <3>1, <3>2, RetireKept
  <2>18. CASE ClaimWrite(d)
    <3>1. UNCHANGED <<count, retired>> /\ ActiveKeys' = ActiveKeys
      BY <2>18, KeysKept DEF ClaimWrite
    <3>2. /\ \A e \in Dealers \ {d} : step'[e] = step[e] /\ deal'[e] = deal[e]
          /\ step'[d] # "commit"
      BY <2>18 DEF ClaimWrite, Finish, DealsOK
    <3> QED BY <3>1, <3>2, RetireKept
  <2>19. CASE Drop(d)
    <3>1. UNCHANGED <<count, retired>> /\ ActiveKeys' = ActiveKeys
      BY <2>19, KeysKept DEF Drop
    <3>2. /\ \A e \in Dealers \ {d} : step'[e] = step[e] /\ deal'[e] = deal[e]
          /\ step'[d] # "commit"
      BY <2>19 DEF Drop, Finish, DealsOK
    <3> QED BY <3>1, <3>2, RetireKept
  <2> QED BY <1>1, <2>1, <2>2, <2>3, <2>4, <2>5, <2>6, <2>7, <2>8, <2>9, <2>10, <2>11,
             <2>12, <2>13, <2>14, <2>15, <2>16, <2>17, <2>18, <2>19 DEF DealNext
<1>2. ASSUME NEW u \in Users, ClaimByToken(u) PROVE RetireInv'
  BY <1>2, KeysKept DEF ClaimByToken, dealVars, RetireInv, HandoffRetiresKeys
<1>3. CASE KeysStep
  <2>1. /\ count' >= count /\ \A k \in ActiveKeys' : k \in ActiveKeys \/ k > count
    BY <1>3, KeysOnward DEF KeysStep, KeysGrow
  <2>2. /\ count \in Nat /\ retired \in Nat /\ ActiveKeys \subseteq Nat /\ count' \in Nat
        /\ ActiveKeys' \subseteq Nat
    <3>1. KeysTypeInv'
      BY <1>3, KeysTypeStep DEF KeysStep
    <3>2. count \in Nat /\ count' \in Nat /\ retired \in Nat
      BY <3>1 DEF KeysTypeInv, KeysTypeOK, KeyRowsOK, TransfersOK
    <3>3. ActiveKeys \subseteq Keys /\ ActiveKeys' \subseteq Keys
      BY DEF ActiveKeys
    <3> QED BY <3>2, <3>3 DEF Keys
  <2>3. UNCHANGED <<retired, step, deal>>
    BY <1>3 DEF KeysStep, dealVars
  <2>4. retired' <= count'
    BY <2>1, <2>2, <2>3 DEF RetireInv
  <2>5. HandoffRetiresKeys'
    BY <2>1, <2>2, <2>3 DEF RetireInv, HandoffRetiresKeys
  <2>6. ASSUME NEW d \in Dealers, step'[d] = "commit", NEW k \in ActiveKeys',
               k <= deal'[d].newest
        PROVE  k \in deal'[d].keys
    <3>1. step[d] = "commit" /\ deal[d].newest \in Nat /\ deal[d].newest <= count
      BY <2>3, <2>6 DEF ReadsInserted, DealsOK, Deals
    <3>2. k \in ActiveKeys
      BY <2>1, <2>2, <2>3, <2>6, <3>1
    <3> QED BY <2>3, <2>6, <3>1, <3>2 DEF RetireInv
  <2> QED BY <2>4, <2>5, <2>6 DEF RetireInv
<1>4. CASE UNCHANGED vars
  BY <1>4, KeysKept DEF vars, keysVars, keyVars, nonceVars, requestVars, agentVars,
      transferVars, trustVars,
              dealVars, RetireInv, HandoffRetiresKeys
<1> QED BY <1>1, <1>2, <1>3, <1>4 DEF Next

\* Whatever the owner's requests on the keys do beside a handoff, once it committed no key
\* that existed when it read the keys is active.
THEOREM HandoffsRetireKeys == Spec => []HandoffRetiresKeys
<1>1. Spec => [](TransferTypeInv /\ RetireInv)
  BY TransferTypeInit, TransferTypeStep, RetireInit, RetireStep, PTL DEF Spec
<1>2. RetireInv => HandoffRetiresKeys
  BY DEF RetireInv
<1> QED BY <1>1, <1>2, PTL

-----------------------------------------------------------------------------
(* The papers of a transfer, and its stages *)

\* The marks of an accepted transfer are in order, and who is its buyer is one of its
\* parties.
MarksOK ==
  /\ snapshots \subseteq acceptedAt /\ completedAt \subseteq snapshots
  /\ \A t \in acceptedAt : phase[t] # "none" /\ buyer[t] \in parties[t]
  /\ \A t \in Transfers :
       /\ phase[t] \notin {"none", "draft", "cancelled"} => t \in acceptedAt
       /\ phase[t] = "in_handoff" => t \in snapshots

\* What a request checked before its blind write still holds of the marks, though perhaps
\* no more of the status.
ChecksHold ==
  \A d \in Dealers :
    LET t == deal[d].t
    IN /\ step[d] \notin {"idle", "insert", "claim"} => phase[t] # "none"
       /\ step[d] = "write" =>
            \/ deal[d].to \in {"pending_acceptance", "cancelled"}
            \/ deal[d].to \in {"transfer_pending", "disputed"} /\ t \in acceptedAt
       /\ step[d] \in {"advance", "snapshot"} => t \in acceptedAt
       /\ step[d] \in {"start", "read_keys", "commit", "recalibrate"} => t \in snapshots
       /\ step[d] \in {"read_keys", "commit"} => deal[d].user \in parties[t]

PaperInv == MarksOK /\ ChecksHold

LEMMA PaperInit == Init => PaperInv
  BY DEF Init, PaperInv, MarksOK, ChecksHold

LEMMA PaperStep == TransferTypeInv /\ PaperInv /\ [Next]_vars => PaperInv'
<1> SUFFICES ASSUME TransferTypeInv /\ PaperInv, [Next]_vars PROVE PaperInv'
  OBVIOUS
<1> USE TransferAssumption DEF TransferTypeInv
<1>1. ASSUME NEW d \in Dealers, DealNext(d) PROVE PaperInv'
  <2>1. ASSUME NEW u \in Users, CreateTransfer(d, u) PROVE PaperInv'
    <3>1. MarksOK'
      BY <2>1 DEF CreateTransfer, Begin, agentVars, transferVars, trustVars, PaperInv,
          MarksOK, ChecksHold, HasTransfer, DealsOK, Deals, TransfersOK, NoDeal
    <3>2. ChecksHold'
      BY <2>1 DEF CreateTransfer, Begin, agentVars, transferVars, trustVars, PaperInv,
          MarksOK, ChecksHold, HasTransfer, DealsOK, Deals, TransfersOK, NoDeal
    <3> QED BY <3>1, <3>2 DEF PaperInv
  <2>2. ASSUME NEW u \in Users, ClaimAgent(d, u) PROVE PaperInv'
    <3>1. MarksOK'
      BY <2>2 DEF ClaimAgent, Begin, agentVars, transferVars, trustVars, PaperInv,
          MarksOK, ChecksHold, HasTransfer, DealsOK, Deals, TransfersOK, NoDeal
    <3>2. ChecksHold'
      BY <2>2 DEF ClaimAgent, Begin, agentVars, transferVars, trustVars, PaperInv,
          MarksOK, ChecksHold, HasTransfer, DealsOK, Deals, TransfersOK, NoDeal
    <3> QED BY <3>1, <3>2 DEF PaperInv
  <2>3. ASSUME NEW t \in Transfers, NEW u \in Maybe(Users),
              UpdateTransfer(d, t, u)
       PROVE  PaperInv'
    <3>1. MarksOK'
      BY <2>3 DEF UpdateTransfer, Begin, agentVars, transferVars, trustVars, PaperInv,
          MarksOK, ChecksHold, HasTransfer, DealsOK, Deals, TransfersOK, NoDeal
    <3>2. ChecksHold'
      BY <2>3 DEF UpdateTransfer, Begin, agentVars, transferVars, trustVars, PaperInv,
          MarksOK, ChecksHold, HasTransfer, DealsOK, Deals, TransfersOK, NoDeal
    <3> QED BY <3>1, <3>2 DEF PaperInv
  <2>4. ASSUME NEW t \in Transfers, NEW u \in Users, AcceptTransfer(d, t, u) PROVE PaperInv'
    <3>1. MarksOK'
      BY <2>4 DEF AcceptTransfer, Begin, agentVars, transferVars, trustVars, PaperInv,
          MarksOK, ChecksHold, HasTransfer, DealsOK, Deals, TransfersOK, NoDeal
    <3>2. ChecksHold'
      BY <2>4 DEF AcceptTransfer, Begin, agentVars, transferVars, trustVars, PaperInv,
          MarksOK, ChecksHold, HasTransfer, DealsOK, Deals, TransfersOK, NoDeal
    <3> QED BY <3>1, <3>2 DEF PaperInv
  <2>5. ASSUME NEW t \in Transfers, NEW to \in {"transfer_pending", "cancelled", "disputed"},
              ChangePhase(d, t, to)
       PROVE  PaperInv'
    <3>1. MarksOK'
      BY <2>5 DEF ChangePhase, Begin, agentVars, transferVars, trustVars, PaperInv,
          MarksOK, ChecksHold, HasTransfer, DealsOK, Deals, TransfersOK, NoDeal,
          VALID_TRANSITIONS, Phases
    <3>2. ChecksHold'
      BY <2>5 DEF ChangePhase, Begin, agentVars, transferVars, trustVars, PaperInv,
          MarksOK, ChecksHold, HasTransfer, DealsOK, Deals, TransfersOK, NoDeal,
          VALID_TRANSITIONS, Phases
    <3> QED BY <3>1, <3>2 DEF PaperInv
  <2>6. ASSUME NEW t \in Transfers, StartHandoff(d, t) PROVE PaperInv'
    <3>1. MarksOK'
      BY <2>6 DEF StartHandoff, Begin, agentVars, transferVars, trustVars, PaperInv,
          MarksOK, ChecksHold, HasTransfer, DealsOK, Deals, TransfersOK, NoDeal
    <3>2. ChecksHold'
      BY <2>6 DEF StartHandoff, Begin, agentVars, transferVars, trustVars, PaperInv,
          MarksOK, ChecksHold, HasTransfer, DealsOK, Deals, TransfersOK, NoDeal
    <3> QED BY <3>1, <3>2 DEF PaperInv
  <2>7. ASSUME NEW t \in Transfers, CompleteHandoff(d, t) PROVE PaperInv'
    <3>1. MarksOK'
      BY <2>7 DEF CompleteHandoff, Begin, agentVars, transferVars, trustVars,
          PaperInv, MarksOK, ChecksHold, HasTransfer, DealsOK, Deals, TransfersOK,
          NoDeal
    <3>2. ChecksHold'
      BY <2>7 DEF CompleteHandoff, Begin, agentVars, transferVars, trustVars,
          PaperInv, MarksOK, ChecksHold, HasTransfer, DealsOK, Deals, TransfersOK,
          NoDeal
    <3> QED BY <3>1, <3>2 DEF PaperInv
  <2>8. CASE CreateInsertDraft(d)
    <3>1. MarksOK'
      BY <2>8 DEF CreateInsertDraft, Finish, agentVars, transferVars, trustVars,
          PaperInv, MarksOK, ChecksHold, HasTransfer, DealsOK, Deals, TransfersOK,
          NoDeal
    <3>2. ChecksHold'
      BY <2>8 DEF CreateInsertDraft, Finish, agentVars, transferVars, trustVars,
          PaperInv, MarksOK, ChecksHold, HasTransfer, DealsOK, Deals, TransfersOK,
          NoDeal
    <3> QED BY <3>1, <3>2 DEF PaperInv
  <2>9. CASE UpdateWrite(d)
    <3>1. MarksOK'
      BY <2>9 DEF UpdateWrite, Finish, agentVars, transferVars, trustVars, PaperInv,
          MarksOK, ChecksHold, HasTransfer, DealsOK, Deals, TransfersOK, NoDeal
    <3>2. ChecksHold'
      BY <2>9 DEF UpdateWrite, Finish, agentVars, transferVars, trustVars, PaperInv,
          MarksOK, ChecksHold, HasTransfer, DealsOK, Deals, TransfersOK, NoDeal
    <3> QED BY <3>1, <3>2 DEF PaperInv
  <2>10. CASE AcceptWrite(d)
    <3>1. MarksOK'
      BY <2>10 DEF AcceptWrite, Finish, agentVars, transferVars, trustVars, PaperInv,
          MarksOK, ChecksHold, HasTransfer, DealsOK, Deals, TransfersOK, NoDeal
    <3>2. ChecksHold'
      BY <2>10 DEF AcceptWrite, Finish, agentVars, transferVars, trustVars, PaperInv,
          MarksOK, ChecksHold, HasTransfer, DealsOK, Deals, TransfersOK, NoDeal
    <3> QED BY <3>1, <3>2 DEF PaperInv
  <2>11. CASE ChangePhaseWrite(d)
    <3>1. MarksOK'
      BY <2>11 DEF ChangePhaseWrite, Finish, agentVars, transferVars, trustVars,
          PaperInv, MarksOK, ChecksHold, HasTransfer, DealsOK, Deals, TransfersOK,
          NoDeal
    <3>2. ChecksHold'
      BY <2>11 DEF ChangePhaseWrite, Finish, agentVars, transferVars, trustVars,
          PaperInv, MarksOK, ChecksHold, HasTransfer, DealsOK, Deals, TransfersOK,
          NoDeal
    <3> QED BY <3>1, <3>2 DEF PaperInv
  <2>12. CASE StartAdvance(d)
    <3>1. MarksOK'
      BY <2>12 DEF StartAdvance, Proceed, agentVars, transferVars, trustVars,
          PaperInv, MarksOK, ChecksHold, HasTransfer, DealsOK, Deals, TransfersOK,
          NoDeal
    <3>2. ChecksHold'
      BY <2>12 DEF StartAdvance, Proceed, agentVars, transferVars, trustVars,
          PaperInv, MarksOK, ChecksHold, HasTransfer, DealsOK, Deals, TransfersOK,
          NoDeal
    <3> QED BY <3>1, <3>2 DEF PaperInv
  <2>13. CASE StartSnapshot(d)
    <3>1. MarksOK'
      BY <2>13 DEF StartSnapshot, Proceed, agentVars, transferVars, trustVars,
          PaperInv, MarksOK, ChecksHold, HasTransfer, DealsOK, Deals, TransfersOK,
          NoDeal
    <3>2. ChecksHold'
      BY <2>13 DEF StartSnapshot, Proceed, agentVars, transferVars, trustVars,
          PaperInv, MarksOK, ChecksHold, HasTransfer, DealsOK, Deals, TransfersOK,
          NoDeal
    <3> QED BY <3>1, <3>2 DEF PaperInv
  <2>14. CASE StartWrite(d)
    <3>1. MarksOK'
      BY <2>14 DEF StartWrite, Finish, agentVars, transferVars, trustVars, PaperInv,
          MarksOK, ChecksHold, HasTransfer, DealsOK, Deals, TransfersOK, NoDeal
    <3>2. ChecksHold'
      BY <2>14 DEF StartWrite, Finish, agentVars, transferVars, trustVars, PaperInv,
          MarksOK, ChecksHold, HasTransfer, DealsOK, Deals, TransfersOK, NoDeal
    <3> QED BY <3>1, <3>2 DEF PaperInv
  <2>15. CASE HandoffReadKeys(d)
    <3>1. MarksOK'
      BY <2>15 DEF HandoffReadKeys, Phases, agentVars, transferVars, trustVars,
          PaperInv, MarksOK, ChecksHold, HasTransfer, DealsOK, Deals, TransfersOK,
          NoDeal
    <3>2. ChecksHold'
      BY <2>15 DEF HandoffReadKeys, Phases, agentVars, transferVars, trustVars,
          PaperInv, MarksOK, ChecksHold, HasTransfer, DealsOK, Deals, TransfersOK,
          NoDeal
    <3> QED BY <3>1, <3>2 DEF PaperInv
  <2>16. CASE HandoffCommit(d)
    <3>1. MarksOK'
      BY <2>16 DEF HandoffCommit, Proceed, agentVars, transferVars, trustVars,
          PaperInv, MarksOK, ChecksHold, HasTransfer, DealsOK, Deals, TransfersOK,
          NoDeal
    <3>2. ChecksHold'
      BY <2>16 DEF HandoffCommit, Proceed, agentVars, transferVars, trustVars,
          PaperInv, MarksOK, ChecksHold, HasTransfer, DealsOK, Deals, TransfersOK,
          NoDeal
    <3> QED BY <3>1, <3>2 DEF PaperInv
  <2>17. CASE Recalibrate(d)
    <3>1. MarksOK'
      BY <2>17 DEF Recalibrate, Finish, agentVars, transferVars, trustVars, PaperInv,
          MarksOK, ChecksHold, HasTransfer, DealsOK, Deals, TransfersOK, NoDeal
    <3>2. ChecksHold'
      BY <2>17 DEF Recalibrate, Finish, agentVars, transferVars, trustVars, PaperInv,
          MarksOK, ChecksHold, HasTransfer, DealsOK, Deals, TransfersOK, NoDeal
    <3> QED BY <3>1, <3>2 DEF PaperInv
  <2>18. CASE ClaimWrite(d)
    <3>1. MarksOK'
      BY <2>18 DEF ClaimWrite, Finish, agentVars, transferVars, trustVars, PaperInv,
          MarksOK, ChecksHold, HasTransfer, DealsOK, Deals, TransfersOK, NoDeal
    <3>2. ChecksHold'
      BY <2>18 DEF ClaimWrite, Finish, agentVars, transferVars, trustVars, PaperInv,
          MarksOK, ChecksHold, HasTransfer, DealsOK, Deals, TransfersOK, NoDeal
    <3> QED BY <3>1, <3>2 DEF PaperInv
  <2>19. CASE Drop(d)
    <3>1. MarksOK'
      BY <2>19 DEF Drop, Finish, agentVars, transferVars, trustVars, PaperInv,
          MarksOK, ChecksHold, HasTransfer, DealsOK, Deals, TransfersOK, NoDeal
    <3>2. ChecksHold'
      BY <2>19 DEF Drop, Finish, agentVars, transferVars, trustVars, PaperInv,
          MarksOK, ChecksHold, HasTransfer, DealsOK, Deals, TransfersOK, NoDeal
    <3> QED BY <3>1, <3>2 DEF PaperInv
  <2> QED BY <1>1, <2>1, <2>2, <2>3, <2>4, <2>5, <2>6, <2>7, <2>8, <2>9, <2>10, <2>11,
             <2>12, <2>13, <2>14, <2>15, <2>16, <2>17, <2>18, <2>19 DEF DealNext
<1>2. ASSUME NEW u \in Users, ClaimByToken(u) PROVE PaperInv'
  BY <1>2 DEF ClaimByToken, transferVars, trustVars, dealVars, PaperInv, MarksOK, ChecksHold
<1>3. CASE KeysStep
  BY <1>3 DEF KeysStep, transferVars, trustVars, dealVars, PaperInv, MarksOK, ChecksHold
<1>4. CASE UNCHANGED vars
  BY <1>4 DEF vars, keysVars, keyVars, nonceVars, requestVars, agentVars, transferVars,
      trustVars,
              dealVars, PaperInv, MarksOK, ChecksHold
<1> QED BY <1>1, <1>2, <1>3, <1>4 DEF Next

LEMMA PaperHolds == Spec => [](TransferTypeInv /\ PaperInv)
  BY TransferTypeInit, TransferTypeStep, PaperInit, PaperStep, PTL DEF Spec

\* A handoff that moved the agent finds the snapshot it recalibrates, whatever requests
\* wrote the transfer's status meanwhile.
THEOREM HandoffsRecalibrate == Spec => []HandoffCanRecalibrate
<1>1. PaperInv => HandoffCanRecalibrate
  BY DEF PaperInv, ChecksHold, HandoffCanRecalibrate
<1> QED BY <1>1, PaperHolds, PTL

\* A step that leaves the marks, and whether a transfer was inserted, is a stutter.
LEMMA StageKept ==
  ASSUME UNCHANGED <<completedAt, snapshots, acceptedAt, userId, parties>>,
         \A t \in Transfers : phase'[t] = "none" <=> phase[t] = "none"
  PROVE  UNCHANGED <<userId, Stage, parties>>
  BY DEF Stage

\* The stage of one transfer, and a step that moves one transfer to another stage.
LEMMA StageOf ==
  ASSUME NEW t \in Transfers
  PROVE  /\ t \in completedAt => Stage[t] = "moved"
         /\ t \notin completedAt /\ t \in snapshots => Stage[t] = "prepared"
         /\ t \notin completedAt /\ t \notin snapshots /\ t \in acceptedAt => Stage[t] = "agreed"
         /\ t \notin completedAt /\ t \notin snapshots /\ t \notin acceptedAt =>
              Stage[t] = IF phase[t] # "none" THEN "open" ELSE "none"
  BY DEF Stage

LEMMA StageOfNext ==
  ASSUME NEW t \in Transfers
  PROVE  /\ t \in completedAt' => Stage'[t] = "moved"
         /\ t \notin completedAt' /\ t \in snapshots' => Stage'[t] = "prepared"
         /\ t \notin completedAt' /\ t \notin snapshots' /\ t \in acceptedAt' =>
              Stage'[t] = "agreed"
         /\ t \notin completedAt' /\ t \notin snapshots' /\ t \notin acceptedAt' =>
              Stage'[t] = IF phase'[t] # "none" THEN "open" ELSE "none"
  BY DEF Stage

LEMMA StageMoves ==
  ASSUME NEW t \in Transfers, NEW v, Stage'[t] = v,
         \A s \in Transfers \ {t} :
           /\ s \in completedAt' <=> s \in completedAt
           /\ s \in snapshots' <=> s \in snapshots
           /\ s \in acceptedAt' <=> s \in acceptedAt
           /\ phase'[s] = phase[s]
  PROVE  Stage' = [Stage EXCEPT ![t] = v]
<1>1. ASSUME NEW s \in Transfers \ {t} PROVE Stage'[s] = Stage[s]
  BY StageOf, StageOfNext
<1>2. Stage = [s \in Transfers |-> Stage[s]] /\ Stage' = [s \in Transfers |-> Stage'[s]]
  BY DEF Stage
<1> QED BY <1>1, <1>2

TenureNext == [Tenure!Next]_<<userId, Stage, parties>>

LEMMA TenureStep == TransferTypeInv /\ PaperInv /\ [Next]_vars => TenureNext
<1> SUFFICES ASSUME TransferTypeInv /\ PaperInv, [Next]_vars PROVE TenureNext
  OBVIOUS
<1> USE DEF TransferTypeInv, TenureNext
<1>1. ASSUME NEW d \in Dealers, DealNext(d) PROVE TenureNext
  <2>1. ASSUME NEW u \in Users, CreateTransfer(d, u) PROVE TenureNext
    BY <2>1, StageKept DEF CreateTransfer, agentVars, transferVars, trustVars
  <2>2. ASSUME NEW u \in Users, ClaimAgent(d, u) PROVE TenureNext
    BY <2>2, StageKept DEF ClaimAgent, agentVars, transferVars, trustVars
  <2>3. ASSUME NEW t \in Transfers, NEW u \in Maybe(Users),
              UpdateTransfer(d, t, u)
       PROVE  TenureNext
    BY <2>3, StageKept DEF UpdateTransfer, agentVars, transferVars, trustVars
  <2>4. ASSUME NEW t \in Transfers, NEW u \in Users, AcceptTransfer(d, t, u) PROVE TenureNext
    BY <2>4, StageKept DEF AcceptTransfer, agentVars, transferVars, trustVars
  <2>5. ASSUME NEW t \in Transfers, NEW to \in {"transfer_pending", "cancelled", "disputed"},
              ChangePhase(d, t, to)
       PROVE  TenureNext
    BY <2>5, StageKept DEF ChangePhase, agentVars, transferVars, trustVars
  <2>6. ASSUME NEW t \in Transfers, StartHandoff(d, t) PROVE TenureNext
    BY <2>6, StageKept DEF StartHandoff, agentVars, transferVars, trustVars
  <2>7. ASSUME NEW t \in Transfers, CompleteHandoff(d, t) PROVE TenureNext
    BY <2>7, StageKept DEF CompleteHandoff, agentVars, transferVars, trustVars
  <2>8. CASE CreateInsertDraft(d)
    <3>1. PICK t \in Transfers : phase[t] = "none" /\ phase' = [phase EXCEPT ![t] = "draft"]
      BY <2>8 DEF CreateInsertDraft
    <3>2. UNCHANGED <<completedAt, snapshots, acceptedAt, userId, parties>>
      BY <2>8 DEF CreateInsertDraft, agentVars, trustVars
    <3>3. t \notin acceptedAt /\ t \notin snapshots /\ t \notin completedAt
      BY <3>1 DEF PaperInv, MarksOK
    <3>4. Stage[t] = "none" /\ Stage' = [Stage EXCEPT ![t] = "open"]
      BY <3>1, <3>2, <3>3, StageOf, StageOfNext, StageMoves DEF TransfersOK
    <3>5. Tenure!Open(t)
      BY <3>2, <3>4 DEF Tenure!Open
    <3> QED BY <3>5 DEF Tenure!Next
  <2>9. CASE UpdateWrite(d)
    <3> DEFINE t == deal[d].t
    <3>1. /\ t \in Transfers /\ phase[t] # "none"
          /\ parties' = [parties EXCEPT ![t] = @ \union ({deal[d].user} \ {"none"})]
          /\ UNCHANGED <<completedAt, snapshots, acceptedAt, userId, phase>>
      BY <2>9 DEF UpdateWrite, HasTransfer, PaperInv, ChecksHold, agentVars, trustVars
    <3>2. Stage' = Stage /\ Stage[t] # "none"
      BY <3>1 DEF Stage
    <3>3. CASE deal[d].user = "none"
      <4>1. parties' = parties
        BY <3>1, <3>3 DEF TransfersOK
      <4> QED BY <3>1, <3>2, <4>1
    <3>4. CASE deal[d].user # "none"
      <4>1. deal[d].user \in Users
        BY <3>4 DEF DealsOK, Deals, Maybe
      <4>2. {deal[d].user} \ {"none"} = {deal[d].user}
        BY <3>4
      <4>3. Tenure!Name(t, deal[d].user)
        BY <3>1, <3>2, <4>2 DEF Tenure!Name
      <4> QED BY <3>1, <4>1, <4>3 DEF Tenure!Next
    <3> QED BY <3>3, <3>4
  <2>10. CASE AcceptWrite(d)
    <3> DEFINE t == deal[d].t
    <3>1. /\ t \in Transfers /\ deal[d].user \in Users /\ phase[t] # "none"
          /\ parties' = [parties EXCEPT ![t] = @ \union {deal[d].user}]
          /\ acceptedAt' = acceptedAt \union {t}
          /\ phase' = [phase EXCEPT ![t] = "pending_acceptance"]
          /\ UNCHANGED <<completedAt, snapshots, userId>>
      BY <2>10 DEF AcceptWrite, HasTransfer, PaperInv, ChecksHold, agentVars, trustVars
    <3>2. /\ Stage[t] # "none"
          /\ Stage' = [Stage EXCEPT ![t] = IF Stage[t] = "open" THEN "agreed" ELSE Stage[t]]
      <4>1. /\ t \in acceptedAt' /\ t \in snapshots' <=> t \in snapshots
            /\ t \in completedAt' <=> t \in completedAt
        BY <3>1
      <4>2. /\ Stage[t] # "none"
            /\ Stage'[t] = IF Stage[t] = "open" THEN "agreed" ELSE Stage[t]
        BY <3>1, <4>1, StageOf, StageOfNext
      <4> QED BY <3>1, <4>2, StageMoves DEF TransfersOK
    <3>3. Tenure!Agree(t, deal[d].user)
      BY <3>1, <3>2 DEF Tenure!Agree
    <3> QED BY <3>1, <3>3 DEF Tenure!Next
  <2>11. CASE ChangePhaseWrite(d)
    <3>1. /\ phase' = [phase EXCEPT ![deal[d].t] = deal[d].to] /\ phase[deal[d].t] # "none"
          /\ deal[d].to # "none"
          /\ UNCHANGED <<completedAt, snapshots, acceptedAt, userId, parties>>
      BY <2>11 DEF ChangePhaseWrite, Finish, PaperInv, ChecksHold, agentVars, trustVars
    <3>2. \A t \in Transfers : phase'[t] = "none" <=> phase[t] = "none"
      BY <3>1 DEF TransfersOK
    <3> QED BY <3>1, <3>2, StageKept
  <2>12. CASE StartAdvance(d)
    <3>1. /\ phase' = [phase EXCEPT ![deal[d].t] = "transfer_pending"] /\ phase[deal[d].t] # "none"
          /\ "transfer_pending" # "none"
          /\ UNCHANGED <<completedAt, snapshots, acceptedAt, userId, parties>>
      BY <2>12 DEF StartAdvance, Proceed, PaperInv, ChecksHold, agentVars, trustVars
    <3>2. \A t \in Transfers : phase'[t] = "none" <=> phase[t] = "none"
      BY <3>1 DEF TransfersOK
    <3> QED BY <3>1, <3>2, StageKept
  <2>13. CASE StartSnapshot(d)
    <3> DEFINE t == deal[d].t
    <3>1. /\ t \in Transfers /\ t \in acceptedAt /\ snapshots' = snapshots \union {t}
          /\ UNCHANGED <<completedAt, acceptedAt, userId, parties, phase>>
      BY <2>13 DEF StartSnapshot, Proceed, HasTransfer, PaperInv, ChecksHold, agentVars,
                 transferVars
    <3>2. CASE t \in snapshots
      <4>1. snapshots' = snapshots
        BY <3>1, <3>2
      <4> QED BY <3>1, <4>1, StageKept
    <3>3. CASE t \notin snapshots
      <4>1. Stage[t] = "agreed" /\ Stage'[t] = "prepared"
        BY <3>1, <3>3, StageOf, StageOfNext DEF PaperInv, MarksOK
      <4>2. Stage' = [Stage EXCEPT ![t] = "prepared"]
        BY <3>1, <4>1, StageMoves
      <4>3. Tenure!Prepare(t)
        BY <3>1, <4>1, <4>2 DEF Tenure!Prepare
      <4> QED BY <3>1, <4>3 DEF Tenure!Next
    <3> QED BY <3>2, <3>3
  <2>14. CASE StartWrite(d)
    <3>1. /\ phase' = [phase EXCEPT ![deal[d].t] = "in_handoff"] /\ phase[deal[d].t] # "none"
          /\ "in_handoff" # "none"
          /\ UNCHANGED <<completedAt, snapshots, acceptedAt, userId, parties>>
      BY <2>14 DEF StartWrite, Finish, PaperInv, ChecksHold, agentVars, trustVars
    <3>2. \A t \in Transfers : phase'[t] = "none" <=> phase[t] = "none"
      BY <3>1 DEF TransfersOK
    <3> QED BY <3>1, <3>2, StageKept
  <2>15. CASE HandoffReadKeys(d)
    BY <2>15, StageKept DEF HandoffReadKeys, agentVars, transferVars, trustVars
  <2>16. CASE HandoffCommit(d)
    <3> DEFINE t == deal[d].t
    <3>1. /\ t \in Transfers /\ t \in snapshots /\ completedAt' = completedAt \union {t}
          /\ deal[d].user \in Users /\ deal[d].user \in parties[t]
          /\ phase[t] # "none" /\ phase' = [phase EXCEPT ![t] = "completed"]
          /\ userId' = deal[d].user
          /\ UNCHANGED <<acceptedAt, snapshots, parties>>
      BY <2>16 DEF HandoffCommit, Proceed, HasTransfer, PaperInv, ChecksHold, trustVars
    <3>2. /\ Stage[t] \in {"prepared", "moved"}
          /\ Stage' = [Stage EXCEPT ![t] = "moved"]
      <4>1. Stage[t] \in {"prepared", "moved"} /\ Stage'[t] = "moved"
        BY <3>1, StageOf, StageOfNext
      <4> QED BY <3>1, <4>1, StageMoves DEF TransfersOK
    <3>3. Tenure!Move(t, deal[d].user)
      BY <3>1, <3>2 DEF Tenure!Move
    <3> QED BY <3>1, <3>3 DEF Tenure!Next
  <2>17. CASE Recalibrate(d)
    BY <2>17, StageKept DEF Recalibrate, agentVars, transferVars, trustVars
  <2>18. CASE ClaimWrite(d)
    BY <2>18, StageKept DEF ClaimWrite, agentVars, transferVars, trustVars
  <2>19. CASE Drop(d)
    BY <2>19, StageKept DEF Drop, agentVars, transferVars, trustVars
  <2> QED BY <1>1, <2>1, <2>2, <2>3, <2>4, <2>5, <2>6, <2>7, <2>8, <2>9, <2>10, <2>11,
             <2>12, <2>13, <2>14, <2>15, <2>16, <2>17, <2>18, <2>19 DEF DealNext
<1>2. ASSUME NEW u \in Users, ClaimByToken(u) PROVE TenureNext
  BY <1>2, StageKept DEF ClaimByToken, transferVars, trustVars
<1>3. CASE KeysStep
  BY <1>3, StageKept DEF KeysStep, agentVars, transferVars, trustVars
<1>4. CASE UNCHANGED vars
  BY <1>4, StageKept DEF vars, keysVars, keyVars, nonceVars, requestVars, agentVars,
      transferVars, trustVars,
              dealVars
<1> QED BY <1>1, <1>2, <1>3, <1>4 DEF Next

\* Whatever the blind writes of the status do, the agent moves only by a transfer that was
\* accepted and prepared, and only to one of its parties.
THEOREM TransfersImplementTenure == Spec => TenureSpec
<1>1. Init => Tenure!Init
  BY DEF Init, Tenure!Init, Stage
<1>2. TransferTypeInv /\ PaperInv /\ [Next]_vars => [Tenure!Next]_<<userId, Stage, parties>>
  BY TenureStep DEF TenureNext
<1> QED BY <1>1, <1>2, PaperHolds, PTL DEF Spec, TenureSpec, Tenure!Spec
=============================================================================
