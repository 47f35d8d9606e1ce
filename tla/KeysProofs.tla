------------------------------ MODULE KeysProofs ------------------------------
(***************************************************************************)
(* Type correctness of AgentKeys and its three promises, for any number of   *)
(* requests, keys and challenges.                                             *)
(***************************************************************************)
EXTENDS AgentKeys, TLAPS

\* The steps of a request.
Act(r) == KeyNext(r) \/ AuthNext(r) \/ Abandon(r)

LEMMA NextActs ==
  ASSUME KeysNext
  PROVE  \/ \E r \in Requests : Act(r)
         \/ RevokeAgent \/ DeleteAgent
         \/ \E n \in Nonces : NonceLapses(n)
  BY DEF KeysNext, Act

-----------------------------------------------------------------------------
(* Type correctness *)

\* A request that presents a challenge holds it and its key; one that works on a key
\* holds a key, and the new key follows the old one.
Holds ==
  \A r \in Requests :
    /\ pc[r] \in {"key", "consume", "status", "grant"} =>
         job[r].key \in Keys /\ job[r].nonce \in Nonces
    /\ pc[r] \in {"purge", "insert", "expire", "verify_revoke"} => job[r].key <= count
    /\ pc[r] \in {"mark", "log"} =>
         job[r].key \in Keys /\ job[r].key < job[r].new /\ job[r].new <= count

\* The keys up to count were inserted, and the log names only those.
Inserted ==
  /\ count >= 1 /\ \A k \in Keys : status[k] # "none" <=> k <= count
  /\ \A k \in Keys : log[k].old <= count

KeysTypeInv == KeysTypeOK /\ Inserted /\ Holds

LEMMA NoJobTyped == NoJob \in Jobs
  BY KeysAssumption DEF NoJob, Jobs, NoKey

\* The jobs that requests begin with.
LEMMA JobsTyped ==
  /\ \A b \in BOOLEAN : [NoJob EXCEPT !.purpose = b] \in Jobs
  /\ \A K \in SUBSET Keys : [NoJob EXCEPT !.took = K] \in Jobs
  /\ \A k \in Keys : [NoJob EXCEPT !.key = k] \in Jobs
  /\ \A k \in Keys, b \in BOOLEAN : [NoJob EXCEPT !.key = k, !.immediate = b] \in Jobs
  /\ \A k \in Keys, old \in 0..MaxKeys : [NoJob EXCEPT !.key = old, !.new = k] \in Jobs
  /\ \A k \in Keys, n \in Nonces : [NoJob EXCEPT !.key = k, !.nonce = n] \in Jobs
<1> USE NoJobTyped, KeysAssumption DEF Jobs, Keys
<1>1. ASSUME NEW b \in BOOLEAN PROVE [NoJob EXCEPT !.purpose = b] \in Jobs
  OBVIOUS
<1>2. ASSUME NEW k \in 0..MaxKeys PROVE [NoJob EXCEPT !.key = k] \in Jobs
  OBVIOUS
<1>3. ASSUME NEW k \in Keys, NEW b \in BOOLEAN
      PROVE  [NoJob EXCEPT !.key = k, !.immediate = b] \in Jobs
  <2>1. \A j \in Jobs : [j EXCEPT !.immediate = b] \in Jobs
    OBVIOUS
  <2>2. k \in 0..MaxKeys
    OBVIOUS
  <2>3. [NoJob EXCEPT !.key = k] \in Jobs
    BY <1>2, <2>2, Zenon
  <2>4. [[NoJob EXCEPT !.key = k] EXCEPT !.immediate = b] \in Jobs
    BY <2>1, <2>3, Zenon
  <2> QED BY <2>4, Zenon
<1>4. ASSUME NEW k \in Keys, NEW old \in 0..MaxKeys
      PROVE  [NoJob EXCEPT !.key = old, !.new = k] \in Jobs
  <2>1. \A j \in Jobs : [j EXCEPT !.new = k] \in Jobs
    OBVIOUS
  <2>2. [[NoJob EXCEPT !.key = old] EXCEPT !.new = k] \in Jobs
    BY <1>2, <2>1
  <2> QED BY <2>2, Zenon
<1>5. ASSUME NEW k \in Keys, NEW n \in Nonces
      PROVE  [NoJob EXCEPT !.key = k, !.nonce = n] \in Jobs
  <2>1. \A j \in Jobs : [j EXCEPT !.nonce = n] \in Jobs
    OBVIOUS
  <2>2. k \in 0..MaxKeys
    OBVIOUS
  <2>3. [NoJob EXCEPT !.key = k] \in Jobs
    BY <1>2, <2>2, Zenon
  <2>4. [[NoJob EXCEPT !.key = k] EXCEPT !.nonce = n] \in Jobs
    BY <2>1, <2>3, Zenon
  <2> QED BY <2>4, Zenon
<1>6. ASSUME NEW K \in SUBSET Keys PROVE [NoJob EXCEPT !.took = K] \in Jobs
  OBVIOUS
<1> QED BY <1>1, <1>2, <1>3, <1>4, <1>5, <1>6

\* A request that begins, goes on or returns stays typed.
LEMMA StartTyped ==
  ASSUME KeysTypeOK, NEW r \in Requests, NEW to \in Points, NEW j \in Jobs, Start(r, to, j)
  PROVE  RequestsOK'
  BY DEF KeysTypeOK, RequestsOK, Start

LEMMA GotoTyped ==
  ASSUME KeysTypeOK, NEW r \in Requests, NEW from, NEW to \in Points, Goto(r, from, to)
  PROVE  RequestsOK'
  BY DEF KeysTypeOK, RequestsOK, Goto

LEMMA ReturnTyped ==
  ASSUME KeysTypeOK, NEW r \in Requests, Return(r)
  PROVE  RequestsOK'
<1>1. "idle" \in Points
  BY DEF Points
<1> QED BY <1>1, NoJobTyped DEF KeysTypeOK, RequestsOK, Return

LEMMA KeysTypeStep == KeysTypeInv /\ [KeysNext]_keysVars => KeysTypeInv'
<1> SUFFICES ASSUME KeysTypeInv, [KeysNext]_keysVars PROVE KeysTypeInv'
  OBVIOUS
<1> USE KeysAssumption DEF KeysTypeInv, KeysTypeOK, keyVars, nonceVars, requestVars
<1>1. ASSUME NEW r \in Requests, Act(r) PROVE KeysTypeInv'
  <2>1. ASSUME NEW kind \in {"add", "addForPurpose"}, AddKey(r, kind) PROVE KeysTypeInv'
    <3>1. RequestsOK'
      BY <2>1, StartTyped, NoJobTyped, JobsTyped DEF AddKey, Points, KeyRowsOK
    <3>2. KeyRowsOK'
      BY <2>1 DEF AddKey, KeyRowsOK
    <3>3. ChallengesOK'
      BY <2>1 DEF AddKey, ChallengesOK
    <3>4. Inserted' /\ Holds'
      <4>1. Inserted'
        BY <2>1 DEF AddKey, Inserted
      <4>2. \A q \in Requests \ {r} : pc'[q] = pc[q] /\ job'[q] = job[q]
        BY <2>1 DEF AddKey, Start, RequestsOK
      <4>3. pc'[r] \in {"purge", "insert"} /\ job'[r].key = 0
        BY <2>1 DEF AddKey, Start, RequestsOK, NoJob, NoKey
      <4>4. count' = count /\ count \in Nat
        BY <2>1 DEF AddKey, KeyRowsOK
      <4>5. Holds'
        BY <4>2, <4>3, <4>4 DEF Holds
      <4> QED BY <4>1, <4>5
    <3> QED BY <3>1, <3>2, <3>3, <3>4
  <2>2. CASE CreatePurge(r)
    <3>1. RequestsOK'
      <4>1. [job[r] EXCEPT !.took = purposeful \intersect ActiveKeys \intersect {count}] \in Jobs
        BY DEF RequestsOK, Jobs, ActiveKeys
      <4> QED BY <2>2, <4>1 DEF CreatePurge, RequestsOK, Points
    <3>2. KeyRowsOK'
      BY <2>2 DEF CreatePurge, KeyRowsOK
    <3>3. ChallengesOK'
      BY <2>2 DEF CreatePurge, ChallengesOK
    <3>4. Inserted' /\ Holds'
      BY <2>2 DEF CreatePurge, Inserted, Holds, Start, Goto, Return, NoJob, NoKey, ActiveKeys, RequestsOK, KeyRowsOK, Jobs, Keys
    <3> QED BY <3>1, <3>2, <3>3, <3>4
  <2>3. CASE CreateInsert(r)
    <3>0. /\ count + 1 \in Keys /\ job[r].key \in 0..MaxKeys /\ job[r].key <= count
          /\ count \in Nat
      BY <2>3 DEF CreateInsert, RequestsOK, KeyRowsOK, Jobs, Keys, Holds
    <3>1. RequestsOK'
      <4>1. [job[r] EXCEPT !.new = count + 1] \in Jobs
        BY <3>0 DEF RequestsOK, Jobs, Keys
      <4>2. CASE job[r].key = NoKey
        BY <2>3, <4>2, ReturnTyped DEF CreateInsert
      <4>3. CASE job[r].key # NoKey
        BY <2>3, <4>1, <4>3 DEF CreateInsert, RequestsOK, Points
      <4> QED BY <4>2, <4>3
    <3>2. KeyRowsOK'
      BY <2>3, <3>0 DEF CreateInsert, KeyRowsOK, Keys
    <3>3. ChallengesOK'
      BY <2>3, <3>0 DEF CreateInsert, ChallengesOK
    <3>4. Inserted' /\ Holds'
      <4>1. count' = count + 1 /\ status' = [status EXCEPT ![count + 1] = "active"] /\ log' = log
        BY <2>3 DEF CreateInsert
      <4>2. Inserted'
        BY <3>0, <4>1 DEF Inserted, KeyRowsOK, Keys
      <4>3. \A q \in Requests \ {r} : pc'[q] = pc[q] /\ job'[q] = job[q]
        BY <2>3 DEF CreateInsert, Return, RequestsOK
      <4>4. \/ pc'[r] = "idle"
            \/ pc'[r] = "mark" /\ job'[r].key = job[r].key /\ job'[r].new = count + 1
               /\ job[r].key # 0
        BY <2>3 DEF CreateInsert, Return, RequestsOK, Jobs, NoKey
      <4>5. \A q \in Requests : job[q].key \in Nat /\ job[q].new \in Nat
        BY DEF RequestsOK, Jobs
      <4>6. Holds'
        BY <3>0, <4>1, <4>3, <4>4, <4>5 DEF Holds, Keys
      <4> QED BY <4>2, <4>6
    <3> QED BY <3>1, <3>2, <3>3, <3>4
  <2>4. ASSUME NEW k \in Keys, RotateRevoke(r, k) PROVE KeysTypeInv'
    <3>1. RequestsOK'
      <4>1. [NoJob EXCEPT !.took = {k} \intersect {count}] \in Jobs
        BY JobsTyped
      <4> QED BY <2>4, <4>1, StartTyped DEF RotateRevoke, Points
    <3>2. KeyRowsOK'
      BY <2>4 DEF RotateRevoke, KeyRowsOK
    <3>3. ChallengesOK'
      BY <2>4 DEF RotateRevoke, ChallengesOK
    <3>4. Inserted' /\ Holds'
      BY <2>4 DEF RotateRevoke, Inserted, Holds, Start, Goto, Return, NoJob, NoKey, ActiveKeys, RequestsOK, KeyRowsOK, Jobs, Keys
    <3> QED BY <3>1, <3>2, <3>3, <3>4
  <2>5. ASSUME NEW k \in Keys, VerifyRotation(r, k) PROVE KeysTypeInv'
    <3>1. RequestsOK'
      <4>1. log[k].old \in 0..MaxKeys
        BY DEF KeyRowsOK
      <4>2. [NoJob EXCEPT !.key = log[k].old, !.new = k] \in Jobs
        BY <4>1, JobsTyped
      <4> QED BY <2>5, <4>2, StartTyped DEF VerifyRotation, Points
    <3>2. KeyRowsOK'
      BY <2>5 DEF VerifyRotation, KeyRowsOK
    <3>3. ChallengesOK'
      BY <2>5 DEF VerifyRotation, ChallengesOK
    <3>4. Inserted' /\ Holds'
      BY <2>5 DEF VerifyRotation, Inserted, Holds, Start, Goto, Return, NoJob, NoKey, ActiveKeys, RequestsOK, KeyRowsOK, Jobs, Keys
    <3> QED BY <3>1, <3>2, <3>3, <3>4
  <2>6. ASSUME NEW k \in Keys, ExpireRead(r, k) PROVE KeysTypeInv'
    <3>1. RequestsOK'
      BY <2>6, StartTyped, NoJobTyped, JobsTyped DEF ExpireRead, Points, KeyRowsOK
    <3>2. KeyRowsOK'
      BY <2>6 DEF ExpireRead, KeyRowsOK
    <3>3. ChallengesOK'
      BY <2>6 DEF ExpireRead, ChallengesOK
    <3>4. Inserted' /\ Holds'
      BY <2>6 DEF ExpireRead, Inserted, Holds, Start, Goto, Return, NoJob, NoKey, ActiveKeys, RequestsOK, KeyRowsOK, Jobs, Keys
    <3> QED BY <3>1, <3>2, <3>3, <3>4
  <2>7. ASSUME NEW k \in Keys, NEW immediate \in BOOLEAN,
              InitiateRotation(r, k, immediate)
       PROVE  KeysTypeInv'
    <3>1. RequestsOK'
      BY <2>7, StartTyped, NoJobTyped, JobsTyped DEF InitiateRotation, Points, KeyRowsOK
    <3>2. KeyRowsOK'
      BY <2>7 DEF InitiateRotation, KeyRowsOK
    <3>3. ChallengesOK'
      BY <2>7 DEF InitiateRotation, ChallengesOK
    <3>4. Inserted' /\ Holds'
      BY <2>7 DEF InitiateRotation, Inserted, Holds, Start, Goto, Return, NoJob, NoKey, ActiveKeys, RequestsOK, KeyRowsOK, Jobs, Keys
    <3> QED BY <3>1, <3>2, <3>3, <3>4
  <2>8. CASE InitiateMark(r)
    <3>1. RequestsOK'
      BY <2>8, GotoTyped DEF InitiateMark, Points, KeyRowsOK
    <3>2. KeyRowsOK'
      BY <2>8 DEF InitiateMark, KeyRowsOK, RequestsOK, Jobs
    <3>3. ChallengesOK'
      BY <2>8 DEF InitiateMark, ChallengesOK, RequestsOK, Jobs
    <3>4. Inserted' /\ Holds'
      BY <2>8 DEF InitiateMark, Inserted, Holds, Start, Goto, Return, NoJob, NoKey, ActiveKeys, RequestsOK, KeyRowsOK, Jobs, Keys
    <3> QED BY <3>1, <3>2, <3>3, <3>4
  <2>9. CASE InitiateLog(r)
    <3>1. RequestsOK'
      BY <2>9, ReturnTyped DEF InitiateLog, Points, KeyRowsOK
    <3>2. KeyRowsOK'
      BY <2>9 DEF InitiateLog, KeyRowsOK, RequestsOK, Jobs, Keys
    <3>3. ChallengesOK'
      BY <2>9 DEF InitiateLog, ChallengesOK, RequestsOK, Jobs, Keys
    <3>4. Inserted' /\ Holds'
      BY <2>9 DEF InitiateLog, Inserted, Holds, Start, Goto, Return, NoJob, NoKey, ActiveKeys, RequestsOK, KeyRowsOK, Jobs, Keys
    <3> QED BY <3>1, <3>2, <3>3, <3>4
  <2>10. CASE VerifyRevoke(r)
    <3>1. RequestsOK'
      BY <2>10, GotoTyped DEF VerifyRevoke, Points, KeyRowsOK
    <3>2. KeyRowsOK'
      BY <2>10 DEF VerifyRevoke, KeyRowsOK
    <3>3. ChallengesOK'
      BY <2>10 DEF VerifyRevoke, ChallengesOK
    <3>4. Inserted' /\ Holds'
      BY <2>10 DEF VerifyRevoke, Inserted, Holds, Start, Goto, Return, NoJob, NoKey, ActiveKeys, RequestsOK, KeyRowsOK, Jobs, Keys
    <3> QED BY <3>1, <3>2, <3>3, <3>4
  <2>11. CASE VerifyLog(r)
    <3>1. RequestsOK'
      BY <2>11, ReturnTyped DEF VerifyLog, Points, KeyRowsOK
    <3>2. KeyRowsOK'
      BY <2>11 DEF VerifyLog, KeyRowsOK, RequestsOK, Jobs
    <3>3. ChallengesOK'
      BY <2>11 DEF VerifyLog, ChallengesOK, RequestsOK, Jobs
    <3>4. Inserted' /\ Holds'
      BY <2>11 DEF VerifyLog, Inserted, Holds, Start, Goto, Return, NoJob, NoKey, ActiveKeys, RequestsOK, KeyRowsOK, Jobs, Keys
    <3> QED BY <3>1, <3>2, <3>3, <3>4
  <2>12. CASE ExpireWrite(r)
    <3>1. RequestsOK'
      BY <2>12, ReturnTyped DEF ExpireWrite, Points, KeyRowsOK
    <3>2. KeyRowsOK'
      BY <2>12 DEF ExpireWrite, KeyRowsOK
    <3>3. ChallengesOK'
      BY <2>12 DEF ExpireWrite, ChallengesOK
    <3>4. Inserted' /\ Holds'
      BY <2>12 DEF ExpireWrite, Inserted, Holds, Start, Goto, Return, NoJob, NoKey, ActiveKeys, RequestsOK, KeyRowsOK, Jobs, Keys
    <3> QED BY <3>1, <3>2, <3>3, <3>4
  <2>13. CASE CreateChallenge(r)
    <3>1. RequestsOK'
      BY <2>13, StartTyped, NoJobTyped, JobsTyped DEF CreateChallenge, Points, KeyRowsOK
    <3>2. KeyRowsOK'
      BY <2>13 DEF CreateChallenge, KeyRowsOK
    <3>3. ChallengesOK'
      BY <2>13 DEF CreateChallenge, ChallengesOK
    <3>4. Inserted' /\ Holds'
      BY <2>13 DEF CreateChallenge, Inserted, Holds, Start, Goto, Return, NoJob, NoKey, ActiveKeys, RequestsOK, KeyRowsOK, Jobs, Keys
    <3> QED BY <3>1, <3>2, <3>3, <3>4
  <2>14. CASE ChallengeInsert(r)
    <3>1. RequestsOK'
      BY <2>14, ReturnTyped DEF ChallengeInsert, Points, KeyRowsOK
    <3>2. KeyRowsOK'
      BY <2>14 DEF ChallengeInsert, KeyRowsOK, ActiveKeys
    <3>3. ChallengesOK'
      BY <2>14 DEF ChallengeInsert, ChallengesOK, ActiveKeys
    <3>4. Inserted' /\ Holds'
      BY <2>14 DEF ChallengeInsert, Inserted, Holds, Start, Goto, Return, NoJob, NoKey, ActiveKeys, RequestsOK, KeyRowsOK, Jobs, Keys
    <3> QED BY <3>1, <3>2, <3>3, <3>4
  <2>15. ASSUME NEW kind \in {"session", "popJwt", "assertion"}, NEW n \in Nonces, NEW k \in Keys,
              Present(r, kind, n, k)
       PROVE  KeysTypeInv'
    <3>1. RequestsOK'
      BY <2>15, StartTyped, NoJobTyped, JobsTyped DEF Present, Points, KeyRowsOK
    <3>2. KeyRowsOK'
      BY <2>15 DEF Present, KeyRowsOK
    <3>3. ChallengesOK'
      BY <2>15 DEF Present, ChallengesOK
    <3>4. Inserted' /\ Holds'
      BY <2>15 DEF Present, Inserted, Holds, Start, Goto, Return, NoJob, NoKey, ActiveKeys, RequestsOK, KeyRowsOK, Jobs, Keys
    <3> QED BY <3>1, <3>2, <3>3, <3>4
  <2>16. CASE ReadKey(r)
    <3>1. RequestsOK'
      BY <2>16, GotoTyped DEF ReadKey, Points, KeyRowsOK
    <3>2. KeyRowsOK'
      BY <2>16 DEF ReadKey, KeyRowsOK
    <3>3. ChallengesOK'
      BY <2>16 DEF ReadKey, ChallengesOK
    <3>4. Inserted' /\ Holds'
      BY <2>16 DEF ReadKey, Inserted, Holds, Start, Goto, Return, NoJob, NoKey, ActiveKeys, RequestsOK, KeyRowsOK, Jobs, Keys
    <3> QED BY <3>1, <3>2, <3>3, <3>4
  <2>17. CASE ConsumeNonce(r)
    <3>1. RequestsOK'
      BY <2>17, GotoTyped DEF ConsumeNonce, Points, KeyRowsOK
    <3>2. KeyRowsOK'
      BY <2>17 DEF ConsumeNonce, KeyRowsOK
    <3>3. ChallengesOK'
      BY <2>17 DEF ConsumeNonce, ChallengesOK
    <3>4. Inserted' /\ Holds'
      BY <2>17 DEF ConsumeNonce, Inserted, Holds, Start, Goto, Return, NoJob, NoKey, ActiveKeys, RequestsOK, KeyRowsOK, Jobs, Keys
    <3> QED BY <3>1, <3>2, <3>3, <3>4
  <2>18. CASE ReadAgent(r)
    <3>1. RequestsOK'
      BY <2>18, GotoTyped DEF ReadAgent, Points, KeyRowsOK
    <3>2. KeyRowsOK'
      BY <2>18 DEF ReadAgent, KeyRowsOK
    <3>3. ChallengesOK'
      BY <2>18 DEF ReadAgent, ChallengesOK
    <3>4. Inserted' /\ Holds'
      BY <2>18 DEF ReadAgent, Inserted, Holds, Start, Goto, Return, NoJob, NoKey, ActiveKeys, RequestsOK, KeyRowsOK, Jobs, Keys
    <3> QED BY <3>1, <3>2, <3>3, <3>4
  <2>19. CASE Grant(r)
    <3>1. RequestsOK'
      BY <2>19, ReturnTyped DEF Grant, Points, KeyRowsOK
    <3>2. KeyRowsOK'
      BY <2>19 DEF Grant, KeyRowsOK, Holds, RequestsOK
    <3>3. ChallengesOK'
      BY <2>19 DEF Grant, ChallengesOK, Holds, RequestsOK
    <3>4. Inserted' /\ Holds'
      BY <2>19 DEF Grant, Inserted, Holds, Start, Goto, Return, NoJob, NoKey, ActiveKeys, RequestsOK, KeyRowsOK, Jobs, Keys
    <3> QED BY <3>1, <3>2, <3>3, <3>4
  <2>20. CASE Abandon(r)
    <3>1. RequestsOK'
      BY <2>20, ReturnTyped DEF Abandon, Points, KeyRowsOK
    <3>2. KeyRowsOK'
      <4>1. job[r].took \in SUBSET Keys
        BY DEF RequestsOK, Jobs
      <4>2. stranded' \subseteq Keys
        BY <2>20, <4>1 DEF Abandon, KeyRowsOK
      <4> QED BY <2>20, <4>2 DEF Abandon, KeyRowsOK
    <3>3. ChallengesOK'
      BY <2>20 DEF Abandon, ChallengesOK
    <3>4. Inserted' /\ Holds'
      BY <2>20 DEF Abandon, Inserted, Holds, Start, Goto, Return, NoJob, NoKey, ActiveKeys, RequestsOK, KeyRowsOK, Jobs, Keys
    <3> QED BY <3>1, <3>2, <3>3, <3>4
  <2> QED BY <1>1, <2>1, <2>2, <2>3, <2>4, <2>5, <2>6, <2>7, <2>8, <2>9, <2>10, <2>11,
             <2>12, <2>13, <2>14, <2>15, <2>16, <2>17, <2>18, <2>19, <2>20
          DEF Act, KeyNext, AuthNext
<1>2. CASE RevokeAgent
  BY <1>2 DEF RevokeAgent, ActiveKeys, KeyRowsOK, ChallengesOK, RequestsOK, Inserted, Holds
<1>3. CASE DeleteAgent
  BY <1>3 DEF DeleteAgent, KeyRowsOK, ChallengesOK, RequestsOK, Inserted, Holds
<1>4. ASSUME NEW n \in Nonces, NonceLapses(n) PROVE KeysTypeInv'
  BY <1>4 DEF NonceLapses, KeyRowsOK, ChallengesOK, RequestsOK, Inserted, Holds
<1>5. CASE UNCHANGED keysVars
  BY <1>5 DEF keysVars, KeyRowsOK, ChallengesOK, RequestsOK, Inserted, Holds
<1> QED BY <1>1, <1>2, <1>3, <1>4, <1>5, NextActs

LEMMA KeysTypeInit == KeysInit => KeysTypeInv
<1> SUFFICES ASSUME KeysInit PROVE KeysTypeInv
  OBVIOUS
<1> USE KeysAssumption
<1>1. KeyRowsOK
  BY DEF KeysInit, KeyRowsOK, Keys, NoKey
<1>2. ChallengesOK
  BY DEF KeysInit, ChallengesOK
<1>3. RequestsOK
  BY NoJobTyped DEF KeysInit, RequestsOK, Points
<1>4. Inserted /\ Holds
  BY DEF KeysInit, Inserted, Holds, Keys, NoKey
<1> QED BY <1>1, <1>2, <1>3, <1>4 DEF KeysTypeInv, KeysTypeOK

\* Keys, challenges and requests keep their types.
THEOREM KeysTyped == KeysSpec => []KeysTypeOK
<1>1. KeysSpec => []KeysTypeInv
  BY KeysTypeInit, KeysTypeStep, PTL DEF KeysSpec
<1> QED BY <1>1, PTL DEF KeysTypeInv

-----------------------------------------------------------------------------
(* A challenge is granted once *)

Granting == {"status", "grant"}

NonceInv ==
  /\ \A n \in Nonces : grants[n] <= 1 /\ (grants[n] = 1 => nonce[n] = "consumed")
  /\ \A r \in Requests : pc[r] \in Granting =>
       nonce[job[r].nonce] = "consumed" /\ grants[job[r].nonce] = 0
  /\ \A r1, r2 \in Requests :
       pc[r1] \in Granting /\ pc[r2] \in Granting /\ job[r1].nonce = job[r2].nonce => r1 = r2

LEMMA ConsumeKeepsNonce ==
  ASSUME KeysTypeInv, NonceInv, NEW r \in Requests, ConsumeNonce(r)
  PROVE  NonceInv'
<1> DEFINE m == job[r].nonce
<1>1. /\ nonce[m] = "open" /\ nonce' = [nonce EXCEPT ![m] = "consumed"]
      /\ job' = job /\ grants' = grants /\ pc' = [pc EXCEPT ![r] = "status"]
      /\ pc[r] = "consume"
  BY DEF ConsumeNonce, Goto
<1>2. m \in Nonces /\ grants \in [Nonces -> Nat]
  BY <1>1 DEF KeysTypeInv, KeysTypeOK, ChallengesOK, Holds
<1>3. pc \in [Requests -> Points] /\ nonce \in [Nonces -> {"none", "open", "consumed", "lapsed"}]
  BY DEF KeysTypeInv, KeysTypeOK, RequestsOK, ChallengesOK
<1>4. grants[m] # 1 /\ grants[m] <= 1 /\ grants[m] \in Nat
  BY <1>1, <1>2 DEF NonceInv
<1>5. grants[m] = 0
  BY <1>4
<1>6. \A q \in Requests : pc[q] \in Granting => job[q].nonce # m
  BY <1>1 DEF NonceInv
<1>7. \A q \in Requests : pc'[q] \in Granting => q = r \/ pc[q] \in Granting
  BY <1>1, <1>3
<1>8. \A n \in Nonces : nonce[n] = "consumed" => nonce'[n] = "consumed"
  BY <1>1, <1>3
<1>9. nonce'[m] = "consumed"
  BY <1>1, <1>2, <1>3
<1>10. \A n \in Nonces : grants'[n] <= 1 /\ (grants'[n] = 1 => nonce'[n] = "consumed")
  BY <1>1, <1>8 DEF NonceInv
<1>11. ASSUME NEW q \in Requests, pc'[q] \in Granting
       PROVE  nonce'[job'[q].nonce] = "consumed" /\ grants'[job'[q].nonce] = 0
  <2>1. CASE q = r
    BY <1>1, <1>5, <1>9, <2>1
  <2>2. CASE pc[q] \in Granting
    BY <1>1, <1>8, <2>2 DEF NonceInv, KeysTypeInv, Holds, Granting
  <2> QED BY <1>7, <1>11, <2>1, <2>2
<1>12. ASSUME NEW q1 \in Requests, NEW q2 \in Requests, pc'[q1] \in Granting,
              pc'[q2] \in Granting, job'[q1].nonce = job'[q2].nonce
       PROVE  q1 = q2
  BY <1>1, <1>6, <1>7, <1>12 DEF NonceInv
<1> QED BY <1>10, <1>11, <1>12 DEF NonceInv

LEMMA NonceStep == KeysTypeInv /\ NonceInv /\ [KeysNext]_keysVars => NonceInv'
<1> SUFFICES ASSUME KeysTypeInv /\ NonceInv, [KeysNext]_keysVars PROVE NonceInv'
  OBVIOUS
<1> USE KeysAssumption DEF KeysTypeInv, KeysTypeOK, ChallengesOK, RequestsOK, Holds, NonceInv, Granting,
    Jobs, keyVars, nonceVars, requestVars
<1>1. ASSUME NEW r \in Requests, Act(r) PROVE NonceInv'
  <2>1. ASSUME NEW kind \in {"add", "addForPurpose"}, AddKey(r, kind) PROVE NonceInv'
    BY <2>1 DEF AddKey, Start, Goto, Return, NoJob
  <2>2. CASE CreatePurge(r)
    BY <2>2 DEF CreatePurge, Start, Goto, Return, NoJob
  <2>3. CASE CreateInsert(r)
    BY <2>3 DEF CreateInsert, Start, Goto, Return, NoJob
  <2>4. ASSUME NEW k \in Keys, RotateRevoke(r, k) PROVE NonceInv'
    BY <2>4 DEF RotateRevoke, Start, Goto, Return, NoJob
  <2>5. ASSUME NEW k \in Keys, VerifyRotation(r, k) PROVE NonceInv'
    BY <2>5 DEF VerifyRotation, Start, Goto, Return, NoJob
  <2>6. ASSUME NEW k \in Keys, ExpireRead(r, k) PROVE NonceInv'
    BY <2>6 DEF ExpireRead, Start, Goto, Return, NoJob
  <2>7. ASSUME NEW k \in Keys, NEW immediate \in BOOLEAN,
              InitiateRotation(r, k, immediate)
       PROVE  NonceInv'
    BY <2>7 DEF InitiateRotation, Start, Goto, Return, NoJob
  <2>8. CASE InitiateMark(r)
    BY <2>8 DEF InitiateMark, Start, Goto, Return, NoJob
  <2>9. CASE InitiateLog(r)
    BY <2>9 DEF InitiateLog, Start, Goto, Return, NoJob
  <2>10. CASE VerifyRevoke(r)
    BY <2>10 DEF VerifyRevoke, Start, Goto, Return, NoJob
  <2>11. CASE VerifyLog(r)
    BY <2>11 DEF VerifyLog, Start, Goto, Return, NoJob
  <2>12. CASE ExpireWrite(r)
    BY <2>12 DEF ExpireWrite, Start, Goto, Return, NoJob
  <2>13. CASE CreateChallenge(r)
    BY <2>13 DEF CreateChallenge, Start, Goto, Return, NoJob
  <2>14. CASE ChallengeInsert(r)
    BY <2>14 DEF ChallengeInsert, Start, Goto, Return, NoJob
  <2>15. ASSUME NEW kind \in {"session", "popJwt", "assertion"}, NEW n \in Nonces, NEW k \in Keys,
              Present(r, kind, n, k)
       PROVE  NonceInv'
    BY <2>15 DEF Present, Start, Goto, Return, NoJob
  <2>16. CASE ReadKey(r)
    BY <2>16 DEF ReadKey, Start, Goto, Return, NoJob
  <2>17. CASE ConsumeNonce(r)
    BY <2>17, ConsumeKeepsNonce
  <2>18. CASE ReadAgent(r)
    BY <2>18 DEF ReadAgent, Start, Goto, Return, NoJob
  <2>19. CASE Grant(r)
    BY <2>19 DEF Grant, Start, Goto, Return, NoJob
  <2>20. CASE Abandon(r)
    BY <2>20 DEF Abandon, Start, Goto, Return, NoJob
  <2> QED BY <1>1, <2>1, <2>2, <2>3, <2>4, <2>5, <2>6, <2>7, <2>8, <2>9, <2>10, <2>11,
             <2>12, <2>13, <2>14, <2>15, <2>16, <2>17, <2>18, <2>19, <2>20
          DEF Act, KeyNext, AuthNext
<1>2. CASE RevokeAgent
  BY <1>2 DEF RevokeAgent, ActiveKeys
<1>3. CASE DeleteAgent
  BY <1>3 DEF DeleteAgent
<1>4. ASSUME NEW n \in Nonces, NonceLapses(n) PROVE NonceInv'
  BY <1>4 DEF NonceLapses
<1>5. CASE UNCHANGED keysVars
  BY <1>5 DEF keysVars
<1> QED BY <1>1, <1>2, <1>3, <1>4, <1>5, NextActs

-----------------------------------------------------------------------------
(* Grants are signed with keys that lived since the challenge *)

Presenting == {"key", "consume", "status", "grant"}

SignInv ==
  /\ \A n \in Nonces : signers[n] \subseteq usable[n]
  /\ \A n \in Nonces : nonce[n] = "none" => signers[n] = {}
  /\ \A n \in Nonces : nonce[n] # "none" => ActiveKeys \subseteq usable[n]
  /\ \A r \in Requests :
       /\ pc[r] \in Presenting => nonce[job[r].nonce] # "none"
       /\ pc[r] \in Presenting \ {"key"} => job[r].key \in usable[job[r].nonce]

LEMMA InsertKeepsSign ==
  ASSUME KeysTypeInv, SignInv, NEW r \in Requests, CreateInsert(r)
  PROVE  SignInv'
<1>1. /\ nonce' = nonce /\ signers' = signers
      /\ status' = [status EXCEPT ![count + 1] = "active"]
  BY DEF CreateInsert
<1>2. \A n \in Nonces : /\ usable[n] \subseteq usable'[n]
                        /\ nonce[n] # "none" => count + 1 \in usable'[n]
  BY DEF CreateInsert
<1>3. ActiveKeys' \subseteq ActiveKeys \union {count + 1}
  BY <1>1 DEF ActiveKeys, KeysTypeInv, KeysTypeOK, KeyRowsOK
<1>4. ASSUME NEW q \in Requests, pc'[q] \in Presenting
      PROVE  /\ pc'[q] = pc[q] /\ job'[q] = job[q]
             /\ job[q].nonce \in Nonces
  <2>1. pc'[q] = pc[q] /\ job'[q] = job[q]
    BY <1>4 DEF CreateInsert, Return, Presenting, KeysTypeInv, KeysTypeOK, RequestsOK
  <2> QED BY <1>4, <2>1 DEF Presenting, KeysTypeInv, Holds
<1>5. \A n \in Nonces : signers'[n] \subseteq usable'[n] /\ (nonce'[n] = "none" => signers'[n] = {})
  BY <1>1, <1>2 DEF SignInv
<1>6. \A n \in Nonces : nonce'[n] # "none" => ActiveKeys' \subseteq usable'[n]
  BY <1>1, <1>2, <1>3 DEF SignInv
<1>7. ASSUME NEW q \in Requests, pc'[q] \in Presenting
      PROVE  nonce'[job'[q].nonce] # "none"
  BY <1>1, <1>4, <1>7 DEF SignInv
<1>8. ASSUME NEW q \in Requests, pc'[q] \in Presenting \ {"key"}
      PROVE  job'[q].key \in usable'[job'[q].nonce]
  BY <1>2, <1>4, <1>8 DEF SignInv
<1> QED BY <1>5, <1>6, <1>7, <1>8 DEF SignInv

LEMMA SignStep == KeysTypeInv /\ SignInv /\ [KeysNext]_keysVars => SignInv'
<1> SUFFICES ASSUME KeysTypeInv /\ SignInv, [KeysNext]_keysVars PROVE SignInv'
  OBVIOUS
<1> USE KeysAssumption DEF KeysTypeInv, KeysTypeOK, KeyRowsOK, ChallengesOK, RequestsOK, Holds, SignInv,
    Presenting, ActiveKeys, Jobs, keyVars, nonceVars, requestVars
<1>1. ASSUME NEW r \in Requests, Act(r) PROVE SignInv'
  <2>1. ASSUME NEW kind \in {"add", "addForPurpose"}, AddKey(r, kind) PROVE SignInv'
    BY <2>1 DEF AddKey, Start, Goto, Return, NoJob
  <2>2. CASE CreatePurge(r)
    BY <2>2 DEF CreatePurge, Start, Goto, Return, NoJob
  <2>3. CASE CreateInsert(r)
    BY <2>3, InsertKeepsSign
  <2>4. ASSUME NEW k \in Keys, RotateRevoke(r, k) PROVE SignInv'
    BY <2>4 DEF RotateRevoke, Start, Goto, Return, NoJob
  <2>5. ASSUME NEW k \in Keys, VerifyRotation(r, k) PROVE SignInv'
    BY <2>5 DEF VerifyRotation, Start, Goto, Return, NoJob
  <2>6. ASSUME NEW k \in Keys, ExpireRead(r, k) PROVE SignInv'
    BY <2>6 DEF ExpireRead, Start, Goto, Return, NoJob
  <2>7. ASSUME NEW k \in Keys, NEW immediate \in BOOLEAN,
              InitiateRotation(r, k, immediate)
       PROVE  SignInv'
    BY <2>7 DEF InitiateRotation, Start, Goto, Return, NoJob
  <2>8. CASE InitiateMark(r)
    BY <2>8 DEF InitiateMark, Start, Goto, Return, NoJob
  <2>9. CASE InitiateLog(r)
    BY <2>9 DEF InitiateLog, Start, Goto, Return, NoJob
  <2>10. CASE VerifyRevoke(r)
    BY <2>10 DEF VerifyRevoke, Start, Goto, Return, NoJob
  <2>11. CASE VerifyLog(r)
    BY <2>11 DEF VerifyLog, Start, Goto, Return, NoJob
  <2>12. CASE ExpireWrite(r)
    BY <2>12 DEF ExpireWrite, Start, Goto, Return, NoJob
  <2>13. CASE CreateChallenge(r)
    BY <2>13 DEF CreateChallenge, Start, Goto, Return, NoJob
  <2>14. CASE ChallengeInsert(r)
    BY <2>14 DEF ChallengeInsert, Start, Goto, Return, NoJob
  <2>15. ASSUME NEW kind \in {"session", "popJwt", "assertion"}, NEW n \in Nonces, NEW k \in Keys,
              Present(r, kind, n, k)
       PROVE  SignInv'
    BY <2>15 DEF Present, Start, Goto, Return, NoJob
  <2>16. CASE ReadKey(r)
    BY <2>16 DEF ReadKey, Start, Goto, Return, NoJob
  <2>17. CASE ConsumeNonce(r)
    BY <2>17 DEF ConsumeNonce, Start, Goto, Return, NoJob
  <2>18. CASE ReadAgent(r)
    BY <2>18 DEF ReadAgent, Start, Goto, Return, NoJob
  <2>19. CASE Grant(r)
    BY <2>19 DEF Grant, Start, Goto, Return, NoJob
  <2>20. CASE Abandon(r)
    BY <2>20 DEF Abandon, Start, Goto, Return, NoJob
  <2> QED BY <1>1, <2>1, <2>2, <2>3, <2>4, <2>5, <2>6, <2>7, <2>8, <2>9, <2>10, <2>11,
             <2>12, <2>13, <2>14, <2>15, <2>16, <2>17, <2>18, <2>19, <2>20
          DEF Act, KeyNext, AuthNext
<1>2. CASE RevokeAgent
  BY <1>2 DEF RevokeAgent, ActiveKeys
<1>3. CASE DeleteAgent
  BY <1>3 DEF DeleteAgent
<1>4. ASSUME NEW n \in Nonces, NonceLapses(n) PROVE SignInv'
  BY <1>4 DEF NonceLapses
<1>5. CASE UNCHANGED keysVars
  BY <1>5 DEF keysVars
<1> QED BY <1>1, <1>2, <1>3, <1>4, <1>5, NextActs

-----------------------------------------------------------------------------
(* Locking the agent out *)

\* The newest key is active, or an expiry, an owner's rotation, a purge or the revocation
\* of the agent took it.
NewestAccounted ==
  \/ status[count] = "active" \/ agent = "revoked" \/ status[count] = "expired"
  \/ count \in stranded \/ \E r \in Requests : count \in job[r].took

\* A pending rotation replaces a key that is not the newest, and so does its verification.
LockInv ==
  /\ NewestAccounted
  /\ \A r \in Requests :
       /\ job[r].took # {} => pc[r] = "insert" /\ job[r].key = NoKey
       /\ pc[r] = "purge" => job[r].key = NoKey
  /\ \A k \in Keys : log[k].stage = "pending" => log[k].old < count
  /\ \A r \in Requests : pc[r] = "verify_revoke" => job[r].key < count

LEMMA LockStep == KeysTypeInv /\ LockInv /\ [KeysNext]_keysVars => LockInv'
<1> SUFFICES ASSUME KeysTypeInv /\ LockInv, [KeysNext]_keysVars PROVE LockInv'
  OBVIOUS
<1> USE KeysAssumption DEF KeysTypeInv, KeysTypeOK, KeyRowsOK, RequestsOK, Inserted, Holds, LockInv,
    Keys, NoKey, Jobs, ActiveKeys, NewestAccounted,
    keyVars, nonceVars, requestVars
<1>1. ASSUME NEW r \in Requests, Act(r) PROVE LockInv'
  <2>1. ASSUME NEW kind \in {"add", "addForPurpose"}, AddKey(r, kind) PROVE LockInv'
    <3>1. /\ pc[r] = "idle" /\ pc'[r] \in {"insert", "purge"}
          /\ job'[r].took = {} /\ job'[r].key = NoKey
      <4>1. CASE kind = "add"
        BY <2>1, <4>1 DEF AddKey, Start, NoJob
      <4>2. CASE kind # "add"
        BY <2>1, <4>2 DEF AddKey, Start, NoJob
      <4> QED BY <4>1, <4>2
    <3>2. \A q \in Requests \ {r} : pc'[q] = pc[q] /\ job'[q] = job[q]
      BY <2>1 DEF AddKey, Start
    <3>3. UNCHANGED <<count, status, log, agent, stranded>> /\ job[r].took = {}
      BY <2>1, <3>1 DEF AddKey
    <3>4. NewestAccounted'
      BY <3>2, <3>3
    <3>5. ASSUME NEW q \in Requests
          PROVE  /\ pc'[q] = "verify_revoke" => job'[q].key < count'
                 /\ job'[q].took # {} => pc'[q] = "insert" /\ job'[q].key = NoKey
                 /\ pc'[q] = "purge" => job'[q].key = NoKey
      <4>1. CASE q = r
        BY <3>1, <4>1
      <4>2. CASE q # r
        BY <3>2, <3>3, <4>2
      <4> QED BY <4>1, <4>2
    <3> QED BY <3>3, <3>4, <3>5
  <2>2. CASE CreatePurge(r)
    <3>1. /\ count' = count /\ log' = log /\ agent' = agent /\ stranded' = stranded
          /\ pc[r] = "purge" /\ pc' = [pc EXCEPT ![r] = "insert"]
          /\ job' = [job EXCEPT ![r].took = purposeful \intersect ActiveKeys \intersect {count}]
          /\ status' = [k \in Keys |-> IF k \in purposeful \intersect ActiveKeys
                                       THEN "revoked" ELSE status[k]]
      BY <2>2 DEF CreatePurge
    <3>2. job[r].took = {} /\ job[r].key = NoKey
      BY <3>1
    <3>3. /\ job'[r].took = purposeful \intersect ActiveKeys \intersect {count}
          /\ job'[r].key = NoKey
      BY <3>1, <3>2
    <3>4. \A q \in Requests \ {r} : job'[q] = job[q]
      BY <3>1
    <3>5. NewestAccounted'
      <4>1. CASE count \in purposeful \intersect ActiveKeys
        BY <3>1, <3>3, <4>1
      <4>2. CASE count \notin purposeful \intersect ActiveKeys
        <5>1. count \in Keys => status'[count] = status[count]
          BY <3>1, <4>2
        <5>2. \A q \in Requests : count \in job[q].took => count \in job'[q].took
          BY <3>2, <3>4
        <5>3. count \in Keys
          OBVIOUS
        <5> QED BY <3>1, <5>1, <5>2, <5>3
      <4> QED BY <4>1, <4>2
    <3>6. ASSUME NEW q \in Requests
          PROVE  /\ pc'[q] = "verify_revoke" => job'[q].key < count'
                 /\ job'[q].took # {} => pc'[q] = "insert" /\ job'[q].key = NoKey
                 /\ pc'[q] = "purge" => job'[q].key = NoKey
      BY <3>1, <3>3, <3>4
    <3> QED BY <3>1, <3>5, <3>6
  <2>3. CASE CreateInsert(r)
    <3>1. /\ count + 1 \in Keys /\ count' = count + 1 /\ status'[count + 1] = "active"
          /\ log' = log
      BY <2>3 DEF CreateInsert
    <3>2. \A q \in Requests \ {r} : pc'[q] = pc[q] /\ job'[q] = job[q]
      BY <2>3 DEF CreateInsert, Return
    <3>3. \/ pc'[r] = "idle" /\ job'[r].took = {}
          \/ pc'[r] = "mark" /\ job'[r].took = job[r].took /\ job[r].key # NoKey
      BY <2>3 DEF CreateInsert, Return, NoJob
    <3>4. \A q \in Requests : job[q].key \in Nat
      OBVIOUS
    <3>8. job[r].key # NoKey => job[r].took = {}
      OBVIOUS
    <3>5. \A k \in Keys : log'[k].stage = "pending" => log'[k].old < count'
      BY <3>1
    <3>6. ASSUME NEW q \in Requests
          PROVE  /\ pc'[q] = "verify_revoke" => job'[q].key < count'
                 /\ job'[q].took # {} => pc'[q] = "insert" /\ job'[q].key = NoKey
                 /\ pc'[q] = "purge" => job'[q].key = NoKey
      <4>1. CASE q = r
        BY <3>3, <3>8, <4>1
      <4>2. CASE q # r
        <5>1. pc'[q] = pc[q] /\ job'[q] = job[q]
          BY <3>2, <4>2
        <5> QED BY <3>1, <3>4, <5>1
      <4> QED BY <4>1, <4>2
    <3> QED BY <3>1, <3>5, <3>6
  <2>4. ASSUME NEW k \in Keys, RotateRevoke(r, k) PROVE LockInv'
    <3>1. /\ count' = count /\ log' = log /\ agent' = agent /\ stranded' = stranded
          /\ status' = [status EXCEPT ![k] = "revoked"]
          /\ pc[r] = "idle" /\ pc' = [pc EXCEPT ![r] = "insert"]
      BY <2>4 DEF RotateRevoke, Start
    <3>2. \A q \in Requests \ {r} : job'[q] = job[q]
      BY <2>4 DEF RotateRevoke, Start
    <3>3. job'[r].took = {k} \intersect {count} /\ job'[r].key = NoKey
      BY <2>4 DEF RotateRevoke, Start, NoJob
    <3>4. job[r].took = {}
      BY <3>1
    <3>5. NewestAccounted'
      <4>1. CASE k = count
        <5>1. count' \in job'[r].took
          BY <3>1, <3>3, <4>1
        <5> QED BY <5>1
      <4>2. CASE k # count
        <5>1. status'[count'] = status[count]
          BY <3>1, <4>2
        <5>2. ASSUME NEW q \in Requests, count \in job[q].took
              PROVE  count' \in job'[q].took
          BY <3>1, <3>2, <3>4, <5>2
        <5> QED BY <3>1, <5>1, <5>2
      <4> QED BY <4>1, <4>2
    <3>6. ASSUME NEW q \in Requests
          PROVE  /\ pc'[q] = "verify_revoke" => job'[q].key < count'
                 /\ job'[q].took # {} => pc'[q] = "insert" /\ job'[q].key = NoKey
                 /\ pc'[q] = "purge" => job'[q].key = NoKey
      <4>1. CASE q = r
        BY <3>1, <3>3, <4>1
      <4>2. CASE q # r
        BY <3>1, <3>2, <4>2
      <4> QED BY <4>1, <4>2
    <3> QED BY <3>1, <3>5, <3>6
  <2>5. ASSUME NEW k \in Keys, VerifyRotation(r, k) PROVE LockInv'
    BY <2>5 DEF VerifyRotation, Start, Goto, Return, NoJob
  <2>6. ASSUME NEW k \in Keys, ExpireRead(r, k) PROVE LockInv'
    BY <2>6 DEF ExpireRead, Start, Goto, Return, NoJob
  <2>7. ASSUME NEW k \in Keys, NEW immediate \in BOOLEAN,
              InitiateRotation(r, k, immediate)
       PROVE  LockInv'
    BY <2>7 DEF InitiateRotation, Start, Goto, Return, NoJob
  <2>8. CASE InitiateMark(r)
    BY <2>8 DEF InitiateMark, Start, Goto, Return, NoJob
  <2>9. CASE InitiateLog(r)
    <3>1. /\ count' = count /\ status' = status /\ agent' = agent /\ stranded' = stranded
          /\ pc[r] = "log" /\ pc' = [pc EXCEPT ![r] = "idle"]
          /\ job' = [job EXCEPT ![r] = NoJob]
      BY <2>9 DEF InitiateLog, Return
    <3>2. job[r].took = {} /\ job'[r].took = {}
      BY <3>1 DEF NoJob
    <3>3. job[r].key < count
      BY <3>1
    <3>4. \A k \in Keys : log'[k].stage = "pending" => log'[k].old < count
      BY <2>9, <3>3 DEF InitiateLog
    <3> QED BY <3>1, <3>2, <3>4
  <2>10. CASE VerifyRevoke(r)
    BY <2>10 DEF VerifyRevoke, Start, Goto, Return, NoJob
  <2>11. CASE VerifyLog(r)
    BY <2>11 DEF VerifyLog, Start, Goto, Return, NoJob
  <2>12. CASE ExpireWrite(r)
    <3>1. /\ count' = count /\ log' = log /\ agent' = agent /\ stranded' = stranded
          /\ status' = [status EXCEPT ![job[r].key] = "expired"]
          /\ pc[r] = "expire" /\ pc' = [pc EXCEPT ![r] = "idle"]
          /\ job' = [job EXCEPT ![r] = NoJob]
      BY <2>12 DEF ExpireWrite, Return
    <3>2. job[r].took = {} /\ job'[r].took = {}
      BY <3>1 DEF NoJob
    <3>3. NewestAccounted'
      BY <3>1, <3>2
    <3> QED BY <3>1, <3>2, <3>3
  <2>13. CASE CreateChallenge(r)
    BY <2>13 DEF CreateChallenge, Start, Goto, Return, NoJob
  <2>14. CASE ChallengeInsert(r)
    BY <2>14 DEF ChallengeInsert, Start, Goto, Return, NoJob
  <2>15. ASSUME NEW kind \in {"session", "popJwt", "assertion"}, NEW n \in Nonces, NEW k \in Keys,
              Present(r, kind, n, k)
       PROVE  LockInv'
    BY <2>15 DEF Present, Start, Goto, Return, NoJob
  <2>16. CASE ReadKey(r)
    BY <2>16 DEF ReadKey, Start, Goto, Return, NoJob
  <2>17. CASE ConsumeNonce(r)
    BY <2>17 DEF ConsumeNonce, Start, Goto, Return, NoJob
  <2>18. CASE ReadAgent(r)
    BY <2>18 DEF ReadAgent, Start, Goto, Return, NoJob
  <2>19. CASE Grant(r)
    BY <2>19 DEF Grant, Start, Goto, Return, NoJob
  <2>20. CASE Abandon(r)
    BY <2>20 DEF Abandon, Start, Goto, Return, NoJob
  <2> QED BY <1>1, <2>1, <2>2, <2>3, <2>4, <2>5, <2>6, <2>7, <2>8, <2>9, <2>10, <2>11,
             <2>12, <2>13, <2>14, <2>15, <2>16, <2>17, <2>18, <2>19, <2>20
          DEF Act, KeyNext, AuthNext
<1>2. CASE RevokeAgent
  BY <1>2 DEF RevokeAgent, ActiveKeys
<1>3. CASE DeleteAgent
  BY <1>3 DEF DeleteAgent
<1>4. ASSUME NEW n \in Nonces, NonceLapses(n) PROVE LockInv'
  BY <1>4 DEF NonceLapses
<1>5. CASE UNCHANGED keysVars
  BY <1>5 DEF keysVars
<1> QED BY <1>1, <1>2, <1>3, <1>4, <1>5, NextActs

-----------------------------------------------------------------------------
(* The theorems *)

KeysInv == KeysTypeInv /\ NonceInv /\ SignInv /\ LockInv

LEMMA KeysInvInit == KeysInit => KeysInv
<1> SUFFICES ASSUME KeysInit PROVE KeysInv
  OBVIOUS
<1>1. KeysTypeInv
  BY KeysTypeInit
<1>2. NonceInv /\ SignInv
  BY DEF KeysInit, NonceInv, SignInv, Granting, Presenting
<1>3. LockInv
  BY KeysAssumption DEF KeysInit, LockInv, NewestAccounted, NoKey, NoJob, Keys
<1> QED BY <1>1, <1>2, <1>3 DEF KeysInv

LEMMA KeysInvStep == KeysInv /\ [KeysNext]_keysVars => KeysInv'
  BY KeysTypeStep, NonceStep, SignStep, LockStep DEF KeysInv

\* The inductive invariant: what each request read of keys and challenges still binds them.
THEOREM KeysInvariant == KeysSpec => []KeysInv
  BY KeysInvInit, KeysInvStep, PTL DEF KeysSpec

\* A challenge is exchanged once, for any number of answers in the three services.
THEOREM NonceGrantedOnce == KeysSpec => []OneGrantPerNonce
<1>1. KeysInv => OneGrantPerNonce
  BY DEF KeysInv, NonceInv, OneGrantPerNonce
<1> QED BY <1>1, KeysInvariant, PTL

\* A key that was gone when the challenge was created signs nothing for it.
THEOREM SignedByLiveKeys == KeysSpec => []SignedSinceChallenge
<1>1. KeysInv => SignedSinceChallenge
  BY DEF KeysInv, SignInv, SignedSinceChallenge
<1> QED BY <1>1, KeysInvariant, PTL

\* The agent is locked out only by the causes LockOutHasCause names, for any number of
\* rotations, purges and verifications that overlap or die.
THEOREM LockedOutForCause == KeysSpec => []LockOutHasCause
<1>1. KeysInv => LockOutHasCause
  <2> SUFFICES ASSUME KeysInv, ActiveKeys = {}
               PROVE  \/ agent = "revoked" \/ status[count] = "expired"
                      \/ count \in stranded \/ \E r \in Requests : count \in job[r].took
    BY DEF LockOutHasCause
  <2>1. count \in Keys
    BY DEF KeysInv, KeysTypeInv, KeysTypeOK, KeyRowsOK, Inserted, Keys
  <2>2. status[count] # "active"
    BY <2>1 DEF ActiveKeys
  <2> QED BY <2>2 DEF KeysInv, LockInv, NewestAccounted
<1> QED BY <1>1, KeysInvariant, PTL
=============================================================================
