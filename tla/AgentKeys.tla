------------------------------- MODULE AgentKeys -------------------------------
(***************************************************************************)
(* The signing keys of one agent and the challenges they answer:            *)
(* services/agent-keys.ts and its routes, the key expiry of                  *)
(* workers/trust-recalculation.ts, the admin revocation of the agent, and     *)
(* the three places that consume a nonce: a session (auth-session.ts), a      *)
(* proof-of-possession JWT (agent-auth.ts), a signed assertion (oauth.ts).    *)
(* Requests are slots; each action is one statement or one transaction.      *)
(***************************************************************************)
EXTENDS Naturals, FiniteSets

CONSTANTS
  Requests,   \* slots of requests served at the same time
  MaxKeys,    \* keys ever inserted for the agent
  Nonces,     \* challenges ever created for the agent
  Kinds       \* the requests that arrive

AllKinds == {"add", "addForPurpose", "rotate", "initiate", "verify", "session", "popJwt",
             "assertion", "expiry", "revokeAgent", "deleteAgent"}

ASSUME KeysAssumption == MaxKeys \in Nat \ {0} /\ Kinds \subseteq AllKinds

Keys == 1..MaxKeys     \* in the order of their insertion

VARIABLES
  count,       \* keys inserted so far
  status,      \* of each key
  purposeful,  \* keys inserted for the purpose
  log,         \* the rotation log entry of each new key: the old key, and its status
  agent,       \* the agent's status
  stranded,    \* history: the newest key, if a request revoked it and ended before it
               \* inserted another
  nonce,       \* each challenge
  usable,      \* history: the keys that were active at some time since the challenge
  grants,      \* history: sessions, tokens and requests granted for the challenge
  signers,     \* history: the keys they were signed with
  pc, job      \* where each request is, and what it works on

keyVars   == <<count, status, purposeful, log, agent, stranded>>
nonceVars == <<nonce, usable, grants, signers>>
requestVars == <<pc, job>>
keysVars  == <<keyVars, nonceVars, requestVars>>

NoKey == 0

\* took is history: the newest key, if the request revoked it and is to insert another.
Jobs == [key : 0..MaxKeys, new : 0..MaxKeys, purpose : BOOLEAN, immediate : BOOLEAN,
         nonce : Nonces \union {"none"}, took : SUBSET Keys]
NoJob == [key |-> NoKey, new |-> NoKey, purpose |-> FALSE, immediate |-> FALSE,
          nonce |-> "none", took |-> {}]

Points == {"idle", "purge", "insert", "mark", "log", "verify_revoke", "verify_log",
           "expire", "challenge", "key", "consume", "status", "grant"}

KeyRowsOK ==
  /\ count \in 0..MaxKeys
  /\ status \in [Keys -> {"none", "active", "rotating", "revoked", "expired"}]
  /\ purposeful \subseteq Keys
  /\ log \in [Keys -> [old : 0..MaxKeys, stage : {"none", "pending", "verified"}]]
  /\ agent \in {"active", "revoked"} /\ stranded \subseteq Keys

ChallengesOK ==
  /\ nonce \in [Nonces -> {"none", "open", "consumed", "lapsed"}]
  /\ usable \in [Nonces -> SUBSET Keys] /\ grants \in [Nonces -> Nat]
  /\ signers \in [Nonces -> SUBSET Keys]

RequestsOK == pc \in [Requests -> Points] /\ job \in [Requests -> Jobs]

KeysTypeOK == KeyRowsOK /\ ChallengesOK /\ RequestsOK

\* The bootstrap of the agent inserted its first key.
KeysInit ==
  /\ count = 1 /\ status = [k \in Keys |-> IF k = 1 THEN "active" ELSE "none"]
  /\ purposeful = {}
  /\ log = [k \in Keys |-> [old |-> NoKey, stage |-> "none"]]
  /\ agent = "active" /\ stranded = {}
  /\ nonce = [n \in Nonces |-> "none"] /\ usable = [n \in Nonces |-> {}]
  /\ grants = [n \in Nonces |-> 0] /\ signers = [n \in Nonces |-> {}]
  /\ pc = [r \in Requests |-> "idle"] /\ job = [r \in Requests |-> NoJob]

ActiveKeys == {k \in Keys : status[k] = "active"}

\* Request r begins with job j at a point of its handler, goes on, and returns.
Start(r, to, j) ==
  pc[r] = "idle" /\ pc' = [pc EXCEPT ![r] = to] /\ job' = [job EXCEPT ![r] = j]

Goto(r, from, to) == pc[r] = from /\ pc' = [pc EXCEPT ![r] = to] /\ job' = job

Return(r) == pc' = [pc EXCEPT ![r] = "idle"] /\ job' = [job EXCEPT ![r] = NoJob]

\* The server dies, the database fails, or a test of the handler refuses the request.
Abandon(r) ==
  /\ pc[r] # "idle" /\ Return(r)
  /\ stranded' = stranded \union (job[r].took \intersect {count})
  /\ UNCHANGED <<count, status, purposeful, log, agent, nonceVars>>

-----------------------------------------------------------------------------
(* Adding and replacing keys *)

\* POST keys, by the agent, with or without a purpose.
AddKey(r, kind) ==
  /\ kind \in Kinds /\ agent = "active"
  /\ IF kind = "add" THEN Start(r, "insert", NoJob)
                     ELSE Start(r, "purge", [NoJob EXCEPT !.purpose = TRUE])
  /\ UNCHANGED <<keyVars, nonceVars>>

\* createAgentKey revokes the active keys of the purpose ...
CreatePurge(r) ==
  /\ pc[r] = "purge" /\ pc' = [pc EXCEPT ![r] = "insert"]
  /\ job' = [job EXCEPT ![r].took = purposeful \intersect ActiveKeys \intersect {count}]
  /\ status' = [k \in Keys |-> IF k \in purposeful \intersect ActiveKeys
                               THEN "revoked" ELSE status[k]]
  /\ UNCHANGED <<count, purposeful, log, agent, stranded, nonceVars>>

\* ... and inserts the key.
CreateInsert(r) ==
  LET k == count + 1
  IN /\ pc[r] = "insert" /\ count < MaxKeys
     /\ IF job[r].key = NoKey THEN Return(r)
        ELSE pc' = [pc EXCEPT ![r] = "mark"] /\ job' = [job EXCEPT ![r].new = k]
     /\ count' = k /\ status' = [status EXCEPT ![k] = "active"]
     /\ purposeful' = IF job[r].purpose THEN purposeful \union {k} ELSE purposeful
     /\ usable' = [n \in Nonces |-> IF nonce[n] = "none" THEN usable[n]
                                                         ELSE usable[n] \union {k}]
     /\ stranded' = {}
     /\ UNCHANGED <<log, agent, nonce, grants, signers>>

\* rotateAgentKey, by the owner: the old key is revoked if it is active, a new one follows.
RotateRevoke(r, k) ==
  /\ "rotate" \in Kinds /\ status[k] = "active"
  /\ Start(r, "insert", [NoJob EXCEPT !.took = {k} \intersect {count}])
  /\ status' = [status EXCEPT ![k] = "revoked"]
  /\ UNCHANGED <<count, purposeful, log, agent, stranded, nonceVars>>

\* Seeded fault: the old key is marked before the new one is inserted.
InitiateMarksFirst(r, k, immediate) ==
  /\ "initiate" \in Kinds /\ agent = "active" /\ status[k] = "active"
  /\ Start(r, "mark", [NoJob EXCEPT !.key = k, !.immediate = immediate])
  /\ UNCHANGED <<keyVars, nonceVars>>

\* initiateKeyRotation, by the agent: the old key is read, the new one is inserted,
InitiateRotation(r, k, immediate) ==
  /\ "initiate" \in Kinds /\ agent = "active" /\ status[k] = "active"
  /\ Start(r, "insert", [NoJob EXCEPT !.key = k, !.immediate = immediate])
  /\ UNCHANGED <<keyVars, nonceVars>>

\* the old key is written by its id, whatever its status has become,
InitiateMark(r) ==
  LET old == job[r].key
  IN /\ Goto(r, "mark", "log")
     /\ status' = [status EXCEPT ![old] = IF job[r].immediate THEN "revoked" ELSE "rotating"]
     /\ UNCHANGED <<count, purposeful, log, agent, stranded, nonceVars>>

\* and the rotation is logged.
InitiateLog(r) ==
  /\ pc[r] = "log" /\ Return(r)
  /\ log' = [log EXCEPT ![job[r].new] =
               [old |-> job[r].key, stage |-> IF job[r].immediate THEN "verified" ELSE "pending"]]
  /\ UNCHANGED <<count, status, purposeful, agent, stranded, nonceVars>>

\* verifyKeyRotation finds a pending entry, revokes its old key, and closes the entry.
VerifyRotation(r, k) ==
  /\ "verify" \in Kinds /\ agent = "active" /\ log[k].stage = "pending"
  /\ Start(r, "verify_revoke", [NoJob EXCEPT !.key = log[k].old, !.new = k])
  /\ UNCHANGED <<keyVars, nonceVars>>

VerifyRevoke(r) ==
  /\ Goto(r, "verify_revoke", "verify_log")
  /\ status' = [status EXCEPT ![job[r].key] = "revoked"]
  /\ UNCHANGED <<count, purposeful, log, agent, stranded, nonceVars>>

\* Seeded fault: an entry is closed under a status the log does not have.
VerifyLogCloses(r) ==
  /\ pc[r] = "verify_log" /\ Return(r)
  /\ log' = [log EXCEPT ![job[r].new].stage = "closed"]
  /\ UNCHANGED <<count, status, purposeful, agent, stranded, nonceVars>>

VerifyLog(r) ==
  /\ pc[r] = "verify_log" /\ Return(r)
  /\ log' = [log EXCEPT ![job[r].new].stage = "verified"]
  /\ UNCHANGED <<count, status, purposeful, agent, stranded, nonceVars>>

-----------------------------------------------------------------------------
(* Losing keys: expiry, and the revocation of the agent *)

\* expireOverdueKeys reads the active keys whose expiresAt has passed, and writes each by
\* its id; a pass over several keys is as many slots.
ExpireRead(r, k) ==
  /\ "expiry" \in Kinds /\ status[k] = "active"
  /\ Start(r, "expire", [NoJob EXCEPT !.key = k])
  /\ UNCHANGED <<keyVars, nonceVars>>

ExpireWrite(r) ==
  /\ pc[r] = "expire" /\ Return(r)
  /\ status' = [status EXCEPT ![job[r].key] = "expired"]
  /\ UNCHANGED <<count, purposeful, log, agent, stranded, nonceVars>>

\* POST admin/agents/:id/revoke, one transaction.
RevokeAgent ==
  /\ "revokeAgent" \in Kinds
  /\ agent' = "revoked"
  /\ status' = [k \in Keys |-> IF k \in ActiveKeys THEN "revoked" ELSE status[k]]
  /\ UNCHANGED <<count, purposeful, log, stranded, nonceVars, requestVars>>

\* DELETE agents/:id and the shutdown revoke the agent and leave its keys.
DeleteAgent ==
  /\ "deleteAgent" \in Kinds /\ agent # "revoked"
  /\ agent' = "revoked"
  /\ UNCHANGED <<count, status, purposeful, log, stranded, nonceVars, requestVars>>

KeyNext(r) ==
  \/ \E kind \in {"add", "addForPurpose"} : AddKey(r, kind)
  \/ CreatePurge(r) \/ CreateInsert(r)
  \/ \E k \in Keys : RotateRevoke(r, k) \/ VerifyRotation(r, k) \/ ExpireRead(r, k)
  \/ \E k \in Keys, immediate \in BOOLEAN : InitiateRotation(r, k, immediate)
  \/ InitiateMark(r) \/ InitiateLog(r) \/ VerifyRevoke(r) \/ VerifyLog(r)
  \/ ExpireWrite(r)

-----------------------------------------------------------------------------
(* Challenges and what they are exchanged for *)

\* createAuthChallenge reads the agent ...
CreateChallenge(r) ==
  /\ agent = "active"
  /\ Start(r, "challenge", NoJob)
  /\ UNCHANGED <<keyVars, nonceVars>>

\* ... and inserts the nonce.
ChallengeInsert(r) ==
  /\ pc[r] = "challenge" /\ Return(r)
  /\ \E n \in Nonces :
       /\ nonce[n] = "none"
       /\ nonce' = [nonce EXCEPT ![n] = "open"]
       /\ usable' = [usable EXCEPT ![n] = ActiveKeys]
  /\ UNCHANGED <<keyVars, grants, signers>>

NonceLapses(n) ==
  /\ nonce[n] = "open"
  /\ nonce' = [nonce EXCEPT ![n] = "lapsed"]
  /\ UNCHANGED <<keyVars, usable, grants, signers, requestVars>>

\* A client presents challenge n signed with key k.  verifyAndIssueSession reads the
\* nonce first; the other two find out when they consume it.
Present(r, kind, n, k) ==
  /\ kind \in Kinds /\ nonce[n] # "none" /\ k <= count
  /\ kind = "session" => nonce[n] = "open"
  /\ Start(r, "key", [NoJob EXCEPT !.key = k, !.nonce = n])
  /\ UNCHANGED <<keyVars, nonceVars>>

\* Seeded fault: the key is found by its kid alone.
ReadKeyAnyStatus(r) ==
  /\ Goto(r, "key", "consume")
  /\ UNCHANGED <<keyVars, nonceVars>>

\* The key must be active; its signature is verified.
ReadKey(r) ==
  /\ Goto(r, "key", "consume")
  /\ status[job[r].key] = "active"
  /\ UNCHANGED <<keyVars, nonceVars>>

\* Seeded fault: the UPDATE names the nonce only.
ConsumeNonceBlind(r) ==
  /\ Goto(r, "consume", "status")
  /\ nonce' = [nonce EXCEPT ![job[r].nonce] = "consumed"]
  /\ UNCHANGED <<keyVars, usable, grants, signers>>

\* The nonce is consumed if it is neither consumed nor lapsed.
ConsumeNonce(r) ==
  /\ Goto(r, "consume", "status")
  /\ nonce[job[r].nonce] = "open"
  /\ nonce' = [nonce EXCEPT ![job[r].nonce] = "consumed"]
  /\ UNCHANGED <<keyVars, usable, grants, signers>>

\* The agent must be eligible ...
ReadAgent(r) ==
  /\ agent = "active"
  /\ Goto(r, "status", "grant")
  /\ UNCHANGED <<keyVars, nonceVars>>

\* ... and gets its session, its tokens, or its request served.
Grant(r) ==
  /\ pc[r] = "grant" /\ Return(r)
  /\ grants' = [grants EXCEPT ![job[r].nonce] = @ + 1]
  /\ signers' = [signers EXCEPT ![job[r].nonce] = @ \union {job[r].key}]
  /\ UNCHANGED <<keyVars, nonce, usable>>

AuthNext(r) ==
  \/ CreateChallenge(r) \/ ChallengeInsert(r)
  \/ \E kind \in {"session", "popJwt", "assertion"}, n \in Nonces, k \in Keys :
       Present(r, kind, n, k)
  \/ ReadKey(r) \/ ConsumeNonce(r) \/ ReadAgent(r) \/ Grant(r)

KeysNext ==
  \/ \E r \in Requests : KeyNext(r) \/ AuthNext(r) \/ Abandon(r)
  \/ RevokeAgent \/ DeleteAgent
  \/ \E n \in Nonces : NonceLapses(n)

KeysSpec == KeysInit /\ [][KeysNext]_keysVars

-----------------------------------------------------------------------------
(* What keys and challenges promise *)

\* A challenge is exchanged at most once, although three handlers in three services
\* consume it and each reads the key before and the agent after.
OneGrantPerNonce == \A n \in Nonces : grants[n] <= 1

\* Every grant was signed with a key that was active at some time since the challenge
\* was created: a key that was gone by then is refused, however late requests run.
SignedSinceChallenge == \A n \in Nonces : signers[n] \subseteq usable[n]

\* Without an active key the agent can sign for no challenge, nor call the routes that
\* add or verify keys.  An active agent comes to that only when the newest key expired, or
\* was revoked, by an owner's rotation or by a purge, in a request that is still to insert
\* another key or that died before it did (rotateAgentKey and createAgentKey revoke first).
\* Rotations the agent initiates or verifies never cause it, however they overlap, overwrite
\* a status by the key's id or are cut short.
LockOutHasCause ==
  ActiveKeys = {} =>
    \/ agent = "revoked" \/ status[count] = "expired"
    \/ count \in stranded \/ \E r \in Requests : count \in job[r].took

-----------------------------------------------------------------------------
(* What a reader may expect and the code does not do *)

\* "agent status and key revocation are always consistent": a revoked agent has no
\* active key.
RevokedAgentHasNoKey == agent = "revoked" => ActiveKeys = {}

\* "Key rotation verified. Old key has been revoked."
VerifiedOldKeyRevoked ==
  \A k \in Keys : log[k].stage = "verified" => status[log[k].old] # "rotating"
=============================================================================
