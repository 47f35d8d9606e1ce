---------------------------- MODULE DeliveryProofs ----------------------------
(***************************************************************************)
(* Type correctness and the safety of WebhookDelivery, for any workers,      *)
(* deliveries, limits and number of faults.                                  *)
(***************************************************************************)
EXTENDS WebhookDelivery, TLAPS

\* The action of a worker, its own choices resolved.
Act(w) ==
  \/ \E d \in Deliveries : DeliverEvent(w, d) \/ RetryDelivery(w, d)
  \/ InsertDelivery(w) \/ RetryPass(w) \/ DropDelivery(w) \/ EndPass(w) \/ SendAnswered(w)
  \/ \E caught \in BOOLEAN : SendMissed(w, caught)
  \/ MarkDelivered(w) \/ ResetFailures(w) \/ CountAttempt(w) \/ ReadAttempts(w)
  \/ ScheduleRetry(w) \/ TallyFailure(w) \/ StatementFails(w) \/ WorkerStops(w)

LEMMA NextActs ==
  ASSUME Next
  PROVE  \/ \E w \in Workers : Act(w)
         \/ \E d \in Deliveries : RetryComesDue(d)
  BY DEF Next, Act, WorkerStep

-----------------------------------------------------------------------------
(* Type correctness *)

\* A worker between the insert and the end of an attempt has a delivery.
Held == \A w \in Workers : at[w] \notin {"idle", "next"} => work[w].d \in Deliveries

TypeInv == TypeOK /\ Held

LEMMA NoWorkTyped == NoWork \in Works
  BY DEF NoWork, Works

\* The end of an attempt leaves the worker typed.
LEMMA DoneTyped ==
  ASSUME TypeInv, NEW w \in Workers, Done(w)
  PROVE  /\ at' \in [Workers -> {"idle", "insert", "next", "drop", "send", "deliver", "reset",
                                 "count", "read", "schedule", "tally"}]
         /\ work' \in [Workers -> Works]
         /\ Held'
<1> USE DEF TypeInv, TypeOK, Held
<1>1. [NoWork EXCEPT !.rest = work[w].rest] \in Works
  BY DEF Works, NoWork
<1>2. CASE work[w].stale = 0
  BY <1>2, NoWorkTyped DEF Done
<1>3. CASE work[w].stale # 0
  BY <1>1, <1>3 DEF Done
<1> QED BY <1>2, <1>3

\* A worker that enters the catch block, or stays out of it, holds what it held.
CaughtTyped(w, c) ==
  /\ [work EXCEPT ![w].caught = c] \in [Workers -> Works]
  /\ \A v \in Workers : [work EXCEPT ![w].caught = c][v].d = work[v].d

LEMMA CaughtLemma ==
  ASSUME TypeInv, NEW w \in Workers, NEW c \in BOOLEAN
  PROVE  CaughtTyped(w, c)
<1> USE DEF TypeInv, TypeOK
<1>1. [work[w] EXCEPT !.caught = c] \in Works
  BY Zenon DEF Works
<1> QED BY <1>1 DEF CaughtTyped, Works

LEMMA TypeStep == TypeInv /\ [Next]_vars => TypeInv'
<1> SUFFICES ASSUME TypeInv, [Next]_vars PROVE TypeInv'
  OBVIOUS
<1> USE DeliveryAssumption DEF TypeInv, TypeOK, Held, Goto, webhookVars, deliveryVars, endpointVars, workerVars
<1>1. ASSUME NEW w \in Workers, Act(w) PROVE TypeInv'
  <2>1. ASSUME NEW d \in Deliveries, DeliverEvent(w, d) PROVE TypeInv'
    <3>1. [work[w] EXCEPT !.d = d, !.failures = consecutiveFailures] \in Works
      BY DEF Works
    <3>2. work' = [work EXCEPT ![w] = [@ EXCEPT !.d = d, !.failures = consecutiveFailures]]
      BY <2>1 DEF DeliverEvent, Works
    <3>3. work' \in [Workers -> Works]
      BY <3>1, <3>2
    <3>4. \A v \in Workers : at'[v] \notin {"idle", "next"} => work'[v].d \in Deliveries
      BY <2>1, <3>2 DEF DeliverEvent, Works
    <3> QED BY <2>1, <3>3, <3>4 DEF DeliverEvent
  <2>2. ASSUME NEW d \in Deliveries, RetryDelivery(w, d) PROVE TypeInv'
    <3>1. [NoWork EXCEPT !.d = d, !.stale = work[w].rest[d],
                         !.rest = [work[w].rest EXCEPT ![d] = 0],
                         !.failures = consecutiveFailures] \in Works
      BY DEF Works, NoWork
    <3> QED BY <2>2, <3>1 DEF RetryDelivery, Works, NoWork
  <2>3. CASE InsertDelivery(w)
    BY <2>3 DEF InsertDelivery, Works
  <2>4. CASE RetryPass(w)
    <3>1. [work[w] EXCEPT !.rest = [d \in Deliveries |-> IF RetryIsDue(d) THEN attempts[d] ELSE 0]]
            \in Works
      BY DEF Works
    <3> QED BY <2>4, <3>1 DEF RetryPass
  <2>5. CASE DropDelivery(w)
    BY <2>5, DoneTyped DEF DropDelivery
  <2>6. CASE EndPass(w)
    BY <2>6, NoWorkTyped DEF EndPass
  <2>7. CASE SendAnswered(w)
    BY <2>7 DEF SendAnswered, Works
  <2>8. ASSUME NEW caught \in BOOLEAN, SendMissed(w, caught) PROVE TypeInv'
    <3>1. CaughtTyped(w, caught)
      BY CaughtLemma
    <3> QED BY <2>8, <3>1 DEF SendMissed, FailurePath, CaughtTyped
  <2>9. CASE MarkDelivered(w)
    BY <2>9 DEF MarkDelivered, Works
  <2>10. CASE ResetFailures(w)
    BY <2>10, DoneTyped DEF ResetFailures
  <2>11. CASE CountAttempt(w)
    BY <2>11 DEF CountAttempt, Works
  <2>12. CASE ReadAttempts(w)
    BY <2>12 DEF ReadAttempts, Works
  <2>13. CASE ScheduleRetry(w)
    BY <2>13 DEF ScheduleRetry, Works
  <2>14. CASE TallyFailure(w)
    BY <2>14, DoneTyped DEF TallyFailure, Works
  <2>15. CASE StatementFails(w)
    <3>1. CaughtTyped(w, TRUE)
      BY CaughtLemma
    <3> QED BY <2>15, <3>1 DEF StatementFails, FailurePath, CaughtTyped
  <2>16. CASE WorkerStops(w)
    BY <2>16, NoWorkTyped DEF WorkerStops
  <2> QED BY <1>1, <2>1, <2>2, <2>3, <2>4, <2>5, <2>6, <2>7, <2>8, <2>9, <2>10, <2>11, <2>12,
             <2>13, <2>14, <2>15, <2>16 DEF Act
<1>2. ASSUME NEW d \in Deliveries, RetryComesDue(d) PROVE TypeInv'
  BY <1>2 DEF RetryComesDue
<1>3. CASE UNCHANGED vars
  BY <1>3 DEF vars
<1> QED BY <1>1, <1>2, <1>3, NextActs

LEMMA TypeInit == Init => TypeInv
  BY NoWorkTyped, DeliveryAssumption DEF Init, TypeInv, TypeOK, Held

\* Rows, workers and the endpoint's history keep their types.
THEOREM DeliveryTyped == Spec => []TypeOK
<1>1. Spec => []TypeInv
  BY TypeInit, TypeStep, PTL DEF Spec
<1> QED BY <1>1, PTL DEF TypeInv

-----------------------------------------------------------------------------
(* The failure counter: no worker counts more failures than there were *)

Failing == {"count", "read", "schedule", "tally"}

CounterInv ==
  /\ consecutiveFailures <= misses + faults
  /\ ~active => misses + faults >= MAX_CONSECUTIVE_FAILURES
  /\ \A w \in Workers :
       /\ work[w].failures <= misses + faults
       /\ at[w] \in Failing => work[w].failures + 1 <= misses + faults

-----------------------------------------------------------------------------
(* The attempts: what a row, a pass or a worker counts was sent *)

Sent == {"deliver", "reset", "count", "read", "schedule", "tally"}

AttemptsInv ==
  \A d \in Deliveries :
    /\ attempts[d] <= 1 \/ attempts[d] <= tries[d]
    /\ nextRetryAt[d] # "null" => tries[d] >= 1

WorkerInv(w) ==
  /\ \A d \in Deliveries : work[w].rest[d] <= tries[d]
  /\ at[w] = "idle" => work[w].stale = 0
  /\ at[w] \notin {"idle", "next"} =>
       /\ work[w].stale <= tries[work[w].d]
       /\ at[w] \in Sent => work[w].stale + 1 <= tries[work[w].d]
       /\ at[w] \in {"deliver", "reset"} => work[w].d \in acked
       /\ at[w] = "schedule" => work[w].read <= 1 \/ work[w].read <= tries[work[w].d]
       /\ at[w] = "drop" => ~active

StatusInv ==
  \A d \in Deliveries :
    /\ status[d] = "delivered" => d \in acked
    /\ status[d] = "failed" => tries[d] > MaxRetries \/ ~active

DeliveryInv == AttemptsInv /\ StatusInv /\ \A w \in Workers : WorkerInv(w)

Inv == TypeInv /\ CounterInv /\ DeliveryInv

-----------------------------------------------------------------------------
(* Each step keeps them *)

\* The end of an attempt leaves the worker between deliveries.
LEMMA DoneQuiet ==
  ASSUME TypeInv, NEW w \in Workers, Done(w)
  PROVE  /\ at'[w] \in {"idle", "next"} /\ work'[w].failures = 0
         /\ \A v \in Workers \ {w} : at'[v] = at[v] /\ work'[v] = work[v]
<1> USE DEF TypeInv, TypeOK, Works, NoWork
<1>1. CASE work[w].stale = 0
  BY <1>1 DEF Done
<1>2. CASE work[w].stale # 0
  BY <1>2 DEF Done
<1> QED BY <1>1, <1>2

LEMMA CounterStep == Inv /\ [Next]_vars => CounterInv'
<1> SUFFICES ASSUME Inv, [Next]_vars PROVE CounterInv'
  OBVIOUS
<1> USE DeliveryAssumption DEF Inv, TypeInv, TypeOK, CounterInv, Failing, Works, Goto, webhookVars, deliveryVars,
                               endpointVars, workerVars
<1>1. ASSUME NEW w \in Workers, Act(w) PROVE CounterInv'
  <2>1. ASSUME NEW d \in Deliveries, DeliverEvent(w, d) PROVE CounterInv'
    BY <2>1 DEF DeliverEvent
  <2>2. ASSUME NEW d \in Deliveries, RetryDelivery(w, d) PROVE CounterInv'
    BY <2>2 DEF RetryDelivery, NoWork
  <2>3. CASE InsertDelivery(w)
    BY <2>3 DEF InsertDelivery
  <2>4. CASE RetryPass(w)
    BY <2>4 DEF RetryPass, RetryIsDue
  <2>5. CASE DropDelivery(w)
    BY <2>5, DoneQuiet DEF DropDelivery
  <2>6. CASE EndPass(w)
    BY <2>6 DEF EndPass, NoWork
  <2>7. CASE SendAnswered(w)
    BY <2>7 DEF SendAnswered
  <2>8. ASSUME NEW caught \in BOOLEAN, SendMissed(w, caught) PROVE CounterInv'
    BY <2>8 DEF SendMissed, FailurePath
  <2>9. CASE MarkDelivered(w)
    BY <2>9 DEF MarkDelivered
  <2>10. CASE ResetFailures(w)
    BY <2>10, DoneQuiet DEF ResetFailures
  <2>11. CASE CountAttempt(w)
    BY <2>11 DEF CountAttempt
  <2>12. CASE ReadAttempts(w)
    BY <2>12 DEF ReadAttempts
  <2>13. CASE ScheduleRetry(w)
    BY <2>13 DEF ScheduleRetry
  <2>14. CASE TallyFailure(w)
    BY <2>14, DoneQuiet DEF TallyFailure
  <2>15. CASE StatementFails(w)
    BY <2>15 DEF StatementFails, FailurePath
  <2>16. CASE WorkerStops(w)
    BY <2>16 DEF WorkerStops, NoWork
  <2> QED BY <1>1, <2>1, <2>2, <2>3, <2>4, <2>5, <2>6, <2>7, <2>8, <2>9,
             <2>10, <2>11, <2>12, <2>13, <2>14, <2>15, <2>16 DEF Act
<1>2. ASSUME NEW d \in Deliveries, RetryComesDue(d) PROVE CounterInv'
  BY <1>2 DEF RetryComesDue
<1>3. CASE UNCHANGED vars
  BY <1>3 DEF vars
<1> QED BY <1>1, <1>2, <1>3, NextActs

\* A step of worker w takes nothing from what the others established.
Onward(w) ==
  /\ \A v \in Workers \ {w} : at'[v] = at[v] /\ work'[v] = work[v]
  /\ \A d \in Deliveries : tries'[d] >= tries[d]
  /\ acked \subseteq acked' /\ (active' => active)

LEMMA OthersKept ==
  ASSUME Inv, TypeInv', NEW w \in Workers, Onward(w), AttemptsInv', StatusInv', WorkerInv(w)'
  PROVE  DeliveryInv'
<1>1. ASSUME NEW v \in Workers \ {w} PROVE WorkerInv(v)'
  BY DEF Inv, TypeInv, TypeOK, Held, DeliveryInv, WorkerInv, Onward, Sent, Works
<1> QED BY <1>1 DEF DeliveryInv

LEMMA DeliveryStep == Inv /\ [Next]_vars => DeliveryInv'
<1> SUFFICES ASSUME Inv, [Next]_vars PROVE DeliveryInv'
  OBVIOUS
<1>a. TypeInv'
  BY TypeStep DEF Inv
<1> USE <1>a, DeliveryAssumption
    DEF Inv, TypeInv, TypeOK, Held, DeliveryInv, Works, Goto, webhookVars, deliveryVars, endpointVars,
        workerVars
<1>1. ASSUME NEW w \in Workers, Act(w) PROVE DeliveryInv'
  <2>1. ASSUME NEW d \in Deliveries, DeliverEvent(w, d) PROVE DeliveryInv'
    <3>1. AttemptsInv'
      BY <2>1 DEF DeliverEvent, AttemptsInv, WorkerInv, Sent
    <3>2. StatusInv'
      BY <2>1 DEF DeliverEvent, StatusInv, WorkerInv, AttemptsInv, Sent
    <3>3. WorkerInv(w)'
      BY <2>1 DEF DeliverEvent, WorkerInv, AttemptsInv, Sent
    <3>4. Onward(w)
      BY <2>1 DEF DeliverEvent, Onward
    <3> QED BY <3>1, <3>2, <3>3, <3>4, OthersKept
  <2>2. ASSUME NEW d \in Deliveries, RetryDelivery(w, d) PROVE DeliveryInv'
    <3>1. AttemptsInv'
      BY <2>2 DEF RetryDelivery, NoWork, AttemptsInv, WorkerInv, Sent
    <3>2. StatusInv'
      BY <2>2 DEF RetryDelivery, NoWork, StatusInv, WorkerInv, AttemptsInv, Sent
    <3>3. WorkerInv(w)'
      BY <2>2 DEF RetryDelivery, NoWork, WorkerInv, AttemptsInv, Sent
    <3>4. Onward(w)
      BY <2>2 DEF RetryDelivery, NoWork, Onward
    <3> QED BY <3>1, <3>2, <3>3, <3>4, OthersKept
  <2>3. CASE InsertDelivery(w)
    <3>1. AttemptsInv'
      BY <2>3 DEF InsertDelivery, AttemptsInv, WorkerInv, Sent
    <3>2. StatusInv'
      BY <2>3 DEF InsertDelivery, StatusInv, WorkerInv, AttemptsInv, Sent
    <3>3. WorkerInv(w)'
      BY <2>3 DEF InsertDelivery, WorkerInv, AttemptsInv, Sent
    <3>4. Onward(w)
      BY <2>3 DEF InsertDelivery, Onward
    <3> QED BY <3>1, <3>2, <3>3, <3>4, OthersKept
  <2>4. CASE RetryPass(w)
    <3>1. DeliveryInv /\ UNCHANGED <<attempts, tries, nextRetryAt, status, acked, active>>
      BY <2>4 DEF RetryPass
    <3>2. AttemptsInv' /\ StatusInv'
      BY <3>1 DEF AttemptsInv, StatusInv
    <3>3. work' = [work EXCEPT ![w] = [@ EXCEPT !.rest =
                    [d \in Deliveries |-> IF RetryIsDue(d) THEN attempts[d] ELSE 0]]]
      BY <2>4 DEF RetryPass
    <3>4. ASSUME NEW d \in Deliveries PROVE (IF RetryIsDue(d) THEN attempts[d] ELSE 0) <= tries[d]
      <4>1. attempts[d] \in Nat /\ tries[d] \in Nat
        OBVIOUS
      <4>2. /\ attempts[d] <= 1 \/ attempts[d] <= tries[d]
            /\ nextRetryAt[d] # "null" => tries[d] >= 1
        BY DEF AttemptsInv
      <4>3. RetryIsDue(d) => nextRetryAt[d] # "null"
        BY Zenon DEF RetryIsDue
      <4> QED BY <4>1, <4>2, <4>3
    <3>5. \A d \in Deliveries : work'[w].rest[d] <= tries[d]
      BY <3>3, <3>4
    <3>6. WorkerInv(w)'
      BY <2>4, <3>1, <3>5 DEF RetryPass, WorkerInv
    <3>7. Onward(w)
      BY <2>4 DEF RetryPass, Onward
    <3> QED BY <3>2, <3>6, <3>7, OthersKept
  <2>5. CASE DropDelivery(w)
    <3>1. AttemptsInv'
      BY <2>5 DEF DropDelivery, Done, NoWork, AttemptsInv, WorkerInv, Sent
    <3>2. StatusInv'
      BY <2>5 DEF DropDelivery, Done, NoWork, StatusInv, WorkerInv, AttemptsInv, Sent
    <3>3. WorkerInv(w)'
      BY <2>5 DEF DropDelivery, Done, NoWork, WorkerInv, AttemptsInv, Sent
    <3>4. Onward(w)
      BY <2>5 DEF DropDelivery, Done, NoWork, Onward
    <3> QED BY <3>1, <3>2, <3>3, <3>4, OthersKept
  <2>6. CASE EndPass(w)
    <3>1. AttemptsInv'
      BY <2>6 DEF EndPass, NoWork, AttemptsInv, WorkerInv, Sent
    <3>2. StatusInv'
      BY <2>6 DEF EndPass, NoWork, StatusInv, WorkerInv, AttemptsInv, Sent
    <3>3. WorkerInv(w)'
      BY <2>6 DEF EndPass, NoWork, WorkerInv, AttemptsInv, Sent
    <3>4. Onward(w)
      BY <2>6 DEF EndPass, NoWork, Onward
    <3> QED BY <3>1, <3>2, <3>3, <3>4, OthersKept
  <2>7. CASE SendAnswered(w)
    <3>1. AttemptsInv'
      BY <2>7 DEF SendAnswered, AttemptsInv, WorkerInv, Sent
    <3>2. StatusInv'
      BY <2>7 DEF SendAnswered, StatusInv, WorkerInv, AttemptsInv, Sent
    <3>3. WorkerInv(w)'
      BY <2>7 DEF SendAnswered, WorkerInv, AttemptsInv, Sent
    <3>4. Onward(w)
      BY <2>7 DEF SendAnswered, Onward
    <3> QED BY <3>1, <3>2, <3>3, <3>4, OthersKept
  <2>8. ASSUME NEW caught \in BOOLEAN, SendMissed(w, caught) PROVE DeliveryInv'
    <3>1. AttemptsInv'
      BY <2>8 DEF SendMissed, FailurePath, AttemptsInv, WorkerInv, Sent
    <3>2. StatusInv'
      BY <2>8 DEF SendMissed, FailurePath, StatusInv, WorkerInv, AttemptsInv, Sent
    <3>3. WorkerInv(w)'
      BY <2>8 DEF SendMissed, FailurePath, WorkerInv, AttemptsInv, Sent
    <3>4. Onward(w)
      BY <2>8 DEF SendMissed, FailurePath, Onward
    <3> QED BY <3>1, <3>2, <3>3, <3>4, OthersKept
  <2>9. CASE MarkDelivered(w)
    <3>1. AttemptsInv'
      BY <2>9 DEF MarkDelivered, AttemptsInv, WorkerInv, Sent
    <3>2. StatusInv'
      BY <2>9 DEF MarkDelivered, StatusInv, WorkerInv, AttemptsInv, Sent
    <3>3. WorkerInv(w)'
      BY <2>9 DEF MarkDelivered, WorkerInv, AttemptsInv, Sent
    <3>4. Onward(w)
      BY <2>9 DEF MarkDelivered, Onward
    <3> QED BY <3>1, <3>2, <3>3, <3>4, OthersKept
  <2>10. CASE ResetFailures(w)
    <3>1. AttemptsInv'
      BY <2>10 DEF ResetFailures, Done, NoWork, AttemptsInv, WorkerInv, Sent
    <3>2. StatusInv'
      BY <2>10 DEF ResetFailures, Done, NoWork, StatusInv, WorkerInv, AttemptsInv, Sent
    <3>3. WorkerInv(w)'
      BY <2>10 DEF ResetFailures, Done, NoWork, WorkerInv, AttemptsInv, Sent
    <3>4. Onward(w)
      BY <2>10 DEF ResetFailures, Done, NoWork, Onward
    <3> QED BY <3>1, <3>2, <3>3, <3>4, OthersKept
  <2>11. CASE CountAttempt(w)
    <3>1. AttemptsInv'
      BY <2>11 DEF CountAttempt, AttemptsInv, WorkerInv, Sent
    <3>2. StatusInv'
      BY <2>11 DEF CountAttempt, StatusInv, WorkerInv, AttemptsInv, Sent
    <3>3. WorkerInv(w)'
      BY <2>11 DEF CountAttempt, WorkerInv, AttemptsInv, Sent
    <3>4. Onward(w)
      BY <2>11 DEF CountAttempt, Onward
    <3> QED BY <3>1, <3>2, <3>3, <3>4, OthersKept
  <2>12. CASE ReadAttempts(w)
    <3>1. AttemptsInv'
      BY <2>12 DEF ReadAttempts, AttemptsInv, WorkerInv, Sent
    <3>2. StatusInv'
      BY <2>12 DEF ReadAttempts, StatusInv, WorkerInv, AttemptsInv, Sent
    <3>3. WorkerInv(w)'
      BY <2>12 DEF ReadAttempts, WorkerInv, AttemptsInv, Sent
    <3>4. Onward(w)
      BY <2>12 DEF ReadAttempts, Onward
    <3> QED BY <3>1, <3>2, <3>3, <3>4, OthersKept
  <2>13. CASE ScheduleRetry(w)
    <3>1. AttemptsInv'
      BY <2>13 DEF ScheduleRetry, AttemptsInv, WorkerInv, Sent
    <3>2. StatusInv'
      BY <2>13 DEF ScheduleRetry, StatusInv, WorkerInv, AttemptsInv, Sent
    <3>3. WorkerInv(w)'
      BY <2>13 DEF ScheduleRetry, WorkerInv, AttemptsInv, Sent
    <3>4. Onward(w)
      BY <2>13 DEF ScheduleRetry, Onward
    <3> QED BY <3>1, <3>2, <3>3, <3>4, OthersKept
  <2>14. CASE TallyFailure(w)
    <3>1. AttemptsInv'
      BY <2>14 DEF TallyFailure, Done, NoWork, AttemptsInv, WorkerInv, Sent
    <3>2. StatusInv'
      BY <2>14 DEF TallyFailure, Done, NoWork, StatusInv, WorkerInv, AttemptsInv, Sent
    <3>3. WorkerInv(w)'
      BY <2>14 DEF TallyFailure, Done, NoWork, WorkerInv, AttemptsInv, Sent
    <3>4. Onward(w)
      BY <2>14 DEF TallyFailure, Done, NoWork, Onward
    <3> QED BY <3>1, <3>2, <3>3, <3>4, OthersKept
  <2>15. CASE StatementFails(w)
    <3>1. AttemptsInv'
      BY <2>15 DEF StatementFails, AttemptsInv
    <3>2. StatusInv'
      BY <2>15 DEF StatementFails, StatusInv
    <3>3. WorkerInv(w)'
      <4>1. /\ work'[w].d = work[w].d /\ work'[w].stale = work[w].stale
            /\ work'[w].rest = work[w].rest
        BY <2>15 DEF StatementFails
      <4>2. at[w] \in Sent /\ at'[w] \in {"count", "read"}
        BY <2>15 DEF StatementFails, FailurePath, Sent
      <4> QED BY <2>15, <4>1, <4>2 DEF StatementFails, WorkerInv, Sent
    <3>4. Onward(w)
      BY <2>15 DEF StatementFails, Onward
    <3> QED BY <3>1, <3>2, <3>3, <3>4, OthersKept
  <2>16. CASE WorkerStops(w)
    <3>1. AttemptsInv'
      BY <2>16 DEF WorkerStops, NoWork, AttemptsInv, WorkerInv, Sent
    <3>2. StatusInv'
      BY <2>16 DEF WorkerStops, NoWork, StatusInv, WorkerInv, AttemptsInv, Sent
    <3>3. WorkerInv(w)'
      BY <2>16 DEF WorkerStops, NoWork, WorkerInv, AttemptsInv, Sent
    <3>4. Onward(w)
      BY <2>16 DEF WorkerStops, NoWork, Onward
    <3> QED BY <3>1, <3>2, <3>3, <3>4, OthersKept
  <2> QED BY <1>1, <2>1, <2>2, <2>3, <2>4, <2>5, <2>6, <2>7, <2>8, <2>9,
             <2>10, <2>11, <2>12, <2>13, <2>14, <2>15, <2>16 DEF Act
<1>2. ASSUME NEW d \in Deliveries, RetryComesDue(d) PROVE DeliveryInv'
  BY <1>2 DEF RetryComesDue, AttemptsInv, StatusInv, WorkerInv, Sent
<1>3. CASE UNCHANGED vars
  BY <1>3 DEF vars, AttemptsInv, StatusInv, WorkerInv, Sent
<1> QED BY <1>1, <1>2, <1>3, NextActs

-----------------------------------------------------------------------------
(* The theorems *)

LEMMA InvInit == Init => Inv
<1> SUFFICES ASSUME Init PROVE Inv
  OBVIOUS
<1>1. TypeInv
  BY TypeInit
<1>2. CounterInv
  BY DeliveryAssumption DEF Init, CounterInv, NoWork, Failing
<1>3. DeliveryInv
  BY DEF Init, DeliveryInv, AttemptsInv, StatusInv, WorkerInv, NoWork, Sent
<1> QED BY <1>1, <1>2, <1>3 DEF Inv

\* The inductive invariant: what each worker holds agrees with the rows and the counter.
THEOREM DeliveryInvariant == Spec => []Inv
<1>1. Inv /\ [Next]_vars => Inv'
  BY TypeStep, CounterStep, DeliveryStep DEF Inv
<1> QED BY InvInit, <1>1, PTL DEF Spec

\* A delivery's status and attempts tell only what its tries did, for any number of
\* overlapping passes.
THEOREM StatusesTrue == Spec => []StatusTrue
<1>1. Inv => StatusTrue
  BY DEF Inv, DeliveryInv, AttemptsInv, StatusInv, StatusTrue
<1> QED BY <1>1, DeliveryInvariant, PTL

\* The webhook is disabled only after as many failures as the limit, although the
\* counter is written from what several workers read long ago.
THEOREM DisabledOnlyForCause == Spec => []DisabledForCause
<1>1. Inv => DisabledForCause
  BY DEF Inv, CounterInv, DisabledForCause
<1> QED BY <1>1, DeliveryInvariant, PTL
=============================================================================
