---------------------------- MODULE WebhookDelivery ----------------------------
(***************************************************************************)
(* The deliveries of an agent's events to one webhook:                      *)
(* services/webhook-delivery.ts and the timer of workers/webhook-retry.ts.   *)
(* Workers are the requests that raise events and the passes over pending    *)
(* deliveries; the timer does not wait for a pass, so passes overlap.         *)
(***************************************************************************)
EXTENDS Naturals

CONSTANTS
  Workers,      \* events raised and passes run at the same time
  Deliveries,   \* events raised for the webhook
  MaxRetries,   \* RETRY_INTERVALS_MS.length
  MAX_CONSECUTIVE_FAILURES,
  MaxFaults     \* statements that fail and workers that die

ASSUME DeliveryAssumption ==
  /\ MaxRetries \in Nat \ {0} /\ MAX_CONSECUTIVE_FAILURES \in Nat \ {0} /\ MaxFaults \in Nat

VARIABLES
  active, consecutiveFailures,   \* of the webhook
  status, attempts, nextRetryAt, \* of each delivery
  tries,     \* history: calls of ssrfSafeFetch for each delivery, refused ones too
  acked,     \* history: deliveries the endpoint answered with success
  misses,    \* history: calls it did not
  faults,    \* faults so far
  at, work   \* where each worker is, and what it read

webhookVars  == <<active, consecutiveFailures>>
deliveryVars == <<status, attempts, nextRetryAt>>
endpointVars == <<tries, acked, misses>>
workerVars   == <<at, work>>
vars == <<webhookVars, deliveryVars, endpointVars, faults, workerVars>>

\* What a worker holds: its delivery, the attempts its pass read of it (0 at the first
\* attempt) and of the rest of the pass, the webhook's counter, the attempts read again
\* when it failed, and whether it is in the catch block.
Works == [d : Deliveries \union {"none"}, stale : Nat, rest : [Deliveries -> Nat],
          failures : Nat, read : Nat, caught : BOOLEAN]
NoWork == [d |-> "none", stale |-> 0, rest |-> [d \in Deliveries |-> 0],
           failures |-> 0, read |-> 0, caught |-> FALSE]

TypeOK ==
  /\ active \in BOOLEAN /\ consecutiveFailures \in Nat
  /\ status \in [Deliveries -> {"none", "pending", "delivered", "failed"}]
  /\ attempts \in [Deliveries -> Nat]
  /\ nextRetryAt \in [Deliveries -> {"null", "later", "due"}]
  /\ tries \in [Deliveries -> Nat] /\ acked \subseteq Deliveries /\ misses \in Nat
  /\ faults \in 0..MaxFaults
  /\ at \in [Workers -> {"idle", "insert", "next", "drop", "send", "deliver", "reset",
                         "count", "read", "schedule", "tally"}]
  /\ work \in [Workers -> Works]

Init ==
  /\ active = TRUE /\ consecutiveFailures = 0
  /\ status = [d \in Deliveries |-> "none"] /\ attempts = [d \in Deliveries |-> 0]
  /\ nextRetryAt = [d \in Deliveries |-> "null"]
  /\ tries = [d \in Deliveries |-> 0] /\ acked = {} /\ misses = 0 /\ faults = 0
  /\ at = [w \in Workers |-> "idle"] /\ work = [w \in Workers |-> NoWork]

Goto(w, from, to) == at[w] = from /\ at' = [at EXCEPT ![w] = to]

\* A first attempt ends; a pass goes on to its next delivery.
Done(w) ==
  IF work[w].stale = 0
  THEN at' = [at EXCEPT ![w] = "idle"] /\ work' = [work EXCEPT ![w] = NoWork]
  ELSE /\ at' = [at EXCEPT ![w] = "next"]
       /\ work' = [work EXCEPT ![w] = [NoWork EXCEPT !.rest = work[w].rest]]

-----------------------------------------------------------------------------
(* First attempts and passes *)

\* deliverWebhookEvent reads the webhook and its counter, ...
DeliverEvent(w, d) ==
  /\ active /\ Goto(w, "idle", "insert")
  /\ status[d] = "none" /\ \A v \in Workers : work[v].d # d
  /\ work' = [work EXCEPT ![w].d = d, ![w].failures = consecutiveFailures]
  /\ UNCHANGED <<webhookVars, deliveryVars, endpointVars, faults>>

\* ... and attemptDelivery inserts a delivery without a time of a retry.
InsertDelivery(w) ==
  /\ Goto(w, "insert", "send") /\ work' = work
  /\ status' = [status EXCEPT ![work[w].d] = "pending"]
  /\ attempts' = [attempts EXCEPT ![work[w].d] = 1]
  /\ UNCHANGED <<webhookVars, nextRetryAt, endpointVars, faults>>

RetryIsDue(d) == status[d] = "pending" /\ nextRetryAt[d] = "due"

\* retryPendingDeliveries reads the deliveries whose retry is due, ...
RetryPass(w) ==
  /\ \E d \in Deliveries : RetryIsDue(d)
  /\ Goto(w, "idle", "next")
  /\ work' = [work EXCEPT ![w].rest =
                [d \in Deliveries |-> IF RetryIsDue(d) THEN attempts[d] ELSE 0]]
  /\ UNCHANGED <<webhookVars, deliveryVars, endpointVars, faults>>

\* ... for each of them the webhook again, which may have been disabled, ...
RetryDelivery(w, d) ==
  /\ work[w].rest[d] # 0
  /\ Goto(w, "next", IF active THEN "send" ELSE "drop")
  /\ work' = [work EXCEPT ![w] = [NoWork EXCEPT !.d = d, !.stale = work[w].rest[d],
                                    !.rest = [work[w].rest EXCEPT ![d] = 0],
                                    !.failures = consecutiveFailures]]
  /\ UNCHANGED <<webhookVars, deliveryVars, endpointVars, faults>>

\* Seeded fault: the deliveries of a disabled webhook are passed over.
DropNothing(w) ==
  /\ at[w] = "drop" /\ Done(w)
  /\ UNCHANGED <<webhookVars, deliveryVars, endpointVars, faults>>

DropDelivery(w) ==
  /\ at[w] = "drop" /\ Done(w)
  /\ status' = [status EXCEPT ![work[w].d] = "failed"]
  /\ UNCHANGED <<webhookVars, attempts, nextRetryAt, endpointVars, faults>>

EndPass(w) ==
  /\ Goto(w, "next", "idle") /\ \A d \in Deliveries : work[w].rest[d] = 0
  /\ work' = [work EXCEPT ![w] = NoWork]
  /\ UNCHANGED <<webhookVars, deliveryVars, endpointVars, faults>>

RetryComesDue(d) ==
  /\ nextRetryAt[d] = "later"
  /\ nextRetryAt' = [nextRetryAt EXCEPT ![d] = "due"]
  /\ UNCHANGED <<webhookVars, status, attempts, endpointVars, faults, workerVars>>

-----------------------------------------------------------------------------
(* One attempt *)

\* The first attempt's row already counts it; a pass writes what it read and one more.
FailurePath(w) == IF work[w].stale = 0 THEN "read" ELSE "count"

\* The endpoint answers with success, ...
SendAnswered(w) ==
  LET d == work[w].d
  IN /\ Goto(w, "send", "deliver") /\ work' = work
     /\ tries' = [tries EXCEPT ![d] = @ + 1] /\ acked' = acked \union {d}
     /\ UNCHANGED <<webhookVars, deliveryVars, misses, faults>>

\* ... or with an error, or not at all, or ssrfSafeFetch refuses its address before it
\* connects: the catch block handles the last two alike, and the row tells no difference.
SendMissed(w, caught) ==
  LET d == work[w].d
  IN /\ Goto(w, "send", FailurePath(w)) /\ work' = [work EXCEPT ![w].caught = caught]
     /\ tries' = [tries EXCEPT ![d] = @ + 1] /\ misses' = misses + 1
     /\ UNCHANGED <<webhookVars, deliveryVars, acked, faults>>

MarkDelivered(w) ==
  LET d == work[w].d
  IN /\ Goto(w, "deliver", "reset") /\ work' = work
     /\ status' = [status EXCEPT ![d] = "delivered"]
     /\ attempts' = [attempts EXCEPT ![d] = IF work[w].stale = 0 THEN @ ELSE work[w].stale + 1]
     /\ UNCHANGED <<webhookVars, nextRetryAt, endpointVars, faults>>

ResetFailures(w) ==
  /\ at[w] = "reset" /\ Done(w)
  /\ consecutiveFailures' = 0
  /\ UNCHANGED <<active, deliveryVars, endpointVars, faults>>

\* Seeded fault: an attempt that failed counts for two.
CountTwice(w) ==
  /\ Goto(w, "count", "read") /\ work' = work
  /\ attempts' = [attempts EXCEPT ![work[w].d] = work[w].stale + 2]
  /\ UNCHANGED <<webhookVars, status, nextRetryAt, endpointVars, faults>>

CountAttempt(w) ==
  /\ Goto(w, "count", "read") /\ work' = work
  /\ attempts' = [attempts EXCEPT ![work[w].d] = work[w].stale + 1]
  /\ UNCHANGED <<webhookVars, status, nextRetryAt, endpointVars, faults>>

\* handleDeliveryFailure reads the attempts, ...
ReadAttempts(w) ==
  /\ Goto(w, "read", "schedule")
  /\ work' = [work EXCEPT ![w].read = attempts[work[w].d]]
  /\ UNCHANGED <<webhookVars, deliveryVars, endpointVars, faults>>

\* Seeded fault: a status the passes do not look for.
ScheduleAsRetrying(w) ==
  LET d == work[w].d  again == work[w].read <= MaxRetries
  IN /\ Goto(w, "schedule", "tally") /\ work' = work
     /\ status' = [status EXCEPT ![d] = IF again THEN "retrying" ELSE "failed"]
     /\ nextRetryAt' = [nextRetryAt EXCEPT ![d] = IF again THEN "later" ELSE "null"]
     /\ UNCHANGED <<webhookVars, attempts, endpointVars, faults>>

\* ... schedules a retry or gives up, ...
ScheduleRetry(w) ==
  LET d == work[w].d  again == work[w].read <= MaxRetries
  IN /\ Goto(w, "schedule", "tally") /\ work' = work
     /\ status' = [status EXCEPT ![d] = IF again THEN "pending" ELSE "failed"]
     /\ nextRetryAt' = [nextRetryAt EXCEPT ![d] = IF again THEN "later" ELSE "null"]
     /\ UNCHANGED <<webhookVars, attempts, endpointVars, faults>>

\* Seeded fault: the webhook is disabled one failure early.
TallyEarly(w) ==
  LET newFailureCount == work[w].failures + 1
  IN /\ at[w] = "tally" /\ Done(w)
     /\ consecutiveFailures' = newFailureCount
     /\ active' = (active /\ newFailureCount < MAX_CONSECUTIVE_FAILURES - 1)
     /\ UNCHANGED <<deliveryVars, endpointVars, faults>>

\* ... and counts the failure on the counter read before the attempt, which at the limit
\* disables the webhook.  Nothing enables it again.
TallyFailure(w) ==
  LET newFailureCount == work[w].failures + 1
  IN /\ at[w] = "tally" /\ Done(w)
     /\ consecutiveFailures' = newFailureCount
     /\ active' = (active /\ newFailureCount < MAX_CONSECUTIVE_FAILURES)
     /\ UNCHANGED <<deliveryVars, endpointVars, faults>>

-----------------------------------------------------------------------------
(* Faults *)

\* A statement inside the try block fails: the attempt is handled as failed, also when
\* the endpoint had answered with success or the failure was handled in part.
StatementFails(w) ==
  /\ faults < MaxFaults /\ faults' = faults + 1
  /\ at[w] \in {"deliver", "reset", "count", "read", "schedule", "tally"} /\ ~work[w].caught
  /\ at' = [at EXCEPT ![w] = FailurePath(w)] /\ work' = [work EXCEPT ![w].caught = TRUE]
  /\ UNCHANGED <<webhookVars, deliveryVars, endpointVars>>

\* A statement outside it fails, or the server dies: with it goes the rest of a pass.
WorkerStops(w) ==
  /\ faults < MaxFaults /\ faults' = faults + 1
  /\ at[w] # "idle"
  /\ at' = [at EXCEPT ![w] = "idle"] /\ work' = [work EXCEPT ![w] = NoWork]
  /\ UNCHANGED <<webhookVars, deliveryVars, endpointVars>>

WorkerStep(w) ==
  \/ \E d \in Deliveries : RetryDelivery(w, d)
  \/ InsertDelivery(w) \/ DropDelivery(w) \/ EndPass(w) \/ SendAnswered(w)
  \/ \E caught \in BOOLEAN : SendMissed(w, caught)
  \/ MarkDelivered(w) \/ ResetFailures(w) \/ CountAttempt(w) \/ ReadAttempts(w)
  \/ ScheduleRetry(w) \/ TallyFailure(w)

Next ==
  \/ \E w \in Workers, d \in Deliveries : DeliverEvent(w, d)
  \/ \E w \in Workers :
       WorkerStep(w) \/ RetryPass(w) \/ StatementFails(w) \/ WorkerStops(w)
  \/ \E d \in Deliveries : RetryComesDue(d)

\* Workers go on, the timer runs, and time passes.
Fairness ==
  /\ \A w \in Workers : WF_vars(WorkerStep(w)) /\ WF_vars(RetryPass(w))
  /\ \A d \in Deliveries : WF_vars(RetryComesDue(d))

Spec == Init /\ [][Next]_vars /\ Fairness

-----------------------------------------------------------------------------
(* What a delivery promises *)

\* A delivery is recorded as delivered only if the endpoint answered one of its requests
\* with success, and given up only after every interval's attempt was made or because the
\* webhook is disabled, also when passes overlap and write attempts they read long ago; its
\* attempts, from the second on, tell of no try that was not made (the first is counted
\* when the row is inserted, before the request).
StatusTrue ==
  \A d \in Deliveries :
    /\ attempts[d] <= 1 \/ attempts[d] <= tries[d]
    /\ status[d] = "delivered" => d \in acked
    /\ status[d] = "failed" => tries[d] > MaxRetries \/ ~active

\* A webhook is disabled for as many failures as the limit, faults of the server's own
\* after an answer counted among them.
DisabledForCause == ~active => misses + faults >= MAX_CONSECUTIVE_FAILURES

\* A retry that was scheduled does not stay pending, whatever overlaps it: in the end
\* the delivery is delivered or given up.
RetrySettles ==
  \A d \in Deliveries :
    (status[d] = "pending" /\ nextRetryAt[d] # "null") ~> (status[d] \in {"delivered", "failed"})
=============================================================================
