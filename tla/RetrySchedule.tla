--------------------------- MODULE RetrySchedule ---------------------------
(***************************************************************************)
(* The retry timing of one webhook delivery whose subscriber may refuse    *)
(* every request: webhookRetrySchedule, nextWebhookAttemptDelay,           *)
(* failWebhookDelivery and the ticker of WebhookDeliveryProcessor.Start.   *)
(*                                                                         *)
(* Time is real, counted in units of 30 seconds (the context timeout of    *)
(* processWebhookDelivery), from the moment the row is created.  The first *)
(* attempt is the immediate send of enqueueWebhookDeliveries at time 0;    *)
(* every later one is made by a processor tick that finds the row due.     *)
(***************************************************************************)
EXTENDS Naturals, Sequences, FiniteSetsExt

CONSTANTS
    Schedule,      \* webhookRetrySchedule, in time units
    MaxAttempts,   \* the row's max_attempts
    PollInterval,  \* the processor's ticker interval, in time units
    MaxLatency,    \* bound on a request: failWebhookDelivery reads time.Now() after it
    MaxClock       \* horizon of the model

ASSUME /\ Len(Schedule) >= 1 /\ PollInterval >= 1 /\ MaxLatency \in Nat

VARIABLES
    clock,     \* the wall clock
    nextTick,  \* when the ticker fires next
    status,    \* the row's status
    attempts,  \* the row's attempts column
    nextAt,    \* the row's next_attempt_at
    sent       \* history: the start time of every request, in order

vars == <<clock, nextTick, status, attempts, nextAt, sent>>

TypeOK ==
    /\ clock \in Nat /\ nextTick \in Nat /\ attempts \in Nat /\ nextAt \in Nat
    /\ status \in {"in_progress", "pending", "delivered", "failed"}
    /\ sent \in Seq(Nat)

\* enqueueWebhookDeliveries has created the row (next_attempt_at = now) and
\* marked it in_progress for the immediate sender; the ticker runs with any
\* phase.
Init ==
    /\ clock = 0
    /\ nextTick \in 1..PollInterval
    /\ status = "in_progress"
    /\ attempts = 0
    /\ nextAt = 0
    /\ sent = <<>>

\* Mutant: the schedule indexed by the attempt number instead of attempt-1.
NextDelayOffByOne(attempt) ==
    IF attempt <= 0 THEN Schedule[1]
    ELSE IF attempt + 1 > Len(Schedule) THEN Schedule[Len(Schedule)]
    ELSE Schedule[attempt + 1]

\* Mutant: the delay with its sign flipped (a Sub where Add was meant).
NextDelayNegated(attempt) ==
    IF attempt <= 0 THEN 0 - Schedule[1]
    ELSE IF attempt - 1 >= Len(Schedule) THEN 0 - Schedule[Len(Schedule)]
    ELSE 0 - Schedule[attempt]

\* nextWebhookAttemptDelay
NextWebhookAttemptDelay(attempt) ==
    IF attempt <= 0 THEN Schedule[1]
    ELSE IF attempt - 1 >= Len(Schedule) THEN Schedule[Len(Schedule)]
    ELSE Schedule[attempt]

\* Mutant: failWebhookDelivery without the give-up test.
GivesUpNever(n) == FALSE

\* The give-up test of failWebhookDelivery, with its fallback for a row
\* whose max_attempts is not positive.
GivesUp(n) ==
    n >= (IF MaxAttempts <= 0 THEN Len(Schedule) ELSE MaxAttempts)

\* One request started at time t: the subscriber answers 2xx, or it
\* refuses and failWebhookDelivery writes the row at time.Now(), up to
\* MaxLatency later.
Attempt(t) ==
    /\ sent' = Append(sent, t)
    /\ \/ /\ status' = "delivered"
          /\ UNCHANGED <<attempts, nextAt>>
       \/ \E lat \in 0..MaxLatency :
            LET n == attempts + 1 IN
            /\ attempts' = n
            /\ status' = IF GivesUp(n) THEN "failed" ELSE "pending"
            /\ nextAt' = IF GivesUp(n) THEN nextAt
                         ELSE t + lat + NextWebhookAttemptDelay(n)

\* The goroutine spawned by enqueueWebhookDeliveries sends at once.
ImmediateSend ==
    /\ status = "in_progress"
    /\ Attempt(clock)
    /\ UNCHANGED <<clock, nextTick>>

\* The ticker fires while the row is pending and processPendingDeliveries
\* finds it not yet due (next_attempt_at > now).
ProcessorIdleTick ==
    /\ status = "pending"
    /\ nextTick <= MaxClock
    /\ nextAt > nextTick
    /\ clock' = nextTick
    /\ nextTick' = nextTick + PollInterval
    /\ UNCHANGED <<status, attempts, nextAt, sent>>

\* The ticker fires, the claim query selects the due row and the loop
\* sends it.
ProcessorTick ==
    /\ status = "pending"
    /\ nextTick <= MaxClock
    /\ nextAt <= nextTick
    /\ clock' = nextTick
    /\ nextTick' = nextTick + PollInterval
    /\ Attempt(nextTick)

Next == ImmediateSend \/ ProcessorIdleTick \/ ProcessorTick

\* The goroutine runs and the ticker keeps firing.
Spec == Init /\ [][Next]_vars /\ WF_vars(ImmediateSend)
                /\ WF_vars(ProcessorIdleTick \/ ProcessorTick)

=============================================================================
