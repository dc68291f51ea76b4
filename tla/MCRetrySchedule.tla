-------------------------- MODULE MCRetrySchedule --------------------------
(***************************************************************************)
(* Model-checking instance of RetrySchedule and the properties its runs    *)
(* check.                                                                  *)
(***************************************************************************)
EXTENDS RetrySchedule

\* webhookRetrySchedule {1m, 5m, 15m, 1h, 6h, 24h} in 30-second units.
MCSchedule == <<2, 10, 30, 120, 720, 2880>>

\* The delay the schedule asks for after the k-th refused request: the
\* k-th entry, and the last one for every later request.
ScheduledDelay(k) == Schedule[Min({k, Len(Schedule)})]

(***************************************************************************)
(* Properties.                                                             *)
(***************************************************************************)

\* Between the k-th request of a delivery and the next one lies at least the
\* k-th delay of webhookRetrySchedule, and at most that delay plus the time
\* failWebhookDelivery takes to write the row plus one ticker period: the
\* processor neither retries early nor skips past a due row.
DelaysFollowSchedule ==
    \A k \in 1..(Len(sent) - 1) :
        LET gap == sent[k + 1] - sent[k] IN
        /\ gap >= ScheduledDelay(k)
        /\ gap <= ScheduledDelay(k) + MaxLatency + PollInterval - 1

\* A delivery the processor keeps ticking over is eventually delivered or
\* given up as failed by failWebhookDelivery.
EventuallyFinal == <>(status \in {"delivered", "failed"})

=============================================================================
