-------------------------- MODULE MCWebhookOutbox --------------------------
(***************************************************************************)
(* Model-checking instance of WebhookOutbox and the properties its runs    *)
(* check.                                                                  *)
(***************************************************************************)
EXTENDS WebhookOutbox

CONSTANTS e1, e2, w1, w2, p1, p2

\* w1 subscribes to both events, w2 to e1 only.
MCSubscribes == [w \in Webhooks |-> IF w = w1 THEN Events ELSE {e1} \cap Events]

(***************************************************************************)
(* Properties.                                                             *)
(***************************************************************************)

\* failWebhookDelivery gives a delivery up (status failed) only after the
\* subscriber has really refused at least max_attempts requests for it, even
\* when concurrent senders, stale reloads and retries interleave.
NeverAbandonedEarly ==
    \A d \in DeliveryIds :
        Exists(d) /\ row[d].status = "failed"
            => refused[d] >= EnqueueMaxAttempts

\* Every delivery the dispatcher inserted is eventually delivered or given
\* up as failed: a crash mid-batch, a lost DB update or a lost immediate
\* sender leaves the row pending or in_progress, and the processor's due and
\* stale-reclaim clauses must pick it up again.
EventuallySettled ==
    \A d \in DeliveryIds :
        Exists(d) ~> (Exists(d) /\ row[d].status \in {"delivered", "failed"})

\* No two senders (processor loops or immediate-send goroutines) have a
\* request for the same delivery in flight at once: the in_progress mark is
\* meant to give one sender the row.
ExclusiveSend ==
    \A s1, s2 \in Senders :
        (s1 # s2 /\ send[s1].pc = "inflight" /\ send[s2].pc = "inflight")
            => send[s1].d # send[s2].d

\* A retry of a delivery the subscriber already refused uses the webhook's
\* current URL, headers and secret: the reload in processWebhookDelivery is
\* there "to pick up any updated URL/headers/secret", so a request started
\* after UpdateWebhook saved a new version carries that version.
SendsCurrentConfig ==
    [][\A s \in Senders :
         (send[s].pc # "inflight" /\ send'[s].pc = "inflight" /\ send'[s].attempts > 0)
            => send'[s].cfg = hook[HookOf(send'[s].d)].version]_vars
=============================================================================
