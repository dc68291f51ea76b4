--------------------------- MODULE WebhookOutbox ---------------------------
(***************************************************************************)
(* The outbound webhook outbox (spec C8).                                  *)
(*                                                                         *)
(* Actors, all running concurrently against one webhook_deliveries table:  *)
(*  - one dispatch goroutine per event (DispatchWebhook /                  *)
(*    enqueueWebhookDeliveries): creates a pending row per subscribed      *)
(*    webhook, marks it in_progress, and spawns an immediate sender;       *)
(*  - the immediate sender goroutines (processWebhookDelivery);            *)
(*  - one WebhookDeliveryProcessor per server process: on each tick it     *)
(*    claims due / stale rows with SELECT ... FOR UPDATE SKIP LOCKED, marks *)
(*    them in_progress and sends them one by one;                          *)
(*  - users: the webhook CRUD handlers and RetryFailedWebhookDeliveries;  *)
(*  - the environment: time passing, process crashes, DB errors.           *)
(*                                                                         *)
(* Time is abstracted to what the claim query tells apart.  A row keeps    *)
(* "due" (next_attempt_at <= clock) and "started" ("none" when             *)
(* processing_started_at is NULL, "fresh", or "old" when it is 15 minutes  *)
(* or more in the past).  A processor copies, at the start of its loop,    *)
(* the rows whose timestamps satisfy its captured `now`; any later write   *)
(* of a timestamp stores a time after that `now` and removes the row from  *)
(* the copies.                                                             *)
(***************************************************************************)
EXTENDS Naturals, FiniteSets, FiniteSetsExt

CONSTANTS
    Events,             \* events handed to DispatchWebhook, each once
    Webhooks,           \* webhook subscriptions of the organization
    Subscribes,         \* [Webhooks -> SUBSET Events]: webhook.Events
    Processors,         \* one WebhookDeliveryProcessor per server process
    ApiServer,          \* the process that also runs dispatch and immediate sends
    RetryScheduleLen,   \* len(webhookRetrySchedule)
    EnqueueMaxAttempts, \* MaxAttempts written by enqueueWebhookDeliveries
    BatchSize,          \* batchSize of processPendingDeliveries
    MaxCrashes,         \* bound on process crashes
    MaxDbErrors,        \* bound on failing DB statements
    MaxRetries,         \* bound on RetryFailedWebhookDeliveries calls
    MaxVersion,         \* bound on UpdateWebhook calls per webhook
    NoRow, NoDelivery,  \* sentinels (model values)
    NoUpdate

ASSUME ApiServer \in Processors /\ BatchSize >= 1 /\ RetryScheduleLen >= 1

DeliveryIds == Events \X Webhooks
EventOf(d) == d[1]
HookOf(d)  == d[2]

\* An immediate-send goroutine is named by the delivery it was spawned for.
Senders == Processors \cup DeliveryIds

HookStates == {"never", "active", "inactive", "deleted"}

Statuses == {"pending", "in_progress", "delivered", "failed"}

VARIABLES
    row,       \* webhook_deliveries: [DeliveryIds -> Row \cup {NoRow}]
    hook,      \* webhooks: [Webhooks -> [state, version]]
    upd,       \* per webhook, an UpdateWebhook request between load and Save
    dispatch,  \* per event, the enqueue goroutine
    proc,      \* per processor, its loop state and captured-now copies
    send,      \* per sender, where it is in processWebhookDelivery
    refused,   \* history: requests per delivery the subscriber refused
    budget     \* crashes, DB errors and retries used so far

vars == <<row, hook, upd, dispatch, proc, send, refused, budget>>

Row == [status: Statuses, attempts: Nat, due: BOOLEAN,
        started: {"none", "fresh", "old"}, lastError: BOOLEAN, cfg: Nat]

Copy == [d: DeliveryIds, attempts: Nat, cfg: Nat]

NoSend == [pc |-> "idle", d |-> NoDelivery, attempts |-> 0, cfg |-> 0]

IdleProc == [pc |-> "idle", dueAt |-> {}, staleAt |-> {}, batch |-> {}]

TypeOK ==
    /\ row \in [DeliveryIds -> Row \cup {NoRow}]
    /\ hook \in [Webhooks -> [state: HookStates, version: 0..MaxVersion]]
    /\ upd \in [Webhooks -> {NoUpdate} \cup [version: 0..MaxVersion]]
    /\ dispatch \in [Events -> [pc: {"idle", "next", "mark", "done"},
                                todo: SUBSET Webhooks, cur: Webhooks,
                                cfg: [Webhooks -> 0..MaxVersion]]]
    /\ proc \in [Processors -> [pc: {"idle", "claim", "work"},
                                dueAt: SUBSET DeliveryIds,
                                staleAt: SUBSET DeliveryIds,
                                batch: SUBSET Copy]]
    /\ send \in [Senders -> [pc: {"idle", "ready", "inflight"},
                             d: DeliveryIds \cup {NoDelivery},
                             attempts: Nat, cfg: Nat]]
    /\ refused \in [DeliveryIds -> Nat]
    /\ budget \in [crash: 0..MaxCrashes, db: 0..MaxDbErrors, retry: 0..MaxRetries]

Init ==
    /\ row = [d \in DeliveryIds |-> NoRow]
    /\ hook \in [Webhooks -> {[state |-> st, version |-> 0] : st \in {"never", "active"}}]
    /\ upd = [w \in Webhooks |-> NoUpdate]
    /\ dispatch = [e \in Events |-> [pc |-> "idle", todo |-> {},
                                     cur |-> CHOOSE w \in Webhooks : TRUE,
                                     cfg |-> [w \in Webhooks |-> 0]]]
    /\ proc = [p \in Processors |-> IdleProc]
    /\ send = [s \in Senders |-> NoSend]
    /\ refused = [d \in DeliveryIds |-> 0]
    /\ budget = [crash |-> 0, db |-> 0, retry |-> 0]

Exists(d) == row[d] # NoRow

\* A DB statement may fail while the error budget lasts.
DbError == budget.db < MaxDbErrors /\ budget' = [budget EXCEPT !.db = @ + 1]

\* Writing processing_started_at stores a time later than every running
\* loop's captured now.
ForgetStale(D) == [p \in Processors |-> [proc[p] EXCEPT !.staleAt = @ \ D]]

(***************************************************************************)
(* Dispatch: DispatchWebhook and enqueueWebhookDeliveries.                 *)
(***************************************************************************)

\* getWebhooksCached: the organization's active webhooks (the cache and its
\* loader are not in the source; the spec says CRUD invalidates it).  The
\* goroutine keeps the listed webhooks, URL and secret included.
ActiveHooks == {w \in Webhooks : hook[w].state = "active"}

DispatchWebhook(e) ==
    /\ dispatch[e].pc = "idle"
    /\ dispatch' = [dispatch EXCEPT ![e].pc = "next",
                       ![e].todo = {w \in ActiveHooks : e \in Subscribes[w]},
                       ![e].cfg = [w \in Webhooks |-> hook[w].version]]
    /\ UNCHANGED <<row, hook, upd, proc, send, refused, budget>>

NewRow(e, w) == [status |-> "pending", attempts |-> 0, due |-> TRUE,
                 started |-> "none", lastError |-> FALSE, cfg |-> dispatch[e].cfg[w]]

\* One turn of the loop up to DB.Create: the context check may break the
\* loop, Create may fail (continue), or the pending row is inserted.
EnqueueCreate(e) ==
    /\ dispatch[e].pc = "next"
    /\ dispatch[e].todo # {}
    /\ \E w \in dispatch[e].todo :
        \/ /\ dispatch' = [dispatch EXCEPT ![e].pc = "done"]
           /\ UNCHANGED <<row, budget>>
        \/ /\ DbError
           /\ dispatch' = [dispatch EXCEPT ![e].todo = @ \ {w}]
           /\ UNCHANGED row
        \/ /\ row' = [row EXCEPT ![<<e, w>>] = NewRow(e, w)]
           /\ dispatch' = [dispatch EXCEPT ![e].pc = "mark", ![e].cur = w,
                                           ![e].todo = @ \ {w}]
           /\ UNCHANGED budget
    /\ UNCHANGED <<hook, upd, proc, send, refused>>

EnqueueDone(e) ==
    /\ dispatch[e].pc = "next"
    /\ dispatch[e].todo = {}
    /\ dispatch' = [dispatch EXCEPT ![e].pc = "done"]
    /\ UNCHANGED <<row, hook, upd, proc, send, refused, budget>>

\* The unconditional "mark in progress" update, then the immediate send
\* goroutine with its in-memory copy of the delivery.
EnqueueMark(e) ==
    LET d == <<e, dispatch[e].cur>> IN
    /\ dispatch[e].pc = "mark"
    /\ dispatch' = [dispatch EXCEPT ![e].pc = "next"]
    /\ \/ /\ DbError
          /\ UNCHANGED <<row, proc, send>>
       \/ /\ row' = [row EXCEPT ![d].status = "in_progress", ![d].started = "fresh"]
          /\ proc' = ForgetStale({d})
          /\ send' = [send EXCEPT ![d] = [pc |-> "ready", d |-> d,
                                          attempts |-> 0, cfg |-> row[d].cfg]]
          /\ UNCHANGED budget
    /\ UNCHANGED <<hook, upd, refused>>

(***************************************************************************)
(* WebhookDeliveryProcessor: Start and processPendingDeliveries.           *)
(***************************************************************************)

\* A ticker tick starts processPendingDeliveries, which captures now.
Tick(p) ==
    /\ proc[p].pc = "idle"
    /\ proc' = [proc EXCEPT ![p] = [pc |-> "claim", batch |-> {},
                   dueAt |-> {d \in DeliveryIds : Exists(d) /\ row[d].due},
                   staleAt |-> {d \in DeliveryIds :
                                  Exists(d) /\ row[d].started = "old"}]]
    /\ UNCHANGED <<row, hook, upd, dispatch, send, refused, budget>>

\* Mutant: the claim query without its stale in_progress clause.
ClaimableNoReclaim(p) ==
    {d \in DeliveryIds :
        Exists(d) /\ row[d].status = "pending" /\ d \in proc[p].dueAt}

\* The WHERE clause of the claim query, under the captured now.
Claimable(p) ==
    {d \in DeliveryIds :
        /\ Exists(d)
        /\ \/ row[d].status = "pending" /\ d \in proc[p].dueAt
           \/ row[d].status = "in_progress" /\ d \in proc[p].staleAt}

\* The claim transaction finds nothing, or fails: the loop returns.
ClaimNone(p) ==
    /\ proc[p].pc = "claim"
    /\ \/ Claimable(p) = {} /\ UNCHANGED budget
       \/ DbError
    /\ proc' = [proc EXCEPT ![p] = IdleProc]
    /\ UNCHANGED <<row, hook, upd, dispatch, send, refused>>

\* The claim transaction selects up to BatchSize claimable rows and marks
\* them in_progress with processing_started_at = now.
Claim(p) ==
    LET C == Claimable(p) IN
    /\ proc[p].pc = "claim"
    /\ C # {}
    /\ \E B \in kSubset(Min({BatchSize, Cardinality(C)}), C) :
         /\ row' = [d \in DeliveryIds |->
                      IF d \in B
                      THEN [row[d] EXCEPT !.status = "in_progress",
                                          !.started = "fresh"]
                      ELSE row[d]]
         /\ proc' = [ForgetStale(B) EXCEPT ![p].pc = "work",
                       ![p].batch = {[d |-> d, attempts |-> row[d].attempts,
                                      cfg |-> row[d].cfg] : d \in B}]
    /\ UNCHANGED <<hook, upd, dispatch, send, refused, budget>>

\* The batch has been worked through: claim again under the same now.
BatchDone(p) ==
    /\ proc[p].pc = "work"
    /\ proc[p].batch = {}
    /\ send[p].pc = "idle"
    /\ proc' = [proc EXCEPT ![p].pc = "claim"]
    /\ UNCHANGED <<row, hook, upd, dispatch, send, refused, budget>>

(***************************************************************************)
(* processWebhookDelivery, failWebhookDelivery, sendWebhookRequest.        *)
(***************************************************************************)

\* Reload the row (on a DB error the in-memory copy is kept), marshal the
\* payload and issue the POST.
StartSend(s, c) ==
    LET d == c.d IN
    /\ \/ /\ send' = [send EXCEPT ![s] = [pc |-> "inflight", d |-> d,
                         attempts |-> row[d].attempts, cfg |-> row[d].cfg]]
          /\ UNCHANGED budget
       \/ /\ DbError
          /\ send' = [send EXCEPT ![s] = [pc |-> "inflight", d |-> d,
                                           attempts |-> c.attempts, cfg |-> c.cfg]]

\* The processor takes the next delivery of its batch.
ProcessorSend(p) ==
    /\ proc[p].pc = "work"
    /\ send[p].pc = "idle"
    /\ \E c \in proc[p].batch :
         /\ StartSend(p, c)
         /\ proc' = [proc EXCEPT ![p].batch = @ \ {c}]
    /\ UNCHANGED <<row, hook, upd, dispatch, refused>>

\* The goroutine spawned by enqueueWebhookDeliveries.
ImmediateSend(d) ==
    /\ send[d].pc = "ready"
    /\ StartSend(d, send[d])
    /\ UNCHANGED <<row, hook, upd, dispatch, proc, refused>>

MaxAttemptsOf(m) == IF m <= 0 THEN RetryScheduleLen ELSE m

\* Mutant: the give-up test one attempt early.
FailDeliveryEarly(d, attempts) ==
    LET n == attempts + 1
        gaveUp == n >= MaxAttemptsOf(EnqueueMaxAttempts) - 1
    IN  [row[d] EXCEPT !.attempts = n, !.lastError = TRUE, !.started = "none",
                       !.status = IF gaveUp THEN "failed" ELSE "pending",
                       !.due = IF gaveUp THEN @ ELSE FALSE]

\* Mutant: a refused request not yet given up is written with the status
\* "retrying" that ListWebhooks reports, instead of pending.
FailDeliveryRetrying(d, attempts) ==
    LET n == attempts + 1
        gaveUp == n >= MaxAttemptsOf(EnqueueMaxAttempts)
    IN  [row[d] EXCEPT !.attempts = n, !.lastError = TRUE, !.started = "none",
                       !.status = IF gaveUp THEN "failed" ELSE "retrying",
                       !.due = IF gaveUp THEN @ ELSE FALSE]

\* failWebhookDelivery: attempts and the status come from the copy read by
\* the sender, and the update is by id only.
FailDelivery(d, attempts) ==
    LET n == attempts + 1
        gaveUp == n >= MaxAttemptsOf(EnqueueMaxAttempts)
    IN  [row[d] EXCEPT !.attempts = n, !.lastError = TRUE, !.started = "none",
                       !.status = IF gaveUp THEN "failed" ELSE "pending",
                       !.due = IF gaveUp THEN @ ELSE FALSE]

\* The 2xx branch of processWebhookDelivery: the update is by id only.
DeliverDelivery(d) ==
    [row[d] EXCEPT !.status = "delivered", !.started = "none", !.lastError = FALSE]

\* The response arrives (2xx, non-2xx or a transport error) and the
\* outcome is written; the write itself may fail and is then only logged.
FinishSend(s) ==
    LET d == send[s].d IN
    /\ send[s].pc = "inflight"
    /\ \E ok \in BOOLEAN :
         /\ \/ /\ row' = [row EXCEPT ![d] = IF ok THEN DeliverDelivery(d)
                                         ELSE FailDelivery(d, send[s].attempts)]
                /\ proc' = [q \in Processors |->
                             [proc[q] EXCEPT !.staleAt = @ \ {d},
                                !.dueAt = IF row'[d].status = "pending" THEN @ \ {d} ELSE @]]
                /\ UNCHANGED budget
             \/ /\ DbError
                /\ UNCHANGED <<row, proc>>
         /\ refused' = [refused EXCEPT ![d] = @ + (IF ok THEN 0 ELSE 1)]
    /\ send' = [send EXCEPT ![s] = NoSend]
    /\ UNCHANGED <<hook, upd, dispatch>>

(***************************************************************************)
(* Users: CreateWebhook, UpdateWebhook, DeleteWebhook and                  *)
(* RetryFailedWebhookDeliveries, each run by the API server.               *)
(***************************************************************************)

\* findByIDAndOrg finds the webhook: it was created and not deleted.
Found(w) == hook[w].state \in {"active", "inactive"}

\* Validation failures change nothing; DB.Create stores the webhook with
\* IsActive true, or fails.
CreateWebhook(w) ==
    /\ hook[w].state = "never"
    /\ \/ hook' = [hook EXCEPT ![w].state = "active"] /\ UNCHANGED budget
       \/ DbError /\ UNCHANGED hook
    /\ UNCHANGED <<row, upd, dispatch, proc, send, refused>>

\* findByIDAndOrg loads the whole row; the request's fields are applied to
\* that copy.
UpdateLoad(w) ==
    /\ Found(w)
    /\ upd[w] = NoUpdate
    /\ hook[w].version < MaxVersion
    /\ upd' = [upd EXCEPT ![w] = [version |-> hook[w].version]]
    /\ UNCHANGED <<row, hook, dispatch, proc, send, refused, budget>>

\* DB.Save writes the loaded copy back: a request with a URL or secret is a
\* new version, and is_active is taken from the request whatever it was.
\* On a row deleted since the load the UPDATE matches nothing and Save
\* inserts the copy again.
UpdateSave(w) ==
    /\ upd[w] # NoUpdate
    /\ \/ \E active, newConfig \in BOOLEAN :
            /\ hook' = [hook EXCEPT ![w] = [state |-> IF active THEN "active" ELSE "inactive",
                                           version |-> upd[w].version + (IF newConfig THEN 1 ELSE 0)]]
            /\ UNCHANGED budget
       \/ DbError /\ UNCHANGED hook
    /\ upd' = [upd EXCEPT ![w] = NoUpdate]
    /\ UNCHANGED <<row, dispatch, proc, send, refused>>

\* One DELETE by id and organization; no row affected is a 404.
DeleteWebhook(w) ==
    /\ Found(w)
    /\ \/ hook' = [hook EXCEPT ![w].state = "deleted"] /\ UNCHANGED budget
       \/ DbError /\ UNCHANGED hook
    /\ UNCHANGED <<row, upd, dispatch, proc, send, refused>>

Retryable(w) ==
    {d \in DeliveryIds :
        /\ HookOf(d) = w /\ Exists(d)
        /\ \/ row[d].status = "failed"
           \/ row[d].status \in {"pending", "in_progress"} /\ row[d].lastError}

\* One UPDATE of every retryable row, or a failing one that changes nothing.
RetryFailedWebhookDeliveries(w) ==
    LET R == Retryable(w) IN
    /\ Found(w)
    /\ budget.retry < MaxRetries
    /\ \/ /\ row' = [d \in DeliveryIds |->
                     IF d \in R
                     THEN [row[d] EXCEPT !.status = "pending", !.due = TRUE,
                                         !.started = "none", !.lastError = FALSE]
                     ELSE row[d]]
          /\ proc' = [q \in Processors |->
                     [proc[q] EXCEPT !.dueAt = @ \ R, !.staleAt = @ \ R]]
          /\ budget' = [budget EXCEPT !.retry = @ + 1]
       \/ /\ budget.db < MaxDbErrors
          /\ budget' = [budget EXCEPT !.retry = @ + 1, !.db = @ + 1]
          /\ UNCHANGED <<row, proc>>
    /\ UNCHANGED <<hook, upd, dispatch, send, refused>>

(***************************************************************************)
(* Environment: time and crashes.                                          *)
(***************************************************************************)

\* The clock reaches a pending row's next_attempt_at.
BecomeDue(d) ==
    /\ Exists(d)
    /\ row[d].status = "pending"
    /\ ~row[d].due
    /\ row' = [row EXCEPT ![d].due = TRUE]
    /\ UNCHANGED <<hook, upd, dispatch, proc, send, refused, budget>>

\* Fifteen minutes pass since processing_started_at while no request for
\* the row is in flight (a request is bounded by the 30 s context).
BecomeStale(d) ==
    /\ Exists(d)
    /\ row[d].started = "fresh"
    /\ \A s \in Senders : ~(send[s].pc = "inflight" /\ send[s].d = d)
    /\ row' = [row EXCEPT ![d].started = "old"]
    /\ UNCHANGED <<hook, upd, dispatch, proc, send, refused, budget>>

\* A server process dies and restarts: its processor loop is lost, and on
\* the API server also the dispatch and immediate-send goroutines.
Crash(p) ==
    /\ budget.crash < MaxCrashes
    /\ budget' = [budget EXCEPT !.crash = @ + 1]
    /\ proc' = [proc EXCEPT ![p] = IdleProc]
    /\ send' = [s \in Senders |->
                 IF s = p \/ (p = ApiServer /\ s \in DeliveryIds)
                 THEN NoSend ELSE send[s]]
    /\ dispatch' = IF p = ApiServer
                   THEN [e \in Events |->
                           IF dispatch[e].pc \in {"next", "mark"}
                           THEN [dispatch[e] EXCEPT !.pc = "done"]
                           ELSE dispatch[e]]
                   ELSE dispatch
    /\ upd' = IF p = ApiServer THEN [w \in Webhooks |-> NoUpdate] ELSE upd
    /\ UNCHANGED <<row, hook, refused>>

(***************************************************************************)
(* The specification.                                                      *)
(***************************************************************************)

Environment ==
    \/ \E e \in Events : DispatchWebhook(e)
    \/ \E w \in Webhooks : \/ CreateWebhook(w) \/ UpdateLoad(w) \/ UpdateSave(w)
                          \/ DeleteWebhook(w) \/ RetryFailedWebhookDeliveries(w)
    \/ \E p \in Processors : Crash(p)

System ==
    \/ \E e \in Events : EnqueueCreate(e) \/ EnqueueMark(e) \/ EnqueueDone(e)
    \/ \E p \in Processors : Tick(p) \/ ClaimNone(p) \/ Claim(p)
                            \/ ProcessorSend(p) \/ BatchDone(p)
    \/ \E d \in DeliveryIds : ImmediateSend(d) \/ BecomeDue(d) \/ BecomeStale(d)
    \/ \E s \in Senders : FinishSend(s)

Next == Environment \/ System

\* Every goroutine keeps running and time keeps passing; users, events,
\* crashes and the outcome of a request are not forced.
Fairness ==
    /\ \A e \in Events : WF_vars(EnqueueCreate(e) \/ EnqueueMark(e) \/ EnqueueDone(e))
    /\ \A p \in Processors : WF_vars(Tick(p) \/ ClaimNone(p) \/ Claim(p)
                                     \/ ProcessorSend(p) \/ BatchDone(p))
    /\ \A d \in DeliveryIds : WF_vars(ImmediateSend(d)) /\ WF_vars(BecomeDue(d))
                           /\ WF_vars(BecomeStale(d))
    /\ \A s \in Senders : WF_vars(FinishSend(s))

Spec == Init /\ [][Next]_vars
FairSpec == Spec /\ Fairness

=============================================================================
