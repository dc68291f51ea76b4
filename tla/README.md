# TLA+ models of whatomate's background jobs and 2FA

This directory holds TLA+ specifications of the parts of whatomate where
concurrency, retries, crashes and time decide whether the program is
correct. Each module is translated from the Go source under `src/`.
`PROJECT.json` maps every definition to the lines it models. It also lists
the runs, the mutants that show each checked property can fail, the
findings and the hazards.

Parse a module with `tlasany M.tla` and check a run with
`tlc -workers 2 -config X.cfg M`, both from this directory.

## 1. The system and its parts

The repository slice contains the server's outbound webhook fabric, TOTP
two-factor authentication, the media cleanup sweeper, WhatsApp message
building, a few HTTP handlers (dashboard widgets, organization settings,
WebSocket upgrade), frontend views and tests.

| Part | Source | State it changes | Concurrency |
|---|---|---|---|
| Webhook dispatch | `unnamed/part_004` `DispatchWebhook`, `enqueueWebhookDeliveries` | inserts `webhook_deliveries` rows, marks them `in_progress`, spawns a sender | one goroutine per event (2 min context), one sender goroutine per row |
| Webhook delivery processor | `internal/handlers/webhook_delivery_processor.go` | claims rows (`FOR UPDATE SKIP LOCKED`), writes `delivered` / `pending` + backoff / `failed` | one ticker loop per server process, synchronous batch of up to 50 |
| Webhook handlers | `frontend/src/components/ui/alert/index.ts` (Go code) | `webhooks` rows; `RetryFailedWebhookDeliveries` resets deliveries | HTTP requests at any time |
| TOTP 2FA | `internal/handlers/two_factor.go` | `users.totp_secret`, `totp_enabled`, `totp_last_used_at` | concurrent HTTP requests of one user's sessions |
| Media cleanup | `internal/handlers/media_cleanup_processor.go` | deletes files under the media root | a ticker loop, racing file writers |
| WhatsApp client senders | `pkg/whatsapp/message.go` | none (builds request bodies, reads the provider's answer) | none |
| Dashboard widgets | `unnamed/part_005` | `dashboard_widgets` rows, `display_order` | HTTP requests |
| Organization settings | `unnamed/part_007` | the settings JSON of `organizations` | HTTP requests |
| WebSocket upgrade | lines 197-280 of the processor file | the connection hub (not in `src`) | per connection |

### How the webhook parts interact

An event goes to `DispatchWebhook`, which starts a goroutine. The goroutine
reads the organization's active webhooks from the cache. For each
subscribed webhook it then:

1. inserts a delivery row: `pending`, `attempts = 0`, `max_attempts = 6`,
   `next_attempt_at = now`, with a copy of the webhook's URL, headers and
   secret;
2. updates the row to `in_progress`, with `processing_started_at = now`,
   in a second, unconditional statement;
3. starts `processWebhookDelivery` for it.

Each server process runs a `WebhookDeliveryProcessor`. On every tick it
captures `now` once. It then repeatedly claims up to 50 rows, either
pending with `next_attempt_at <= now` or in_progress with
`processing_started_at <= now - 15m`. It marks them in_progress in the
same transaction and sends them one by one.

`processWebhookDelivery` reloads the row and POSTs it with a 30 s timeout.
It then writes `delivered`, or calls `failWebhookDelivery`, which:

- sets `attempts = loaded attempts + 1`;
- sets `failed` if that reaches `max_attempts`;
- otherwise sets `pending`, with `next_attempt_at = now + schedule[attempts-1]`.

Every one of these writes is by id only. `RetryFailedWebhookDeliveries`
sets `failed` rows, and pending or in_progress rows with a `last_error`,
back to pending and due now, keeping `attempts`.

### Hard behaviours in this code

- Two senders can hold the same row. The enqueue path sends at once while
  the processor can already claim the new pending row. A batch longer than
  15 minutes lets the stale clause reclaim rows still waiting in it. A user
  retry resets rows a sender is working on.
- Updates are by id, with no check of the state the sender saw, so a late
  answer overwrites a newer state.
- Crashes leave rows in_progress until the stale clause recovers them.
- `UpdateWebhook` saves the copy it loaded. A `DeleteWebhook` between the
  load and the `Save` is undone: GORM's `Save` inserts the copy again.
- DB statements fail and are only logged: a row can stay pending or
  in_progress.
- Backoff arithmetic: the off-by-one of `attempt-1` and the clamp to the
  last entry decide every delay.
- Every TOTP handler loads the user, checks it, and writes later. Overlapping
  requests see stale rows, which affects replay protection, the enable
  step, a setup's "not enabled" check and the secret a code is checked
  against.

## 2. Modules

| Module | Models | Composes |
|---|---|---|
| `WebhookOutbox` | dispatch, processor, senders, failure/retry, webhook create/update/delete, user retry, crashes, DB errors | all webhook parts in one state machine (they share one table) |
| `MCWebhookOutbox` | instance: model values, `Subscribes`, the outbox properties | extends `WebhookOutbox` |
| `RetrySchedule` | one delivery in real time: immediate send, ticker, `failWebhookDelivery`, `nextWebhookAttemptDelay` | - |
| `MCRetrySchedule` | the schedule in 30 s units and the timing properties | extends `RetrySchedule` |
| `TwoFactor` | one user's TOTP columns and concurrent 2FA requests | - |
| `MCTwoFactor` | model values, the view without `uses`, and the 2FA properties | extends `TwoFactor` |
| `InteractiveMessages` | the six senders of the WhatsApp client: their checks, the title truncation, encoding/json's text output and the handling of the provider's answer | - |
| `MCInteractiveMessages` | the message-id model values | extends `InteractiveMessages` |
| `DashboardWidgets` | create, update, delete and reorder of widgets, one step per SQL statement | - |
| `MCDashboardWidgets` | model values, symmetry, the dashboard order and the widget properties | extends `DashboardWidgets` |
| `AtomicSettings` | the abstract specification of the settings update: an atomic merge of the request's fields | - |
| `OrganizationSettings` | `UpdateOrganizationSettings` as load-then-`Save` requests | instantiates `AtomicSettings` for its data sets |
| `MCOrganizationSettings` | the keys and values, and the refinement `RefinesAtomicSettings` | extends `OrganizationSettings`, instantiates `AtomicSettings` with `org <- org` |
| `MediaCleanup` | the media sweeper of one organization, with uploads, time and the auto-delete switch | - |
| `MCMediaCleanup` | model values and the sweeper properties | extends `MediaCleanup` |

### WebhookOutbox: state and actions

State:

| Variable | Code |
|---|---|
| `row[d]` | the delivery row: status, attempts, `last_error <> ''`, the webhook config version copied at enqueue, and two time flags |
| `hook[w]` | the webhook: never created / active / inactive / deleted, and a version bumped by every update |
| `upd[w]` | an `UpdateWebhook` request between its load and its `Save`, with the version it loaded |
| `dispatch[e]` | the enqueue goroutine: its list of webhooks and config snapshot, where it is in the loop |
| `proc[p]` | the processor loop: idle / claiming / working a batch, its batch copies, and the rows whose timestamps satisfied the `now` it captured |
| `send[s]` | a sender (a processor loop, or the immediate goroutine of delivery `d`): ready / request in flight, with the attempts and config it loaded |
| `refused[d]` | history: how many requests the subscriber refused |
| `budget` | crashes, DB errors and retries used |

A delivery id is the pair (event, webhook).

**Time.** Time is abstracted to what the claim query distinguishes:

- `due`: `next_attempt_at <= clock`;
- `started`: `none` / `fresh` / `old`, where `old` means
  `processing_started_at` is at least 15 min in the past.

`Tick` copies which rows satisfy the clauses at the captured `now`. Any
later write of a timestamp stores a time after that `now`, so it removes
the row from the copies (`ForgetStale`). `BecomeDue` and `BecomeStale` are
time passing. `BecomeStale` requires that no request for the row is in
flight: 15 min cannot pass during a request bounded by 30 s. A row waiting
in a batch can become stale, which is how a batch longer than 15 min is
represented.

Actions and the code they model (line ranges are in `PROJECT.json`):

| Action | Code |
|---|---|
| `DispatchWebhook` | spawn plus `getWebhooksCached` and the subscription filter |
| `EnqueueCreate` | one loop turn: ctx break, Create error, or insert |
| `EnqueueMark` | the in_progress update (or its error) and the goroutine spawn |
| `EnqueueDone` | the end of the loop |
| `Tick` | one ticker fire: `processPendingDeliveries` starts and captures `now` |
| `Claim`, `ClaimNone` | the claim transaction: rows claimed, or empty / error |
| `ProcessorSend`, `BatchDone` | the batch loop |
| `ImmediateSend`, `StartSend` | the start of `processWebhookDelivery`: reload (or keep the copy on error) and POST |
| `FinishSend` | the answer and the by-id update (`DeliverDelivery` / `FailDelivery`), or its error |
| `CreateWebhook`, `DeleteWebhook`, `RetryFailedWebhookDeliveries` | the handlers, each with its DB error branch; `Found` is `findByIDAndOrg` |
| `UpdateLoad`, `UpdateSave` | `UpdateWebhook`: the load and the fields applied to the copy, then `DB.Save` of the copy (or its error). Only a request with a URL or secret makes a new version. A `Save` after a delete re-inserts the webhook |
| `Crash(p)` | a process dies: its loop restarts idle; on the API process the dispatch and immediate goroutines vanish |

### RetrySchedule

- The clock counts real time in 30 s units.
- The ticker has any phase and period `PollInterval`.
- Attempt 1 is the immediate send at time 0.
- `failWebhookDelivery` takes `time.Now()` after the request, up to
  `MaxLatency` later than its start.
- `sent` records the start time of every request.

### TwoFactor

A request is two steps, `Read` (the load of the user row) and one step of
its handler:

- `SetupTOTP`, `ResetTOTP`, `DisableTOTP`, `VerifyTOTP` and
  `VerifyTwoFALogin` each make the handler's checks on the loaded row.
- The code-checking handlers then run `validateTOTPCode` against the loaded
  row and the current clock.
- Each finishes with the handler's by-id update.

A TOTP code is the pair (secret, step) it is generated from, since a
6-digit collision is not what these properties are about.
`SetupTOTPWithToken` has the same check (`SetupAllowed`) and update as
`SetupTOTP`, so it is covered by that action. `DisableTOTP` writes
`ClearTOTP` of the row. The update after an accepted code may fail
(`AcceptCode`): `VerifyTwoFALogin` only logs that and issues the tokens,
while `VerifyTOTP` answers 500. `uses` and `verified` are history variables
that record acceptances. No guard reads `uses`, so `totp_sequential`, whose
property does not mention it, checks with the view `ViewWithoutUses`.

### InteractiveMessages

The senders keep no state; a behaviour is one call, and `out` holds what
the provider receives and what the call returns.

- A character is the length w (1 to 4) of its UTF-8 encoding. Its k-th
  byte is the number `10 * w + k`, so `Utf8Bytes` is Go's `[]byte(s)`.
- `TruncateBytes` is `if len(t) > limit { t = t[:limit] }`. `len` and the
  slice count bytes.
- `JSONText` is what `encoding/json` writes for a Go string. A complete
  UTF-8 sequence stays a character. Any other byte becomes U+FFFD
  (`ReplacementChar`).
- The actions keep each function's argument checks (0 or more than 10
  buttons; an empty CTA text or URL; a missing flow id or body), the
  button/list choice at 3 buttons and the `"Open"` default of a Flow CTA.
- `SendTextMessage` sends its body whole. `SendTemplateMessage` and
  `SendTemplateMessageWithComponents` pass their arguments through without
  a check; their payload is reduced to its kind.
- Every sender ends with `Response`: the `doRequest` error, the
  `json.Unmarshal` error, `"no message ID in response"`, or the first
  message id. The provider's answer is one of `Answers`: a failed request,
  a body that is not JSON, or a JSON body whose `messages` list is empty
  or holds one entry. An entry without an `id` unmarshals to `""`, and the
  call returns it as a success.

### DashboardWidgets

`widget[w]` is a row: live, deleted or never created, with its owner,
`display_order` and creation rank (`created_at`). `req[u, t]` is the
request of user `u` in tab `t`, for the pairs in the constant `Sessions`,
so one user may work in more tabs than another. The handlers are split into their
statements:

- `CreateReadMax` and `CreateInsert` are the `MAX(display_order)` query
  and the insert. The unchecked `Scan` error leaves the maximum at 0.
- `ReorderStart`, then one `ReorderStep` per id, then `ReorderDone`. The
  `UPDATE` error is ignored, as in the code.
- `UpdateLoad` and `UpdateSave`: the lookup with the owner check, then
  `DB.Save` of the loaded row. When the row was deleted meanwhile, GORM
  either inserts it again or fails. Both are possible because the model
  struct is not in `src`.
- `DeleteDashboardWidget` is one step, since its lookup and its delete
  have no effect another request can observe in between.

`last[u]` (the ids of the last reorder answered) is a history
variable. Reorder lists hold
distinct ids of widgets that already exist, the user's own or not: the
dashboard a user reorders also lists the widgets other users share
(`is_shared`), so a reorder request carries other users' ids in normal
use. `is_shared` itself is left out, since no write depends on it.

### OrganizationSettings and AtomicSettings

`AtomicSettings` states what a settings update promises: one atomic
step that sets the keys the request carries and a non-empty name. It
keeps every other key. `OrganizationSettings` has the handler's two
steps:

- `Load`: the body parse and `First(&org)`;
- `Save`: the in-memory changes (`Apply`) and `DB.Save` of the whole row,
  or its failure.

`MCOrganizationSettings` instantiates `AtomicSettings` with the
refinement mapping `org <- org`. Load steps are stuttering steps, and
every save must be an `Update` step of the abstract specification.

### MediaCleanup

`file[p]` is what `os.Stat` finds: absent, a directory, or a file whose
mtime is before the cutoff (`old`) or after it (`fresh`). `refs` are the
paths the messages and campaigns reference, plus `NoMedia` for rows with
an empty path. `sweep` is the processor:

- `Tick`: the organizations and their settings are loaded, or the query
  fails.
- `CleanupOrganization`: the organization's turn. It is skipped unless
  the settings copy enables cleanup. Otherwise the paths are collected,
  or a `Pluck` or the `filepath.Abs` of the media root fails.
- `CheckPath`: one turn of the loop over the unordered path set. It makes
  the `..` check, the prefix check, the stat and the mtime test. An
  `os.Stat` error other than NotExist is logged and the path skipped.
- `RemoveFile`: `os.Remove`, which may fail (logged, the loop goes on);
  and `SweepDone`.

`errors` counts the failing queries and file operations, up to
`MaxErrors`.

`Upload`, `Age` (time passing between sweeps) and `SetAutoDelete` are the
environment. The code that uploads media and sets
`auto_delete_media_enabled` is not in `src`. One organization suffices:
the loop treats organizations independently, and their paths are
disjoint as far as the code shows.

## 3. Runs

| Run | Expect | Properties | What it shows |
|---|---|---|---|
| `outbox_settle` | pass | `TypeOK`, `NeverAbandonedEarly`, `EventuallySettled` | With 1 crash, 1 failing DB statement, 1 user retry (which may itself fail), webhook creation, updates and a delete in any order (a Save after the delete re-inserts the webhook), every delivery that was inserted ends delivered or failed, and none is given up before the subscriber refused it `max_attempts` times. This holds despite lost increments and duplicate senders. 639k states, about 60 s. |
| `outbox_exclusive` | violation | `ExclusiveSend` | The processor claims a new pending row before `enqueueWebhookDeliveries` marks it, and both senders POST the same delivery (6 steps). |
| `outbox_config` | violation | `SendsCurrentConfig` | The event is dispatched, `UpdateWebhook` saves a new URL, the row is inserted with the config of dispatch time, the first request is refused, and the retry still uses that config, although the reload comment in `processWebhookDelivery` says it picks up updated URL/headers/secret. |
| `retry_schedule` | pass | `TypeOK`, `DelaysFollowSchedule`, `EventuallyFinal` | Between request k and k+1 lies at least `schedule[k]` and at most `schedule[k] + latency + one tick - 1 unit`; every delivery ends delivered or failed. |
| `totp_sequential` | pass | `TypeOK`, `EnabledSecretVerified` | When the user's requests do not overlap, across any sequence of setup, reset, disable, verify and login, with failing updates after an accepted code: 2FA is enabled only for a secret a code was verified for. 40k states (under the view without `uses`), a few seconds. |
| `totp_replay` | violation | `CodeAcceptedOnce` | Two overlapping `VerifyTOTP`/login requests with one code both succeed. With one request at a time (`MaxInflight = 1`) TLC finds the same replay through a setup-token login whose update of `totp_last_used_at` fails and is only logged. |
| `titles_bytes` | pass | `TypeOK` | Every call of every sender, on texts of 16 to 24 ASCII characters followed by up to 3 characters of any width and on every answer of the provider, sends text (the cut bytes go through the JSON text encoding) and ends in one of the sender's outcomes. |
| `widgets_faults` | pass | `TypeOK`, `OwnerOnlyWrites` | Two users, one of them in two tabs, one failing statement: no step of one user's requests writes another user's widget, whatever ids a reorder carries and however the requests interleave. 1.5M states, about 30 s. |
| `widgets_reorder_race` | violation | `ListedInRequestedOrder` | An update loaded in a second tab before a reorder saves after it, and puts the old `display_order` back. |
| `settings_sequential` | pass | `TypeOK` | Updates that do not overlap, with failing saves, never write an empty name and keep every key well-formed. With one request at a time the refinement of `AtomicSettings` holds by construction (`Apply` is the merge), so it is checked only where it can fail. |
| `settings_lost_update` | violation | `RefinesAtomicSettings` | Two overlapping updates of different keys: the second `Save` writes the row loaded before the first one saved. |
| `media_sweep` | pass | `EventuallyCleaned` | Every referenced file older than the cutoff is deleted eventually while auto-delete stays on, despite failing queries, a failing `os.Stat` or `os.Remove`, uploads and toggling. MediaCleanup has no type invariant in a run: no plausible bug of the sweeper produces an ill-typed state. |

`ListedInRequestedOrder` is checked only by the race run: with overlapping
requests of one user it fails, which is the finding. Some further
disagreements the models reach are recorded as hazards in `PROJECT.json`,
not as runs:

- the spec's +24h retry, which the code never makes because it gives up
  at the 6th request;
- "truncate to 20 chars" in the comments, where the code cuts 20 bytes;
- a success returned with the empty id of a `messages` entry without one;
- retries sent to a deleted or deactivated webhook;
- a deleted widget re-inserted by a stale `Save`;
- a file rewritten between the sweeper's `os.Stat` and `os.Remove`;
- files removed by a sweep that started before the admin switched
  auto-delete off;
- 2FA enabled on a secret that a concurrent setup stored;
- with two overlapping requests, 2FA switched off by a setup that loaded
  the row before a verify enabled it, and a code of a secret replaced by a
  concurrent setup accepted. With one request at a time both properties
  would only restate a guard (the setup's check, the clearing of the
  secret), so they are not kept as passing properties either.

Each property of a passing run has a mutant in `PROJECT.json`. A mutant is
a plausible bug in the mapped code, and TLC finds the property violated
under it:

- the give-up test one attempt early;
- the claim query without its stale clause;
- the schedule indexed by `attempt` instead of `attempt-1`;
- no give-up at all;
- a new secret that keeps `totp_enabled`;
- `totp_last_used_at` cleared with the zero time instead of NULL;
- the reorder `UPDATE` without its `user_id` condition;
- the cut bytes sent without the JSON text encoding;
- the reorder index taken as 1-based (`i - 1`);
- an empty name written;
- the mtime test reversed.

### Bounds and why they suffice

- **`outbox_settle`**: one event, one webhook, one processor, which is
  also the API process. Even with one processor there are two senders (the
  processor and the immediate goroutine), so the duplicate-send interleavings
  all occur. `BatchSize = 50` as in the code; with one row it never binds.
  `max_attempts = 6` and a schedule of length 6, as in the code, so the
  give-up path is reached with its real numbers. One crash, one DB error,
  one retry and one webhook version are enough for every error path to
  fire; TLC's coverage shows every action and disjunct taken. The webhook
  starts either not yet created or active, so creation, its DB error and
  an event dispatched before the webhook exists are all reached. Two webhooks
  or two processors make the state space exceed 15 minutes.
- **The violation runs**: the same instance with no faults; the traces are
  6 to 10 steps long.
- **`retry_schedule`**: the real schedule (1m, 5m, 15m, 1h, 6h, 24h) in 30 s
  units, a 1-minute ticker of either phase, and writes up to 30 s late.
  `MaxClock` is 1000 units (500 min). The code's last request starts by
  unit 892 (the five delays, 882 units, plus at most one unit of latency
  and one of tick phase per retry), so the horizon never cuts off a
  behaviour of the code; it only stops the mutant that never gives up.
  The ticker interval is configured outside `src`; one minute is
  the finest interval the spec's S4 scenario (a tick at t+59 s and t+61 s)
  suggests.
- **`titles_*`**: the ASCII run of 16 to 24 characters followed by up to
  three characters of widths 1 to 4 puts a character boundary, or a cut
  through a 2-, 3- or 4-byte character, at every position around both
  limits (20 and 24 bytes). Texts shorter than the limit and the empty
  text are included.
  Two message ids and an entry without an id give the answers that list
  one message; the answer that lists none, the failed request and the
  non-JSON body are the error paths.
- **`widgets_*`**: two widget ids and reorder lists of up to two ids.
  Two widgets of one user are enough for an order between them to be
  right or wrong. `widgets_faults` has user `u1` in two tabs, which gives
  every overlap of two requests of that user, and user `u2` in one, which
  gives every step of a second user's request between `u1`'s steps; one
  failing statement; reorder lists of one id, which is all
  `OwnerOnlyWrites` needs (any id, the user's own or not). Two users with
  two tabs each and lists of two ids take more than 5 minutes. Widget ids
  are symmetric there, and users too in the race run, where every user has
  both tabs. The race run stops at its first violation.
- **`settings_*`**: all three keys and two names with one request. The
  violation run has two requests, two keys and one name. `date_format`
  behaves exactly like `timezone`.
- **`media_*`**: three paths, one of them containing `..`, in every
  initial state: absent, a directory, old or fresh, referenced or not; one
  failing query, `os.Stat` or `os.Remove`.
- **`totp_*`**: two requests, three secrets and four TOTP steps. Four steps
  make codes of the previous, current and next step, and later ones, all
  occur. Three secrets allow setup, reset and setup again, so a secret is
  replaced by a reset while codes of it can still be presented.

### Fairness

- **`WebhookOutbox`**: weak fairness on every goroutine (the enqueue loop,
  each processor loop, each sender's answer, which is bounded by its 30 s
  context) and on time passing (`BecomeDue`, `BecomeStale`). Go schedules
  runnable goroutines and tickers keep firing, which justifies it.
- **Not fair**: users, new events, crashes and DB errors are environment
  and may or may not happen. The answer of a request (2xx or not) is chosen
  freely at each step, so `EventuallySettled` does not rely on a subscriber
  that eventually answers.
- **`RetrySchedule`**: the immediate goroutine and the ticker are weakly
  fair.
- **`TwoFactor`**, **`InteractiveMessages`**, **`DashboardWidgets`**,
  **`OrganizationSettings`**: no fairness, since only safety is checked.
- **`MediaCleanup`**: weak fairness on the sweeper's steps. `Start`'s
  ticker keeps firing and the sweep goroutine runs. Uploads, time and
  the admin are not fair.

`retry_schedule` turns off deadlock checking: once the row is delivered or
failed, nothing in that model can change, and the delivery's life has
ended. `titles_bytes` turns it off too, because a behaviour is a single
call.

## 4. What is not modelled, and the plan for later modules

- **Not modelled at all**:
  - JSON marshalling errors of the payload;
  - HMAC signing and headers;
  - `validateWebhookURL` and the SSRF-safe dialer (string and network
    checks);
  - the webhook cache's own code (not in `src`; its freshness is taken
    from the spec);
  - `ListWebhooks`, `GetWebhook` and `TestWebhook` (they write nothing);
  - that a deleted webhook stays deleted: the model has the `Save` that
    re-inserts it, but a run stating it would be one more violation run;
  - the JWT, password and permission checks of the 2FA handlers, and the
    permission and validation checks of the widget handlers (they answer
    an error and change nothing);
  - the read-only handlers: `GetOrganizationSettings`,
    `ShouldMaskPhoneNumbers`, the widget list and the widget queries;
  - the WebSocket handler: an origin check, a JWT check and the upgrade,
    with no state of their own. The hub that registers the connection and
    the JWT claims type are not in `src`, so what a token grants cannot be
    modelled from the code. One hazard is listed in `PROJECT.json`: no
    check of a token's purpose, so a `two_fa_token` may open a WebSocket
    before the second factor;
  - the cutoff arithmetic of `processStaleMedia`: `days * 24h` in int64
    nanoseconds wraps for more than 106751 days and puts the cutoff in the
    future, so every referenced file goes. The 64-bit product is beyond
    TLC's integers, and the model keeps modification times as old or
    fresh; the hazard is listed in `PROJECT.json`;
  - the issuing of the 2FA tokens: `generateTwoFAToken` and
    `generateTwoFASetupToken` are called by the password login, which is
    not in `src`, so which purpose a user's token has is taken as given by
    the request kind (`login` or `setupLogin`);
  - a failing `totp_last_used_at` update in `VerifyTwoFALogin`, which is
    only logged while the login succeeds. It would break `CodeAcceptedOnce`
    in the passing run; the replay is already shown by `totp_replay`;
  - the frontend and the tests.
- **Planned for later modules**:
  - Two processors in `WebhookOutbox` with a bounded batch, to check the
    25-minute batch against the 15-minute stale cutoff, perhaps with
    symmetry on the processors.
  - An abstract delivery lifecycle (pending, in progress, delivered or
    failed, with attempts that only grow), with `WebhookOutbox` checked
    against it by a refinement mapping.
  - `MediaCleanup` with several organizations, once the upload code that
    decides whether organizations can share a path is available.
