# Verification of the paid timestamp service

TLA+ models of the service that sells Bitcoin timestamps: the durable job queue
with its task dispatch, checkout and payment up to the stamp job, the
fulfillment handlers from there to the final confirmation notice, what they ask
of calendars, Bitcoin and the mail provider, and what the API answers to a
customer meanwhile. TLC checks them on small instances; TLAPS proves every safety
property that the runs check for every value of the constants, three of them
under a hypothesis that section 5 names. Liveness is model-checked.

## 1. The system

The repository is a browser application that builds certificates for
meteorites (`src/src`), and a service (`src/timestamp-service/app`) that sells
an OpenTimestamps proof for a certificate's digest. The browser application is
single-user code over files. The service is where things run concurrently: a
FastAPI process answers customers and webhooks, one or more worker processes
run durable jobs, Cloud Tasks wakes them, Stripe and Resend call back, and all
of them meet in one PostgreSQL database at READ COMMITTED.

| Component | State it keeps | Operations | What is hard |
|---|---|---|---|
| Durable job queue (`db/repositories.py`) | `durable_jobs`, `job_attempts` | enqueue, claim, claim a named job, heartbeat, finish | leases that expire under a live worker, shared worker ids, attempt budget |
| Worker loop (`worker/runner.py`) | locals of a run | run, heartbeat beside the handler, retry, exhaust, escalate | crash between two transactions, lease lost between heartbeat and finish |
| Task dispatch (`tasks/`) | `task_dispatches`, Cloud Tasks | dispatch, reconcile, recover stale, task route | create before mark, outages, lost, late and duplicate tasks |
| Operator (`worker/operator.py`) | none | replay, reconcile, recover, reverify, upgrade | commands race with workers |
| Payment webhook (`payments/service.py`) | `orders`, `stripe_events` | process one event | duplicate, concurrent and reordered events; session read long before the write |
| Checkout (`payments/service.py`) | `idempotency_requests`, `order_tokens` | reserve, call Stripe, finalize, resume, replay | takeover of an expired reservation |
| Fulfillment handlers (`fulfillment/handlers.py`) | `proof_versions`, `proof_verifications`, `bitcoin_confirmation_observations`, `proof_bundles`, order row | stamp, upgrade, deliver, confirm | handlers are not fenced by the lease; external calls between transactions |
| Notifications (`notifications/`, `db/notification_adapters.py`) | `outbox`, `notification_attempts`, `resend_webhook_events` | enqueue, claim, sweep, send, record, retry, webhook | webhook overtakes the send; takeover while a mail is out; idempotency horizon |
| Calendars (`timestamping/calendars.py`) | a semaphore | submit, upgrade | some calendars down or malformed, cancellation, overlapping upgrades |
| Bitcoin verification (`bitcoin/`) | lookup tasks, slots | verify against a node or two explorers | the chain moves between two calls; one explorer lies; a lookup shared by requests |
| Proof bundles (`proofs/`) | `proof_bundles` | build receipt, validate, store once | times written and compared at different precision; two releases |
| Status and download (`api/routes.py`) | `order_tokens`, `download_events` | status, download, rotate token | two transactions with work in between; reads without locks |
| Limits (`security/`, `db/cleanup.py`) | `rate_counters` | count, refuse, clean up | counter at its limit, body that grows after the response began |
| MetBull lookup (`metbull/`, `scripts/update_metbull_snapshot.py`) | two files | update, start, look up | two files replaced one after the other, kill and power loss |
| Browser panel (`PaidTimestampPanel.tsx`) | component state, local storage | checkout, resume, poll | late responses |

How they interact: checkout creates the order row and Stripe's session;
Stripe's events reach the webhook, which in one transaction writes the payment
state, the stamp job, its dispatch intent and a mail; the route then asks the
dispatcher to create the Cloud Task; the task request claims the job and runs
its handler; the handler writes proofs and the order row, and enqueues the next
job (stamp, upgrade, delivery, confirmation polls); delivery enqueues a mail.

What makes each part correct:

* queue: one attempt of a job at a time may decide it; a job is never without a
  record that can wake a worker; it settles once, within its budget; it does
  not fail silently;
* payment: the order never says more than Stripe has done; exactly the paid
  orders are worked on; no event about money is refused without a reason;
* fulfillment: no new external work after the money went back; proofs only
  grow; an order is delivered only with verified evidence;
* checkout: one order and one session for a key, one valid token for an order;
* notifications: at most one mail of a kind while the provider deduplicates,
  and outcomes that late reports cannot undo;
* verification: what is called verified was true of an honest view of the chain
  during the call, and a proof is condemned only by the chain;
* download and status: what leaves is current, authorised and backed by
  evidence; what the status calls available is served.

`PROJECT.json` lists every component with its status and, under `hazards`, the
lines where these can go wrong.

## 2. Modules

| Module | What it is |
|---|---|
| `JobQueue` | job tables, Cloud Tasks, workers, operator |
| `JobContract` | what the queue promises its callers, without leases, tasks or processes |
| `OrderState` | the order's two state tables, used by `Payment` and `Fulfillment` |
| `Payment` | Stripe, webhook requests, the order row, the worker's writes to it |
| `Checkout` | reservations under an idempotency key, Stripe's sessions, status tokens, retention of both |
| `Fulfillment` | the four job handlers, the tables they write, calendars, chain and operator |
| `ProofDownload` | extends `Fulfillment` by the customer's status and download requests |
| `Bundle` | receipts, the bundler's checks, the delivery job |
| `Notification` | outbox, notification workers, Resend and its webhook |
| `Calendars` | submissions and upgrades through the semaphore |
| `BlockTree` | blocks as a tree, used by the two verifiers |
| `EsploraVerifier`, `RpcVerifier` | one verification, call by call, against two explorers or one node |
| `EsploraTransport` | name lookup, pinned address and slots of the explorer requests |
| `RequestLimits` | rate windows, body sizes, one response |
| `MetbullSnapshot` | updater, API start and lookups over the two files |
| `MC...` | instances for TLC; `MCApi`, `MCBitcoin`, `MCDelivery` and `MCLive` put parts that share no state into one run |
| `..._proofs` | theorems: `Api_proofs` is about `Checkout`, `RequestLimits` and `MetbullSnapshot`, `Bitcoin_proofs` about both verifiers and the transport, `Fulfillment_proofs` about `Fulfillment` and `ProofDownload`, the others about the module of their name |

### JobQueue

One transaction is one action. Whatever the code awaits between two
transactions separates two actions. A *call* is one activation: a task request,
a poll of the SQL worker, a webhook's reconcile, an operator command. Its
program counter says where it is:

* `handling`: the handler runs, with the heartbeat task beside it;
* `handled`: the handler returned; the final heartbeat is next;
* `fenced`: that heartbeat succeeded, the result is acted on;
* `reviewed`: the order was escalated, `finish` is next;
* `dispatch`, `reconcile`: rows of `task_dispatches` are given to Cloud Tasks.

`attempt_log[j]` is `job_attempts`, one entry per attempt, `open` until
`finished_at` is set. `intents` are the rows of `task_dispatches`, `dispatched`
those marked so. `created` is every task name Cloud Tasks has seen and `queue`
what it still delivers; a name may be accepted again after its tombstone is
gone, and `AlreadyExists` counts as success, as in `CloudTasksCreator`. A task
leaves the queue only when its request answered 204, so an answer of 503, a
failed request and a crash all leave it there.

Time is two booleans per job: `due` (`available_at <= now`) and `lease_live`
(`lease_until >= now`). A lease may expire at any time while its holder lives,
which is what a pause longer than the lease does; the holder's heartbeat still
revives it if nobody took over, as the code does. `claim_specific` refuses a
job that is early or leased with an exception, so no action corresponds to it:
the task simply stays queued.

The worker id is a function of the call (`WorkerOf`). `task_main` gives one id
to the whole process, so the checked instance lets both calls share it; that is
the harder case for fencing, since only the attempt number then tells two runs
apart.

`review` stands for "the order of this job was moved to manual_review". The
escalation is not fenced in the code: an attempt that lost its lease after the
final heartbeat still makes it. The model does the same.

Coarser than the code: the list of pending rows that a task request reconciles
is read in the same step as the transaction before it. Rows that appear in
between would be picked up by a later reconcile, which the model has as well.
The reconcile limit of 100 rows and the age order are not modelled; `todo` is
worked off in any order.

### JobContract

A job is submitted once, attempted at most its budget of times, settled once by
a running attempt, and never fails before its order was escalated. The operator
may extend the budget of a waiting job. `JobQueue` implements it under the
mapping `available, retry -> waiting`, `leased -> running`.

### Payment

`WebhookService.process` is split where it awaits or changes transaction:
`receive` (first duplicate check), `lookup` (unlocked read of the session id),
`retrieve_checkout` (Stripe's answer is kept in `canonical`), then one locked
transaction that is one of `duplicate`, `reject`, `accept_payment`,
`accept_change`, `accept_unchanged`, then `reconcile` and the answer 200. Any
of these may fail (`handler_fails`), and Stripe then delivers again. An
`IntegrityError` on a concurrent insert of the same event is the `duplicate`
action of the request that came second.

The worker changes the same row: `transition_fulfillment_once` allows every
transition of the table at any time, so whatever the handlers do is covered.
Enqueueing the stamp job also enqueues the `payment_confirmed` mail; `jobs`
stands for both. The first duplicate check needs the payload hash and type to
agree; two deliveries of one event always do, so `_duplicate_result` reduces to
the recorded outcome.

An event that does not agree with its order is recorded with an error
(`reject`) and answered 400; every later delivery of it is a duplicate of a
rejected event and answered 400 as well (`api/routes.py:146`), so a rejection is
final whatever Stripe repeats.

A session keeps the Price it was created at (`session_price`), and
`_valid_binding` compares it with the Price that is configured when the event is
processed (`price`), which `rotate_price` changes at any time.

A payment is refunded in parts or at once; each refund may be pending first and
may fail. What `_canonical_checkout` makes of the charge are two fields: the sum
of the refunds that have not failed, and `refund_status`, which is `succeeded`
only if every refund in Stripe's list is. `_authoritative_full_refund` asks for
both and for an event that itself reports a success, so a refund event is often
accepted without effect; the event of a success (a member of `Refund`,
or `charge_refunded`) is told apart from the others (`refund_other`).

Stripe is external: a session is opened, completed (paid or not yet), settled,
failed or expired, refunded and disputed. Assumptions about it: a session
completes only after the customer was given its URL, that is after `_finalize`
committed; every refund that succeeds has an event of its own; events carry the
payment intent; amounts, currency and metadata are those of the checkout.

### Fulfillment

One order, and a set of *runs*, each one attempt at one of its jobs. A handler
is split at every repository call and at every call of a calendar or a Bitcoin
node; `pc` names the next one. What a handler keeps between them is in `snap`
(the loaded order), `seen` (the stored or new proof), `found` (the verifier's
answer) and `basis` (a count read earlier).

| Code | Actions |
|---|---|
| `_load`, `proofs.latest` and the checks on them | `load`, `latest` with `StampGoes`, `UpgradeGoes`, `DeliveryGoes`, `ConfirmationGoes` |
| `StampHandler` | `replay_start`, `replay_end`, `start`, `submit`, `append`, `append_conflict`, `response`, `persisted` |
| `UpgradeHandler` | `upgrade`, `append`, `append_conflict`, the verifier, `put_verified_once`, `record_once`, `verified`; `reverified` for an order that is confirmed already |
| `DeliveryHandler` | `get_verified`, `latest_observation`, `put_once`, `enqueue_notice` |
| `ConfirmationHandler` | `get_verified`, `latest_observation`, the verifier, `record_once`, `enqueue_notice` |
| the job wrappers in `worker/composition.py` | `spawn`, `after`, `poll` |
| `Worker._run_claimed` | `claim`, `finish`, `retry`, `escalate`, `terminal_failure`, `stop` |
| operator, Stripe, Resend | `operator_reverify`, `operator_upgrade`, `payment_returned`, `apply_delivered_event` |

What is abstracted:

* a proof's bytes are the submission they come from and the set of calendars
  whose attestation they hold; the submission's number is also its time;
* time matters only as the order of the verifier's answers, so `verified_at` is
  the value of `checks`; the clocks of workers are taken to agree;
* a job row is waiting, held by a run (`owns`) or settled. A lease may expire at
  any time; the run then goes on unfenced beside its successor, and `stop` is
  its death or cancellation. Attempts are not counted: whether a retry was the
  last one is left open (`retry` or `escalate`), and so is whether a lease that
  ran out was that of the last attempt. If it was not, the row waits for another
  claim (`lease_expires`); if it was, `claim_query` does not return it
  (`attempt_count < max_attempts`, `db/repositories.py:294`) and it stays leased
  for good (`last_lease_expires`, `stranded`);
* the poll's key names a second. Two polls in one second are one row in the
  code and two in the model; the row that exists is still waiting then;
* `enqueue_once` commits and then creates the task; a refused task fails the
  run after the commit (`Dispatch`);
* an operator command reads and enqueues in one step. A job that waits before
  it is claimed makes the same delay;
* the verifier is the node-backed one: it sees one state of the chain, or fails
  when the tip moves while it asks. A calendar anchors the digest once, and does
  not anchor it again after its block was abandoned.

### Checkout

`CheckoutService.create` is split where it awaits: `reserve` (one transaction
that inserts the key's row, takes over an expired lease, or replays a finished
one), the two calls to Stripe, and `_finalize`. Locks are explicit: a key's row
and an order's row are held by the transaction that selected them `FOR UPDATE`,
and a token row by the transaction that revokes it, with PostgreSQL's behaviour
at READ COMMITTED for a statement that had to wait. A request carries the Price
its process was configured with; `rotate_price` and a new deployment change it
for later requests. `cleanup` deletes rows past their retention, after which the
key is new again. What a change of the Price does to sessions that exist is in
`Payment`. Orders, sessions and tokens are
sequences, so "another one" is a later index; digests and signatures are the
values they stand for.

### Notification

A worker's `claim`, its request to Resend and the transaction that records the
answer are three steps which all use the time the worker read first. The
provider remembers idempotency keys until `Horizon` after the first attempt;
mails it has taken are `mails`, and what it will report of them `reported`. The
webhook's transaction is one step when it finds its row, which it locks, and two
when it does not: nothing is locked then, and `record_accepted` may commit in
between. Retry delays double from `BaseDelay` to `MaxDelay`. The order's side is
reduced to state, proof version, last count and whether a bundle is stored, and
the trigger on `orders` is a predicate that every step is compared with.

### ProofDownload

Both handlers beside `Fulfillment`'s own steps. What the SQLAlchemy session
does is modelled, not what the statement says: `authenticate` loads the order
without a lock, and the later `SELECT ... FOR UPDATE` waits for the row but
returns the object already in the session, so `order` in a request's locals is
the earlier read. A pending proof's bundle is built between two transactions;
the second one repeats the authentication and compares the selection. The
status handler's reads are separate steps.

### Bundle

A time is a second and the microseconds past it; in a receipt it is text with or
without a fraction, and `isoformat`, `rfc3339` and `date_time` are the three
conversions. The delivery job has its own small job row (attempts, lease), so
that a retry and an overtaken attempt meet the stored bundle. A worker's
`PRODUCT_VERSION` changes when its process restarts.

### Calendars

A call is one `stamp_exact_digest` or `upgrade_exact_digest`; each of its
requests waits for a slot, asks, and ends unavailable, malformed, empty or with
a timestamp. A proof is its pending attestations and the commitments a block
attests. Storing goes through the version check of `SqlProofStore.append`. An
upgrade may start at any time, as an operator's does; the jobs that poll go on
only while nothing attests the proof (`Polled`): `UpgradeHandler` stops calling
the calendars when an attestation has been verified. DNS,
TLS and the tree of operations between digest and attestation are left out; the
parser's checks of that tree are functions of the bytes.

### EsploraVerifier, RpcVerifier, EsploraTransport

One verification each, with every HTTP or RPC call a step, on a `BlockTree` that
grows and reorganizes between the steps. Two explorers have views of their own;
one of them may lie about anything except a header, which is checked against its
hash. The node answers truly of the moment it is asked, or fails. A failure is
`unavailable` when the code takes it as temporary (transport errors, a node that
starts, errors -5 and -8 of the chain calls, HTTP errors). A node that is not
`sound` may besides give an answer that the code takes as evidence against the
proof (`malformed`): one that is not JSON or too long, has the wrong shape,
another error code or another network (`bitcoin/rpc.py:104`, `:114-131`,
`:215-223`). The transport
has one lookup task per host, shared and shielded, an address that is pinned once
vetted, and connection slots.

### RequestLimits, MetbullSnapshot

The fixed window counter as the upsert of `RateLimitStore.hit`, cleanup, and the
body's size as declared and as counted while the application may already be
answering. Cleanup is modelled with cutoffs that are older than any request
still under way. That is an assumption on the operator who gives the cutoff:
`db/cleanup.py` deletes with any, and one in the present would let a caller be
counted from zero within a window. The updater writes and checks two
temporary files, synchronizes them and replaces the published ones one after the
other; a kill stops it anywhere, and a power loss undoes what no directory
synchronization has made durable. The API reads metadata, hashes the database
and opens it in three steps, and opens it again for every lookup.

## 3. Runs

| Run | Instance | Shows |
|---|---|---|
| `job_queue` | 1 job, 2 calls sharing a worker id, 2 attempts, replay grants 1, operator acts below generation 3, 2 faults; symmetry of calls | `RunnableHasIntent`, `TasksFollowIntents`, `OneFencedRun`, `HistoryExplainsState`, `FailureIsEscalated`, refinement `ImplementsContract` |
| `payment` | 1 order, 2 requests, 2 Prices, a partial refund and the rest; at most 5 events sent and 1 rejected; symmetry of requests and Prices | `LedgerIsTrue`, `WorkFollowsMoney`, `AcceptedEventsTakeEffect`, `OnlyRotationRejectsMoney`, `TriggerNeverRefuses` |
| `payment_live` | 1 order, 1 request at a time, 2 Prices, a refund that may be pending, 1 fault | `PaidOrdersAreStamped`, `RefundsAreRecorded` under `FairSpec` |
| `fulfillment` | scenarios *stamping* (2 runs, 3 submissions, refund and dispute, 2 faults), *upgrades* (2 runs, 2 calendars, 2 blocks, an operator request), *confirmations* (2 runs, the whole life up to the final notice at 2 confirmations, 1 fault), *download* (1 run and a customer's requests) | `OneSubmissionTime`, `VersionsGrow`, `VerificationsAreAttested`, `ConfirmedOnEvidence`, `NoticesAreBacked`, `NoOrderForgotten`, `StatusIsTrue`, `DownloadsAreCurrent` |
| `notification` | scenarios *sending* (3 workers, 8 ticks, horizon 5, 4 attempts), *delivery* (1 worker, 2 webhook requests, delivered and failure reports, 2 observations), *new_proof* (a second version while notices of the first are out) | `OutboxIsSound`, `OutcomesAreFinal` |
| `api` | scenarios *requests* (3 checkouts under one key, 2 prices, retention, 4 leases, 3 sessions), *rotations* (2 rotations and replayed checkouts, 5 tokens), *limits* (3 requests, 2 clients, 2 endpoints, 3 windows), *snapshot* (2 updates, 1 kill or power loss, exports of every kind the checks tell apart) | `OneCheckoutPerKey`, `TokensAreSingle`, `LimitsHold`, `SnapshotIsWhole` |
| `delivery` | scenarios *queue* (as `job_queue` with 1 fault and no replay), *delivery* (2 workers, 2 releases, 3 attempts, 2 lost leases, 2 seconds with 2 readings each) | `BundlesAreSound`, `WholeSecondsAreDelivered`, `QueueDrains`, under the fairness of both |
| `bitcoin` | trees of 4 blocks, 2 confirmations; scenarios *reorgs* (each explorer reorganized once), *liar*, *two* (2 attestations), *node* (1 reorganization, 2 attestations, a node that is sound or not), *transport* (3 requests, 2 slots, name servers change once) | `VerdictsAreTrue`, `NodeAnswersTruly`, `LookupIsShared` |
| `calendars` | 2 calls, 2 calendars of which one answers garbage, 1 foreign URI, 3 commitments of which one is too long, 2 slots, 1 cancellation | `CallsAreSound`, `ProofOnlyGrows` |
| `live` | scenarios *notices* (2 workers, 2 attempts, horizon 2), *calendars* (1 call, 2 honest calendars, 3 commitments of which two can be fetched), *transport* (1 request) | `EveryNoticeSettles`, `ServersAreHeard` under the fairness of each |
| `bundle_fraction` | 1 release, no faults, times with and without a fraction | `VerifiedIsDelivered` is violated (section 6) |
| `job_queue_crash` | as the queue of `delivery` | `CrashedRunsRecover` is violated (section 6) |

Some of these are conjunctions of parts that are stated and explained one by one
in their modules:

| Property | Parts |
|---|---|
| `StatusIsTrue` | the status is always answered while one worker is at the order (`StatusIsAnswered`); what it calls available is served (`AvailableIsServed`); a proof served as verified is backed by a verification and an observation (`VerifiedDownloadsAreBacked`) |
| `DownloadsAreCurrent` | what leaves is the selection that holds when it is recorded (`LeavesCurrent`), under a token that is valid then |
| `OutboxIsSound` | attempts are the history of their row (`AttemptsAreHistory`); no two workers hold a claim (`OneLiveClaim`); one mail of a kind while the provider deduplicates (`OneMailWithinHorizon`); an order is delivered by the mail of its own proof (`DeliveredByItsMail`) |
| `OutcomesAreFinal` | a settled notice is not undone by a late report (`Final`); handler and database trigger refuse the same orders (`TriggerAgrees`) |
| `OneCheckoutPerKey` | one order per key within retention (`OneOrderPerKey`), one session per order (`OneSessionPerOrder`), at the price it was reserved at (`ReservedPriceKept`) |
| `TokensAreSingle` | a token is replaced once (`TokenReplacedOnce`) and an order has one live token (`OneLiveToken`) |
| `LimitsHold` | no window admits more than its limit (`AdmittedWithinLimit`), refuses below it (`RefusedAtLimitOnly`), or answers twice (`OneResponse`) |
| `SnapshotIsWhole` | a process serves one export (`StartedOnOneBuild`), which answers every lookup (`PublishedIsServable`); a later update repairs what a killed one left (`UpdateRepairs`); nothing changes before the replacement (`NothingBeforeReplace`) |
| `BundlesAreSound` | a stored bundle tells the proof's times (`BundleTellsTheProof`), pending downloads are bundled (`DownloadsAreBundled`), bundle before notice before monitor (`NoticeHasBundle`) |
| `QueueDrains` | `JobsSettle` and `IntentsAreDispatched` of `JobQueue` |
| `VerdictsAreTrue` | what two explorers verify was true of an honest view during the call (`VerifiedWasTrue`) and is attested (`VerifiedIsAttested`); honest explorers and a sound node condemn a proof only by the chain (`CondemnedByTheChain`, twice) |
| `NodeAnswersTruly` | verified and pending answers of the node's verifier are true when they are given (`VerifiesTruly`, `PendsTruly`) |
| `LookupIsShared` | one lookup per host (`OneLookup`), one public address (`OneAddress`) |
| `CallsAreSound` | a slot is returned whatever ends a request (`SlotsAreReturned`); one working calendar is enough to stamp (`StampSurvivesOutage`) |
| `ServersAreHeard` | once a commitment is anchored, some attestation is fetched in the end (`AnchoredIsFetched`); a host that was vetted is served (`PinnedIsServed`) |

The type invariant of each module is checked by the runs that have it: as
`TypeOK`, or as a part of the properties above.

A scenario is chosen in the initial state and never changes; it bounds what may
happen (`Bound`, `Within`), or says which of several modules is at work while
the variables of the others stay as they are. Parts that are put into one run
this way share no state in the code either, or only what one of them abstracts.

Why the bounds are enough to be interesting. Jobs interact only through the set
of rows that a reconcile reads, so one job with several generations already has
the shape; two calls are needed for a takeover, and a third could only be
another overtaken one. Two attempts give a first, a last and a retried attempt;
two faults a crash and a failed create, or a lost task, in one behaviour. Orders
share nothing but the pending rows; two requests give every pair of racing
deliveries, and duplicates need no bound because Stripe may deliver any sent
event again. A second Price is one rotation and its return, and five events hold
a completed checkout that is paid later or disputed and refunded in two parts; a
failed request leaves what it committed and may be repeated, which `payment_live`
has. The proofs of section 5 do away with these bounds for the safety
properties.

For fulfillment, two runs give every pair of a running attempt and its
successor, and every pair of jobs of different kinds; three submissions give one
to each and one to a later retry. Two calendars are what two upgrades need to
differ, two blocks what a reorganization needs to lower a count and keep the
block, and a third check a monitor poll between the first confirmation and the
final one, for which two confirmations stand in place of six.
`MCFulfillment!View` identifies states that differ only in locals no later step
reads.

Three checkout requests are one that lost its lease, the one that took over and
one that comes after retention; two prices are one rotation; five tokens let two
rotations and two replays overlap. Three notification workers are two that were
overtaken and one that holds the lease, and eight ticks pass the horizon of five
with a lease still out. Four blocks hold two branches in which the attested
block is two deep; three requests are two that wait for a lookup and one that
times out. Two of everything else is the smallest number that can disagree.

Deadlock is checked in the queue and payment runs: a queue can always reconcile,
and a request for any sent event can always arrive. Elsewhere the system really
may stop: an order whose last job is settled, a message that was given up, a
clock at its bound.

Symmetry is used only in runs that check no liveness property.

## 4. Fairness

`JobQueue!Fairness`:

* a call that has begun takes its next step (weak): a process that stops is a
  crash, which is a fault;
* time passes: a job becomes due and a lease runs out (weak). The heartbeat
  itself is not fair, and the final heartbeat takes the run out of `handling`;
* Cloud Tasks delivers the current task of a job again and again until it is
  acknowledged (strong, since the job may be leased in between);
* a request that ended before it had dispatched its rows was not answered with
  204 or 200, so its sender repeats it: Cloud Tasks delivers the older task of
  the job again (`RedeliverTask`, strong), whose reconcile finds the row; the
  first row of a job is found by Stripe's retry, or by the retry of the job whose
  handler enqueues it (`RepeatEnqueue`, strong).

No fairness is assumed for the operator's commands (reconcile, stale recovery,
replay), for the SQL worker's polls or for faults: the runbook has no schedule
for them (`docs/TIMESTAMP_SERVICE_OPERATIONS.md:85` "do not schedule it
routinely", `:62`, `:125`, `:226`; `docs/TIMESTAMP_SERVICE_DEPLOYMENT.md:184`
"not a scheduler target"). `QueueDrains` therefore names what is left for the
operator: a job whose last attempt lost its worker (`Stranded`), a job whose task
Cloud Tasks took and lost (`TaskGone`), and a row that no request will come back
to dispatch because the task that made it is gone (`Unsent`).

`Payment!Fairness`: a request takes its next step (weak), and Stripe keeps
delivering the events that settle money until they are answered with 200
(strong, since a request must be free).

`Bundle!Fairness`: workers claim a job that waits, and a handler that keeps its
lease takes its next step (weak); one that lost it may stop anywhere.

`Notification!Fairness`: each worker's loop claims, sends and records (weak), a
webhook transaction that has begun ends (weak) and the clock ticks (weak). A
mail need not ever be accepted: a notice then ends as a dead letter.

`Calendars!Fairness`: upgrades are polled as long as the proof is not attested by
any block (weak; `UpgradeJobHandler` enqueues the next poll only then), a request
ends by its timeout and a call by its last request (weak); a calendar that is
asked for a commitment for ever answers in the end (strong). `AnchoredIsFetched`
therefore promises one attestation, not one for each calendar: in the run the
second fetchable commitment may stay unfetched, and TLC refutes the property that
asks for both. `EsploraTransport!Fairness` is
the same for a host: requests are made again and again, a lookup ends (weak),
and a connection that is tried for ever is answered in the end (strong).

## 5. Proofs

The eight proof modules prove the invariants and action properties that the runs
check, for any sets of jobs, calls, orders, requests, runs, calendars, workers,
releases, clients and readers, any clock, any exports, any tree of blocks, any
attempt budget and any number of faults. The assumptions are those named in the
modules: bounds are naturals, budgets and limits are positive, sets of requests
are finite, there are two explorers, and `None` is none of the values it is told
apart from. Three theorems have a hypothesis of their own:

* `StatusTrue` is about one attempt at a time;
* `BitcoinNodeAnswersTruly` is about a node that is reorganized at most once
  while it is asked;
* `BitcoinVerdictsAreTrue` is about explorers that are reorganized at most
  twice, which its part `VerifiedWasTrue` needs. The other parts are proved
  without it (`EsploraJudgesByTheChain`, `NodeCondemnsTruly`).

None of them can be weakened: with two attempts, two and three reorganizations
TLC finds the property violated. The last two are what two snapshots can
and cannot show, and say what the code relies on: that Bitcoin does not
reorganize again and again within the seconds of a call. (Reorganizations before
the call count as well, but nothing is lost by that: a view that was never
reorganized can be at any block when the call begins.)

Every inductive invariant was first checked by TLC, on the instance of its run
or, for one attempt and for two reorganizations, on smaller bounds.

Where several modules make up a run, its property is a conjunction over the
module instances, so `Api_proofs` and `Bitcoin_proofs` extend the composition
(`MCApi`, `MCBitcoin`) and first prove the parts about each instance's own
specification (`Limits!Spec`, `Node!Spec`, ...), where no scenario bounds
anything. `MCApi` has the limits and the exports as constants (`Limit`, `CSV`) to
which its configuration gives values, so that these proofs hold for all of them.

JobQueue, along this argument:

* `TypeCorrect` first; everything else assumes it.
* `TasksFollowIntents` is inductive once it also says that a call only holds
  rows that exist (`todo` and `making` are committed intents, and what is being
  marked was created).
* `RunnableHasIntent` follows since every generation change writes its row in
  the same transaction, and an enqueued job has generation 1.
* `HistoryExplainsState` needs that a claim's attempt never exceeds the row's
  count and that a lease owner is set exactly for leased rows; without the
  second, a finished attempt of an older generation could be concluded twice.
* `OneFencedRun`: no two running calls hold the same job and attempt. This is
  stronger than the invariant and inductive, because a claim takes the next
  attempt number; it does not mention worker ids, which is why a shared one is
  harmless.
* `FailureIsEscalated`: a call at `reviewed` has escalated its job, and the
  budget it read at claim time is at most the row's, so `finish` never turns a
  retry into a dead letter by itself.
* `QueueImplementsContract` maps every action to a step of `JobContract` or a
  stutter, using the invariants above.

Payment: `LedgerIsTrue` needs that what a request holds in `canonical` was true
of Stripe when it was read and still bounds what is true now (a session that
was paid stays paid, a refund only grows), and that every sent event happened.
`WorkFollowsMoney` and `TriggerNeverRefuses` rest on the payment table: `paid`
is entered once and never left for a state from which it can be entered again,
so `queued` is only written to an order that awaits payment.
`OnlyRotationRejectsMoney` rests on the order of `_finalize` and the customer's
payment, and on what a request knows when it writes: its session is at least as
new as its event and has the Price the session was made at (`ReadsAreTrue`), so
that of the comparisons in `valid_binding` only that of the Price can fail.
`AcceptedEventsTakeEffect` is about refund events that are accepted one by one,
most of them without effect. `RefundsHaveALast` is what makes it inductive: of
the refunds of a fully refunded payment there is one, the last that succeeded,
whose event can only be processed with a session that shows all of them, so that
accepting it refunds the order.

Fulfillment: one invariant, `IInv`, is inductive. Beside the properties
themselves it has `RunsReady`, which says of each run what its program counter
promises about its locals, although they were read several steps ago:

* `HoldsJob`: it has a job, and only a run in progress holds a lease;
* `HoldsOrder`: if the order it loaded was confirmed, the evidence is there, so
  that `reverified`, which writes the loaded state back, invents nothing;
* `HoldsProof`: `seen` is a stored version or, before the append, an offer that
  is version 1 or adds attestations to a stored version; this is why overlapping
  upgrades cannot store one over the other;
* `HoldsAnswer`: `found` names the block of one of the attestations in `seen`;
* `HoldsRows`: a run about to confirm the order or to read the latest count can
  point at the verification and the observation, and one about to send a notice
  at the bundle or at a count that is enough.

`RowsGrow` shows that tables are only added to and that a calendar's block is
never changed, so these promises survive the steps of the other runs
(`ReadyKept`); what is left is one lemma per action for the run that takes it.
`AttestedAnchored`, that stored attestations have a block, is what makes a
verification's block stay that of its version. The rows that the code picks,
newest observation or deepest attestation, exist by `Least`.

`NothingForgotten`, that no order is left without a job, has an invariant of its
own, `LifeInv`, beside `IInv`. `NoOrderForgotten` is not inductive: a job whose
run is at `complete` still counts as carrying the order, and is gone with the
next step. `Carries` therefore leaves such runs out, and ties each state to the
*latest* job that was begun. It needs that a job of a later kind was only begun
once the order had got that far (`JobsBegun`), that a known event key means the
order has passed its state (`EventsPassed`: otherwise the transition is skipped
and the run completes), and what a run knows of the order at the steps from which
it enqueues the next job (`KnowsOrder`). A job whose last attempt lost its lease
is the one way out, and stays so (`StrandedStays`). `OrderNeverReturns` makes all of it
stable.

ProofDownload: `DownloadsCurrent` and `DownloadsBacked` hold for any number of
overlapping attempts. A request at `lock` or `relock` holds the token's row, so
the token is valid (`Authorized`); whatever state it was shown, `LatestFor`
returns the latest stored version with evidence that exists
(`LatestForIsStored`), and evidence is never taken back. `StatusTrue` is proved
for `OneAttempt`: with two, an upgrade may append a version behind the verified
one, and the status of the confirmed order is then a 503 (see
`CurrentProofIsVerified` below). With one attempt, retries, lost leases and the
operator's jobs included, a run that may still append has an order that is not
past `calendar_pending` (`Attends`), so `ProofsFrozen`: a confirmed order gets no
further version. What a status request read of a confirmed order then stays true
to its last read (`Grounded`, `Reads`), and what it told stays downloadable
(`ToldIsTrue`).

Checkout: a request acts on what it read several calls ago. `CheckoutInv` says
what it may rely on: its order exists with the price of its plan, and a session
it is about to bind was made by Stripe for that order at that price
(`PlanHeld`, `MadeFor`), also when its lease was taken over or Stripe forgot the
idempotency key. `OrdersCounted` counts orders by the rows that retention
removed. For the tokens, `WaitHeld` is the point of the argument: a replay that
waits for a rotation holds the key's and the order's row, and the tokens it
found before waiting are still the live ones when it goes on, because nobody
issues a token while the order's row is locked. A rotation holds a live token of
its own (`RotationHeld`, `RotationsDiffer`), and what a token replaces is dead
(`TokenLine`).

RequestLimits: the property compares counts of requests, the code only ever
reads a counter, and cleanup deletes counters. `BooksInv` makes the books exact
where it matters: as long as a request may still be on its way to a caller's
counter (`Reachable`), that counter equals the number of requests that were
counted there; afterwards it may be gone, and only the bounds stay: at most the
limit were admitted, and exactly as many as soon as one was refused. Cleanup
keeps a cutoff below every reachable window, so it never deletes an exact one.
The rest is how far a request has come and what it has had of an answer
(`RequestInv`).

MetbullSnapshot: `FilesInv` says that every database and metadata file there
ever is, published, temporary or durable, was made of an export that passed the
checks. A process compares the database with the digest in the metadata, so two
files that agree were made of the same export, whichever replacements were
undone in between; `BuiltFacts` says that every row of such a database is
answered. `UpdateInv` ties each step of an update to what it has written so far,
which gives `UpdateRepairs` and `NothingBeforeReplace`.

Notification: `OutboxIsSound` is not inductive. `WorkersInv` adds what a worker
holds while its lease has not ended and that an accepted answer names a mail of
its own message; `RowsInv` that a row which may still be sent, or was given up,
has no mail; `MailsInv` that a row's horizon was counted from before its first
mail, which is why a repeated send is deduplicated by the provider or refused by
the horizon; `EventsInv` that Resend reports only mails it made. The same
invariant gives `OutcomesStay`.

Calendars: the semaphore's count (`SlotsInv`) is an equation between `free` and
the cardinality of the set of requests that are asking, which grows and shrinks
by one request and whose finiteness is part of the invariant. A call that is
over, cancelled or not, has no request that still runs (`QuietInv`). `TargetsInv`
says that an upgrade starts from a proof and is given no new pending
attestations; with the version check of the store `ProofGrows` follows.

Bundle: `DeliveryIsSound` rests on the order in which the rows are written. A
worker about to build read a confirmed order, so the verification is there and
no later step writes it again (`RowsFollowState`); one about to store holds a
receipt that was compared with rows that cannot have changed since (`Tells`);
one about to enqueue the notice has seen a bundle, its own or another worker's,
and no step removes it (`WorkerReady`). `IsoformatIsRead` is the lemma about the
download: a time written with its fraction is read back as it was.

The block tree: `Tree` says that the chain of every block on a chain is its
beginning, and `TreeGrows` that mining keeps it so. All that the verifiers'
proofs use of it is in `Chains` and `NodeChains`: a chain has one block at each
height, and of two blocks on it the higher one's chain holds the lower one.

EsploraTransport: `OneLookup` needs that a task which exists was looked up
exactly once and is never replaced; `OneAddress` that only a pinned task's
address is ever used, and that it was vetted when it was pinned (`TransportInv`).
The slots are an equation between `free` and the cardinality of the requests
that hold one, as for the calendars.

RpcVerifier: the call takes every attestation against the tip of its first
snapshot. `Covered` says what is known of an attestation the call is done with,
`Evident` that a block in the evidence is on the snapshot's chain or that the
node has left that chain, and with one reorganization for good (`Left`): then the
final snapshot differs and nothing is answered. If it does not differ, the
evidence and the pending depths are those of the best chain, and the deepest one
is the deepest of all (`NodeAnswers`). `CondemnedByTheChain` needs only that the
hash was read from a chain the node had during the call (`Asking`), and that the
node is sound: `malformed` is the other way to condemn a proof.

EsploraVerifier: the hash, the status and the tip of one explorer are three
requests, so they may be of two chains. `Seen` says what an honest explorer's
tip shows of the block it named: it had the block at that depth at some moment
of the call, or it has left the block's branch since. `Again` says what the same
answers show the second time: an explorer that did not have the block at the
depth of the first snapshot was reorganized away from it and back, and is
reorganized no more, so that the second tip is that of the block's own chain.
Until the call returns, `DeepInv` keeps this for the snapshot it waits to see
confirmed, and `PendingInv` that the others were too shallow. What a liar
answers is only bounded (`Asked`): it cannot agree with the honest explorer on a
block or a tip that the honest one did not have. `CondemnedByTheChain` goes
through the ways a call can contradict itself: with honest explorers that stay
on their branch, statuses and headers agree and are canonical (`NotCanonical`,
`StatusesConflict`), two hashes at one height are two blocks of which the proof
commits to at most one (`HashesMet`), and a root that differs is the chain's own
(`MerkleMismatch`).

Only model-checked: the liveness properties (`PaidOrdersAreStamped`,
`RefundsAreRecorded`, `WholeSecondsAreDelivered`, `QueueDrains`,
`EveryNoticeSettles`, `ServersAreHeard`), since fairness and `ENABLED` are out of
the prover's reach. `StatusIsTrue` beside overlapping attempts is not claimed at
all, because it does not hold.

## 6. Findings

`job_queue_crash`: a worker that dies during the last attempt leaves the row
`leased` for good. `claim_query`, `claim_specific` and
`recover_stale_dispatched` all require `attempt_count < max_attempts`, and the
count is raised when the lease is taken, so nobody takes the job over, nobody
moves it to `dead_letter`, and its order never reaches `manual_review`; `replay`
refuses it, since it is not in `retry`. The plan
(`docs/PAID_BITCOIN_TIMESTAMP_SERVICE_PLAN.md:179`) promises that "Worker
crashes recover without corrupting durable state". `JobsSettle` shows the ways in
which a job can stay behind: this one, for which the operator has no command, and
a lost or unsent task, which his commands bring back.

`bundle_fraction`: the delivery's receipt is written to the second
(`proofs/receipt.py:14`) and compared to the microsecond (`proofs/bundle.py:124`
and `:171`), while calendars and verifiers take their times from
`datetime.now(UTC)`. A proof with a fractional time is refused by the bundler,
the delivery job is retried until its attempts are used up and the order goes to
`manual_review`; the runbook (`docs/TIMESTAMP_SERVICE_OPERATIONS.md:153`) says
that the delivery job "persists the matching bundle, enqueues the initial
`bitcoin-confirmed-initial` notice at `>=1`, and starts 15-minute confirmation
monitoring". `WholeSecondsAreDelivered` shows that nothing else is in its way
while the release stays the same: a second release writes another product
version into the receipt, so an attempt that repeats a stored bundle conflicts
with it.

### Where code and documents part

Three things that the code does are exceptions in properties that otherwise
hold:

* A change of `STRIPE_PRICE_ID` rejects, for good, the events of sessions made
  before it, also of those that are paid (`payments/service.py:490`): the order
  stays `checkout_open` and no job is made for the money, although the order's
  own amount and currency agree. `OnlyRotationRejectsMoney` shows that nothing
  else does this; the plan (line 177) asks that a "wrong" Price fails closed and
  does not say what becomes of the one that was right at checkout.
* A refund that failed stays in Stripe's list, so `refund_status` is never
  `succeeded` again (`payments/gateway.py:370`) and the full refund that follows
  it is accepted without effect: the order stays `paid`. `FullyRefunded`, in
  `RefundsAreRecorded` and `AcceptedEventsTakeEffect`, leaves such payments out.
* An answer of the Bitcoin node that is malformed, too long, of another network
  or an unexpected error is `BitcoinEvidenceInvalid`, and `_verify_bitcoin`
  (`fulfillment/handlers.py:49`) sends the order to manual review for it.
  `CondemnedByTheChain` holds of a sound node only.

The following are stated in the modules and checked by no run, because TLC finds
them violated by what the code does. Each is one `PROPERTY` or `INVARIANT` line
away: add it to the configuration of the module given, restricted to its own
scenario where that module has several, and TLC prints the behaviour.

* `Fulfillment!SubmissionsArePaidFor` (`MCFulfillment`). The payment state is
  checked on the order loaded at the start of the attempt. A refund committed
  before the calendar call, two awaits later, does not stop the submission,
  although the comment at `fulfillment/handlers.py:94` says that such states
  "never authorize new external work". The window is that of one attempt: a
  retry loads the order again.
* `Fulfillment!CountsNeverDecrease` (`MCFulfillment`). The monitor compares each
  count with the previous one, the reverification branch of `UpgradeHandler`
  does not. After a reorganization that keeps the block, a reverification
  records a lower count and completes; the monitor then compares with the
  lowered count. The branch needs no operator: in TLC's behaviour it is taken by a
  second attempt at the upgrade whose first one lost its lease. The threat model
  (`docs/TIMESTAMP_SERVICE_THREAT_MODEL.md:73`) says that a "decreased count"
  "fails closed to `manual_review`".
* `Fulfillment!CurrentProofIsVerified` (`MCFulfillment`). `SqlProofStore.append`
  does not look at the order's state, so an upgrade that was on its way may put
  an unverified version behind the one that confirmed the order; the threat model
  (line 69) says "`bitcoin_verified` requires exact-digest canonical Bitcoin
  evidence". `ConfirmedOnEvidence` is what remains true: some version is
  verified and observed. Delivery then refuses the order and hands it to a
  human.
* `Notification!NoDeliveryLost` (`MCNotification`). The webhook looks for the
  outbox row before the worker's transaction has stored the provider's message
  id, finds none and locks nothing; `record_accepted` looks for stored events
  before the webhook's event is stored. Neither applies it, Resend was answered
  200, and the notice stays accepted
  (`db/notification_adapters.py:451`). The plan
  (`docs/PAID_BITCOIN_TIMESTAMP_SERVICE_PLAN.md:178`) says
  "Duplicate/concurrent/out-of-order provider events remain idempotent."
* `ProofDownload!ReviewSuppressesDownload` (`MCFulfillment`). The `SELECT ... FOR
  UPDATE` of the download (`api/routes.py:257` and `:328`) returns the order that
  `authenticate` loaded without a lock, so an escalation committed in between is
  not seen. The plan (line 95) says "`stamping` and `manual_review` suppress
  proof download."
* `EsploraTransport!UnavailableIsTemporary` (`MCLive`). The lookup task of a host
  is never removed, so one that failed, or answered a private address, is
  awaited again by every later request until the process ends
  (`bitcoin/esplora.py:217`). `ports/bitcoin.py:38` says of the error that the
  verifier "cannot currently provide a reliable answer".
* `MetbullSnapshot!PairIsReplacedAtomically` (`MCApi`). Database and metadata are
  replaced by two calls of `os.replace`
  (`scripts/update_metbull_snapshot.py:299`); a kill or a power loss in between
  leaves a new database with old metadata, and the API does not start until the
  updater has run again. `timestamp-service/README.md:65` says that the script
  "atomically replaces the validated read-only SQLite snapshot and attribution
  metadata".

## 7. Mutants

Each property is paired in `PROJECT.json` with a mutated definition that breaks
it, and a conjunction with one for each of its parts that says something of its
own. Among them: an owner-only fence, an off-by-one in the budget, the intent
written outside the transaction, the job finished before the escalation, a
payment trusted without asking Stripe, an expired reservation taken for a new
key, a takeover that keeps no lease name, a plan at the configured Price, a
notice sent under a key of the attempt, a lookup cancelled with the request that
began it, a slot returned only by answered requests, confirmations
counted from the wrong end, a temporary file written in place. The mutated forms stand next to the
definitions they change and are used nowhere else.

## 8. Not modelled, and the plan

Not modelled:

* the browser application (`src/src`): single-user rendering and file code;
* the paid timestamp panel (`PaidTimestampPanel.tsx`): its late responses would
  make a model of their own;
* migrations of a populated database; the constraints and triggers they create
  are part of the modules that meet them;
* configuration and composition: read once at start, checked and never changed;
* byte formats: ZIP, JSON, OpenTimestamps encoding, block headers, DNS answers
  and TLS. What their checks tell apart is in the models, how they compute it is
  not;
* `purge-synthetic`, the operator command that deletes fixture orders.

What is next, in this order:

1. A composition of `JobQueue` and `Fulfillment`, in which `owns` is the queue's
   fence; and liveness of an undisturbed order.
2. The panel: checkout, resume and polling with late responses.
