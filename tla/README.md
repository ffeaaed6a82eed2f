# CourseForge: TLA+ models of course selection and its surroundings

CourseForge is a Go service for course selection (with a catalogue of courses
and videos, and danmaku comments on the videos). What makes it hard is the
selection path: Redis decides, MySQL records, and queues, streams and periodic
jobs keep the two in step. Around it are a warm-up that builds the Redis index, a
waiting list, uploads that span MySQL and an object store, and a realtime hub. This
directory keeps TLA+ models of that machinery, the TLC runs that check them on
small instances, and TLAPS proofs of the facts that hold for every instance.

Run everything from this directory:

    tlc -workers 2 -config MCSelection.cfg MCSelection          # one run
    tlapm SelectionProofs.tla                                   # the proofs of one module

`PROJECT.json` lists the runs, the lines of code every definition translates,
the deliberate faults (`...Fault` operators) each property is known to catch,
the hazards and the findings.

## Inventory

| component | state it keeps | operations | talks to |
|---|---|---|---|
| selection hot path (`enrollment/.../redis.go`, `eligibility_index.go`, `application/enrollment.go`) | Redis: seats per class; credits, courses, selected courses, timetable, pending application, request results per round and student; selection stream | select (admission read, commit script), query by request | warm-up fills its keys; its stream feeds the projection |
| selection projection (`selection_stream_consumer.go`, `mysql_batch.go`) | consumer group, pending entries list (PEL), dead letter stream; MySQL: applications, enrollments, quotas, count deltas, outbox rows | read, claim, save batch, per-message fallback, clear pending keys, acknowledge, dead-letter | stream, MySQL, the Redis pending and result keys |
| drop and repair (`drop.go`, `reconciliation.go`) | enrollment row, quota row, `enrollment_projection_repair` row, `dropped:<id>` marker | drop transaction, release script, repair job | Redis resources, count deltas |
| round management and warm-up (`rounds.go`, `warmup.go`, `eligibility_index.go`) | round status, warm-up status and version, lock; Redis active and open versions, rebuilt seat and student keys | create, update, bind, request warm-up, warm up, open | hot path (it resets its keys) |
| count projection (`count_projection.go`) | `enrollment_count_delta` rows, `teaching_class.selected_count` | apply batch, clean up | fed by projection and drop, read by warm-up |
| waitlist (`waitlist.go`) | waitlist rows with state and claim time | join, cancel, expire, claim, promote, return | calls the hot path as a client |
| outbox (`platform/outbox`) | `outbox_events` rows: state, retry count, next attempt | claim, publish, mark published, mark failed | fed by the projection; publishes to RabbitMQ |
| RabbitMQ publisher and consumer (`platform/rabbitmq`) | slots with confirms, retry and dead letter queues | publish with confirm, consume, retry, dead-letter | outbox, notifications |
| notification | `notifications` rows keyed by event | insert once per event | RabbitMQ consumer |
| eligibility and timetable rules (`domain/admission.go`, `eligibility.go`) | none | pure functions | warm-up, admission |
| danmaku hub, publishing, segment cache | connections per video, event loop queue; cached segments | register, unregister, broadcast, stop; publish, list segment | Redis pub/sub |
| catalogue and video upload | courses, classes, videos, multipart uploads | CRUD; start, presign, complete, abort, clean up | object storage |
| cache, CDC, task queue, rate limiter, identity, transports, configuration | plumbing | | |

What makes them correct, and what makes that hard:

* **hot path**: seats and quotas are conserved, one decision per request id, no
  clash of courses or timetable cells. Clients repeat requests whose reply was
  lost; commits race releases and projections.
* **projection**: every decision reaches MySQL exactly once, and nothing Redis
  decided is refused there. Workers crash between transaction, clear and
  acknowledgement; a slow worker finishes what another one has claimed.
* **drop**: resources come back exactly once. The process may die between the
  transaction and the script; request, repeated request and repair job race.
* **warm-up**: the keys it rebuilds agree with what was already decided. It reads
  a count that lags behind and overwrites keys the hot path uses.
* **count projection, outbox, waitlist**: a claimed row is applied once or its
  repetition is harmless; a lease that runs out makes two owners.
* **danmaku**: the hub forgets and closes every connection although Stop,
  registration and removal meet in any order; a cached segment that a slow reader
  stores late does not hide a comment for ever.
* **catalogue**: tables without foreign keys stay consistent although administrators
  edit courses, classes, rounds and bindings at the same time.
* **video upload**: a playable video has its object, and what failed attempts left in
  the object store is removed, though no transaction spans the two stores.

The hazards behind these, each at its line, are in `PROJECT.json`.

## Modules

| module | models | kind |
|---|---|---|
| `Selection` | hot path, projection into MySQL, drop, release, repair: the ledger | component |
| `Registrar` | what selection promises: grants, enrollments, drops and returns of one clerk without counters | abstract specification |
| `SelectionProofs` | seats and quotas balance, no clash, no oversold class, MySQL refuses nothing, pending keys cover what is not saved; `Selection` implements `Registrar` | proofs |
| `SelectionStream` | the workers of the selection stream | component |
| `SelectionStreamProofs` | no message is lost, only faulty ones are dead-lettered | proofs |
| `CountProjection` | delta rows and `selected_count` | component |
| `CountProjectionProofs` | count and open rows balance; the next batch fits | proofs |
| `Eligibility` | static policy and timetable rules, as operators | algorithm |
| `RoundWarmup` | configuration, warm-up task, index versions and gate of a round; uses `Eligibility` | composition |
| `RoundWarmupProofs` | active indexes are whole, the gate follows the round, seats are exact without failures; the two forms of the timetable test agree, achievements never hurt | proofs |
| `Waitlist` | waiting list and promotion jobs of a class | component |
| `WaitlistProofs` | settled entries stay settled, no promotion that chose is cancelled, seats suffice | proofs |
| `Outbox` | outbox rows and the relays that publish them | component |
| `Delivery` | RabbitMQ queues, consumers, the notification listener | component |
| `Notification` | what outbox and queue promise together | abstract specification |
| `EventPipeline` | `Outbox` and `Delivery` composed, shown to implement `Notification` | composition |
| `EventPipelineProofs` | what is published was queued and is not lost, dead letters have used up their retries; the steps of `Notification` | proofs |
| `Catalog` | transactions on courses, classes, rounds and bindings | component |
| `VideoUpload` | uploads of one video position over MySQL and the object store | component |
| `CatalogProofs` | of `Catalog`: nothing dangles, terms agree, open rounds are offered; of `VideoUpload`: ready videos have their object, cleaned attempts nothing, uploading ones a pending attempt | proofs |
| `Danmaku` | publishing, history cache, hub and connections | component |
| `DanmakuProofs` | the hub drains and forgets, no PUBLISH of a comment reaches a browser twice | proofs |
| `MCSelection`, `MCSelectionStream`, `MCCountProjection`, `MCRoundWarmup`, `MCCatalog` | small instances | TLC |

Operators that end in `Fault` are deliberate defects. No specification uses them;
each stands for a plausible mistake in the code at the place of the definition
after it, and `PROJECT.json` says which property notices it.

### Selection

One action per Lua script and per MySQL transaction, since Redis and MySQL make
these atomic; what the application does around them is the interleaving.
A call that fails before its script is a step not taken; a reply that is lost, or a
crash, is a follow-up step not taken or taken later by somebody else. The
bookkeeping unit is the application id (`Apps`), fresh for every decision.

| action | code |
|---|---|
| `CompleteSelected` | the time a call takes before it reads the index version and calls the script (`enrollment.go:219`) |
| `SelectCourse`, `CommitSelection` | `EnrollmentService.SelectCourse`, `commitSelectionScript`. A repeated request is answered from `result` and changes nothing |
| `CloseRound`, `ExpireResult` | the end of the selection window; the 7-day TTL of a result |
| `Deliver`, `Acknowledge` | `XREADGROUP`; `XACK` and `XDEL` |
| `SaveSelectionResults` | the batch transaction with its quota guard and its unique keys, over any set of delivered messages |
| `ClearPersisted` | `clearPersistedSelectionScript`, also by a worker that comes late |
| `DropEnrollment` | the drop transaction with its repair task |
| `ReleaseDroppedEnrollment`, `CompleteRepair` | the release script, run by the request, its repetition or the repair job |
| `ExpireMarker` | the 30-day TTL of the `dropped:<id>` marker; only in `SpecPastTTL` |

`Redis` variables: `seat`, `credit`, `course`, `selected`, `booked`, `pending`,
`result`, `persisted`, `entry`, `marker`. MySQL variables: `row` (enrollment),
`usedCredits`, `usedCourses`, `repair`. `cleared` and `releases` are history.
The script reads no clock: it compares the window with the time in the call, which the service took
earlier, and the Redis client may repeat the call for seconds. `accepting` has the rounds whose window has
not ended, `stamped` the calls under way with a time inside it; `InWindow` lets a commit pass for
either reason, so a selection may be granted after `CloseRound`. `Delayed` bounds the calls
that may be under way; the others take their time and run the script in one step. The index
version does not change here (`RoundWarmup` has it).
Credits are whole numbers here; the code keeps tenths in an integer, with the same
comparisons. Applications, events and count deltas are inserted by the same
transaction as the enrollment, so `row` stands for all of them.

`Registrar` is the abstract specification behind it. A clerk has one book: what each
application is for and how far it has come (`stage`: granted, enrolled, dropped, returned).
`Grant` asks whether the round is open or the call was put on the list (`asked`) while it was, whether the holders of the class are fewer than its seats,
and whether what the student holds leaves courses, credits and timetable cells free; `Enroll`
turns grants into enrollments, a course and a request at most once; `Drop` and `Return` end one. `Ask` puts a call on the list while the round is open; `Grant` looks at everything else when it is
served, so a late call gets nothing that was taken meanwhile. The clerk
has no counter, index, marker, message or repair task, and says nothing of retries.
`StageOf` reads the stage off Redis and MySQL: decided, row, given back. Redelivery, clearing, acknowledging,
expiry of results and repair tasks are invisible to the clerk.

### SelectionStream

What `Selection` calls "some worker takes the next step". A worker goes through
`runWorker`: claim scan (`ClaimStale`, with the cursor of `XAUTOCLAIM`), read
(`ReadStreamGroup`, `StopReading`, `ReadTimeout`), `Decode`, `SaveBatch`, `AckBatch`,
or the fallback `SaveItem`/`AckItem` message by message. `GrowIdle` lets a message
become claimable although its worker is alive. `CallFails`, `ReadFails` and `Crash`
consume `MaxFaults`. Of the content of a message only its fate is kept (`kind`). A batch
is the set of its messages; messages are numbered in the order of the stream, and a worker
takes them in that order.

### CountProjection

`InsertEnrollment`/`InsertDrop` insert a delta row (it has its id), `CommitRow` makes
it visible, `RollBackRow` loses it: rows become visible out of order. `LockRows` is
`FOR UPDATE SKIP LOCKED`, `Project` the guarded update and the marking,
`RejectBatch` a failed guard, `LoseBatch` a failed transaction, `CleanUp` the
retention job.

### Eligibility and RoundWarmup

`Eligibility` has the policy (`Evaluate`: state, grade, major scopes, prerequisites)
and the two forms of the timetable: slots, as the domain compares them
(`Conflicts`), and cells, as Redis keeps them (`SlotCells`).

`RoundWarmup` is a round from configuration to choosing. The administrator binds and
unbinds classes (`BeginChange`, `BindRoundClass`, `UnbindRoundClass`), asks for a warm-up
(`MarkQueued`, `Enqueue`, `CrashBeforeEnqueue`) and opens the round (`ReadReady`,
`OpenRound`, `OpenGate`, which are two stores and three steps). A worker goes through
`TryLock`, `MarkRunning`, `LoadSnapshot`, `WriteSnapshot`, the pages of students
(`ReadPage`, `WriteStudents`, `NextPage`), `Activate`, `Reopen`, `Finish`. Each of its calls
may fail with or without effect; `Crash`, `Redeliver`, `RetryDue`, `Archive` and `LockExpires`
are the task queue and the clock; `Choose`, `Save` and `Count` stand for the modules above;
`LoseRedis` is the loss of data that makes a rebuild necessary.

### Waitlist

`Join`, `Cancel`, `SelectCourse`, `DropEnrollment`, `CloseRound` are the students' and the
clock's. A job goes through `ClaimExpiredEntries`, `CancelExpired`, `ClaimPromotableEntries`
(with the reset of stale claims), `QuerySelectionByRequest`, `AdmitSelection`, `CommitSelection` and
`MarkWaitlistPromoted`, `ReturnWaitlistToQueue` or `CancelFailed`, entry by entry. `LeaseRunsOut` makes
a claim stale while its job is still at work; `SelectCourseFails` is an error of the selection, which cancels
the entry, and `Abort` a crash or an error of the waiting list itself. The hot path is reduced to what the
promotion can observe: who holds a seat, who has a pending decision, which
promotion requests have a stored result.

### Outbox, Delivery, EventPipeline, Notification

A relay claims rows (`ClaimPending`), publishes each in a goroutine of its own
(`Publish`, `PublishFails`, `ConfirmLost` when the broker has the message and the
relay does not learn it), then `MarkPublished` or `MarkFailed`. The lease of a claim
may run out at any time (`ExpireLease`), so two relays can act on one row.
`Delivery` has a main queue, a delayed queue per retry and a dead letter queue;
a consumer copies a failed message to its next queue before acknowledging it.
`EventPipeline` joins the two at the publication; `Notification` has three sets
(recorded, notified, abandoned) and is implemented under the mapping in
`EventPipeline`.

Left out there: rows are validated when they are appended, so the validation in
`dispatch` never fails; the publisher's channel pool is one publication at a time
per goroutine; the batch listener has no user in the service. The consumer does not
reconnect when the AMQP channel closes; the runs take this for a crash of the
process that is followed by a restart.

### Catalog and VideoUpload

A transaction of `Catalog` begins with its request, takes its row locks one by one
(`Lock`, in the order of `LockOrder`), evaluates the domain's rule (`Decide`) and commits one
of eleven changes, or rolls back. A deadlock of locks is resolved as MySQL does it: one of
the transactions rolls back. Of a course only the number of core changes and the
existence of a video matter, of a class and a round their state and term.

`VideoUpload` has the two stores side by side. `CreateMultipartUpload` and then
`StartCourseVideoUpload` (which supersedes earlier attempts), `StartRejected`, `StartReplyLost` or
`StartAbandoned`; `UploadPart`; the completion in four calls (`ListUploadedParts`,
`CompleteMultipartUpload`, `StatObject`, `Promote`); the clean-up job upload by upload (`ListExpired`, `PickExpired`,
`PrepareCleanup`, `AbortFirst`, `RemoveFromStore`, `Finalize`). Failures end a request or one upload of a
batch at any of these points.

### Danmaku

A publication is `Insert` (or `Requery` for a repeated client message id),
`InvalidateSegment`, `PublishRealtime`; a reader is `Miss` (also after a failed GET), `Load`, `Store`, and `ExpireSegment` is the TTL.
The Redis client repeats a command whose reply was lost (`MaxRetries`, `cache/client.go:23`). For PUBLISH
this sends the comment again (`PublishReplyLost`), and nothing on the way to the browser removes the
second copy: `api/proto/courseforge/danmaku/v1/danmaku.proto:46` leaves that to the client. The copies of a comment are numbered here, so that
`PushedOncePerPublish` can tell a repeated command, which may reach the browser, from a repeated
publication or broadcast, which may not. A repeated SET stores the same segment later (`Store`); a
repeated DEL does what `ExpireSegment` may do at any time.
The hub goroutine takes registrations, removals and comments in `HubEvent` and drains in
`Shutdown`; a connection is its handler (`Connect`, `Registered`, `EnqueueReady`, `ReadFails`, `Left`
and the frames of the browser) and its writer (`WriteFrame`, `WriterEnds`). Channels
have their capacities: a broadcast skips a connection whose queue is full, a handler that
finds it full leaves. `UnregisterTimesOut` is the handler that gives up waiting for the hub. The service stops the subscriber and then
the hub; `Stop` comes after `StopSubscriber`, or, as a failure, when that took too long.
`ConnectionsEnd` and `HistoryConverges` have the form `<>[](P => Q)`: their P, once true, stays true,
so this says the same as P ~> []Q, and TLC checks it faster.

## Runs

| run | configuration | shows |
|---|---|---|
| `selection` | `MCSelection.cfg` | seats and quotas balance in Redis and MySQL, nothing Redis decided is refused by MySQL, no clash, no decision without its pending key; the whole implements `Registrar`, also with calls that reach Redis after the window |
| `selection_live` | `MCSelectionLive.cfg` | every decision reaches MySQL, every student is unblocked, every drop gives its seat back |
| `selection_two_rounds` | `MCSelectionRounds.cfg` | finding: a course chosen in two rounds is never projected the second time |
| `stream` | `MCSelectionStream.cfg` | no message lost or wrongly dead-lettered; each is settled |
| `count_projection` | `MCCountProjection.cfg` | count and rows balance; until jobs overlap, every batch fits and every row is counted |
| `count_two_jobs` | `MCCountProjectionTwo.cfg` | finding: two overlapping jobs can wedge the projection |
| `pipeline` | `EventPipeline.cfg` | no event that is marked published is missing at the broker or lost between the two sides; a dead letter only after all retries; the whole implements `Notification` |
| `warmup` | `MCRoundWarmup.cfg` | an active index is whole, the gate is open only with the round, seats are exact while nothing fails, a warm-up ends |
| `waitlist` | `Waitlist.cfg` | settled entries stay settled, every entry is settled after the round, a free seat is offered, no entry cancelled that overlapping jobs promoted |
| `video_upload` | `VideoUpload.cfg` | a ready video has its object, an uploading one a live attempt, nothing is left in the store |
| `catalog` | `MCCatalog.cfg` | no dangling row, terms agree, an open round has only open classes |
| `danmaku` | `Danmaku.cfg` | the hub drains and forgets, no PUBLISH of a comment reaches a browser twice, connections end after Stop, the cached history converges |

`MCSelectionMarker.cfg`, `MCSelectionStreamDuplicate.cfg`, `MCRoundWarmupRebuild.cfg`, `WaitlistCrash.cfg` and
`MCCatalogFrozen.cfg` reproduce the disagreements 3 to 7 under Findings; TLC ends each of them
with a counterexample.

The type invariants (`TypeOK`, `UploadTypeOK`) are proved, so the runs do not repeat them.

### Bounds

* `selection`: two students, three classes with one seat each, three applications.
  c1 and c2 teach one course, c2 and c3 share a timetable cell, s2 may take one
  course and may not take c2. Round, index, course, seat, cell and number of
  courses each refuse somebody (the credits do in `selection_live`, to s3);
  three applications are a choice, its drop and the
  next choice while another student takes the seat. Application and request ids
  are symmetric. `Delayed` has the calls of s1 for c3, which s2 competes for and c2 clashes with: they
  may be under way while the round ends, the seat goes or the cell is taken. `LateRetry = FALSE`: a client repeats a request within the
  7 days its result is kept. About 860,000 states.
* `stream`: three messages, batches of two, so that a batch is full, partly filled
  and mixed; two workers; two faults, enough for a crash after the transaction
  and a lost acknowledgement by the worker that took over.
* `count_projection`: five rows of one class with two seats, batches of two:
  choice, drop and choice again with a full class, while ids are committed out
  of order. Classes are updated independently of each other.
* `pipeline`: one event, two relays, two consumers, one retry, one fault of the outbox and two of
  the queue. `MaxSent = 8` is not a restriction: with these faults no event is ever
  published that often.
* `warmup`: two classes with one seat each and different rules, two students read in
  pages of one (so the last page is full and an empty one follows), two
  workers, three versions, two failures: a crash and the loss of the lock, or a
  lost answer in the attempt that takes over.
* `waitlist`: one seat, held by one of two students; two entries; two
  overlapping jobs with batches of two; one failure.
* `video_upload`: two attempts at one position, so that one supersedes the other; two
  requests complete and two jobs clean at once, one upload per batch; one
  failure. One part is enough: parts only have to be all there.
* `catalog`: two courses, one class, two rounds, two terms, two transactions at once, one core
  change. Courses, rounds, terms and transactions are interchangeable, hence the
  symmetry. No rule relates two classes with each other.
* `danmaku`: one comment sent by two overlapping requests, one reader, one connection, queues of
  one, three retries of the Redis client (`retry_attempts` of the shipped configurations), one failure, so one lost reply.
  About 830,000 states. Connections meet only in the hub, which serves one at a time.
* Faults are bounded (`MaxFaults`, `QueueFaults`, `MaxFailures`), which is what the liveness
  properties need: infrastructure that fails for ever owes nothing.
* `CHECK_DEADLOCK FALSE` where all applications, rows, events, attempts or ids are used up
  and nothing is left to do. Stream workers and promotion jobs never stop, so `stream` and
  `waitlist` check deadlock.

### Fairness

Weak fairness of what runs in loops the service starts and never leaves: stream
workers, repair job, count projection (every second), relays, consumers. The clock
is fair (idle times, leases, retry delays pass). Transactions end. Students,
administrators, browsers, faults and crashes owe nothing. Per module:

* `RoundWarmup`: a handler that runs goes on, a retry becomes due, a lock runs out, and
  a request that asks for a warm-up finishes.
* `Waitlist`: promotion jobs are scheduled for ever, a stale claim grows old, decisions
  and counts are projected (which `selection_live` and `count_projection` show).
* `VideoUpload`: attempts expire and the clean-up job runs; no client has to complete.
* `Danmaku`: the scheduler runs the hub and the handlers, a load that began ends, the cached
  segment expires. Nothing obliges a publisher to go on.

Three assumptions go further:

* `ClaimTimer` waits while a worker is at the top of its loop with new messages to
  read: 15 seconds pass between claim scans and a read blocks at most one.
* `Receive` is strongly fair per message: a queue is first in, first out, so a
  waiting message gets its turn however many others come.
* `WriterEnds` is strongly fair: Go's `select` picks at random, so a writer does not
  take frames for ever while the end of its connection is ready as well.

## Proofs

The proofs hold for every value of the constants under the named assumptions of the
modules (`ConstantsAssumption`, `ProjectionAssumption`, ...), which only say what type each
constant has, that the ids in use are finite, and that markers are not values (a frame
that says "ready" is not a comment). Every invariant and every action property the runs
check is a theorem; what is left to TLC is liveness. Their inductive invariants were checked with TLC on the instances of the runs
before they were proved.

* `SelectionProofs`. The base is `LedgerInv`, the conjunction of `TypeOK`, `Provenance` and
  `SeatConservation`. The balance of seats is not inductive alone: a release adds a
  seat, which is right only when the application held one. `Provenance` supplies that:
  a row belongs to a decision, and resources were given back exactly for the
  dropped rows whose marker exists. `NeverOversold` follows by counting, and so does `ReleasedOnce`.
  `QuotasBalance` is the same argument for courses and credits; a sum of credits is proved to
  change by the credits of the application that enters or leaves it, by counting
  pairs of an application and a credit unit, since induction over the set is out of
  reach.
  `HoldInv` ties the selected-course hash and the timetable bitmap to the applications that
  hold them, which gives `NeverClashes`.
  `FlightInv` (`PendingCoversUnsaved` and `ClearedIsSettled`: what a worker has cleared is saved and
  no longer pending) gives `PendingCovers` and `AcknowledgedSettled`. `AdmissionAgreement` shows that the
  admission read and the commit script accept the same classes in every reachable state.
  `NeverRejected` needs all of these and `DecisionInv`: what Redis decided passes the quota guard
  and the unique keys of MySQL. It has two conditions, and neither can be dropped:
  `OneRoundPerCourse` (no student is eligible for a course in two rounds; without it there is finding 1)
  and `~LateRetry` (a request is repeated only while its result is kept).
  `RefinesRegistrar` shows that `Selection` implements `Registrar`: the two balances turn a counter above
  zero into room among the holders, `HoldInv` turns an empty field and free cells into the absence of a
  clash, `Provenance` makes a release the return of something dropped; all other steps stutter. `Delayed` is any set of
  calls there, so the window is passed by any number of calls that were admitted in time and come late.
* `SelectionStreamProofs`. Any worker may acknowledge what another one still holds, so `NothingLost` does not follow
  from ownership. `StreamInv` follows what a worker has done before it acknowledges: `SavedFirst`
  (it has seen the rows of its messages, and rows are never removed), `Decoded` and `RowsPlain` (which
  keep saved and dead-lettered messages apart).
* `CountProjectionProofs`. `TypeOK /\ CountConservation` is inductive: batches are disjoint and consist of
  open rows, so a batch that is projected moves from the open rows into the count. It covers
  overlapping jobs: they can wedge the queue, but never spoil the sum.
  `BatchesFit` is harder, as the guard sees only some of the rows. `FitInv` says for every k that the count,
  the open rows up to id k (with or without the locked ones) and the worst that uncommitted rows
  up to k can bring stay between zero and the capacity. It is inductive because a drop gets its id after the
  commit of the enrollment it undoes, and an enrollment gets its id after the commit of the drop
  whose seat it takes; and because `ORDER BY id LIMIT n` takes the rows up to some k. Once jobs
  overlap it fails (finding 2).
* `EventPipelineProofs`. `ClaimInv` (`TypeOK`, `PublishedWasQueued`, `MarkAfterQueue`): a goroutine about to mark a row has
  seen its message queued, even if its claim was taken over meanwhile. `QueueInv` follows the copies of a
  message: a consumer that is about to acknowledge does not count as carrying it, and a copy
  that says n retries has seen n failures. With both, `PublishedNotLost` and `DeadAfterRetries` follow.
  `RefinesNotification` is the safety part of `ImplementsNotification`: initial states map to initial states and
  every step to a step of `Notification` or a stutter.
* `RoundWarmupProofs`. `WarmupInv`: two workers never build the same version, a version being built is not
  active, and its index holds the students up to the worker's cursor; hence what is activated
  is whole. `GateInv`: whoever opens the gate has seen, or made, the round open. `CalmInv` holds
  while nothing has failed: lock, task and status follow each other, one warm-up runs at a
  time, and what it has read is still true when it activates. For all valid schedules the slot test and the
  cell test agree (`TimetableAgrees`), and a further achievement never makes a student ineligible.
* `CatalogProofs`. `LockInv` is about locks alone: a transaction holds a prefix of its lock order, all of it once it
  decides, and no row is locked twice. `StillAllowed` says that what a transaction decided holds until
  it writes, because everybody who could change it needs a row the transaction has locked.
  For `VideoUpload`, `UploadInv` adds two facts to the three properties: `Verified` (the object a completion has
  looked at is there as long as its attempt is pending) and `GivenUp` (what a clean-up job works on
  has lost the right to be completed, and what it removed stays removed).
* `WaitlistProofs`. `SettledIsFinal` and `CancelledWasNotChosen` are about entries that two overlapping jobs have on
  their lists. `ListInv` says what the steps of a job rest on: what a job is about to mark was decided
  (`MarkDecided`), a promoted entry was chosen (`PromotedWasChosen`, which also holds after failures) and, while nothing has
  failed (`Calm`), an entry on a list is claimed and its claim is fresh unless the student has cancelled it, no two
  lists share one, and a decided entry that is not settled is the one its job marks next. `SeatInv` counts holders, decisions
  and seats, so that choices, promotions and drops never overfill the class (`SeatsSuffice`).
* `DanmakuProofs`. `HubInv`: between the moment the hub takes a request and the moment it answers, the handler waits, or
  has returned because the hub is stopping; a connection the hub has taken is in the registry or was
  told to end. `PushInv`: the channel, the hub's queue and a connection hold a copy of a comment one after the other, each at most once; the request that
  inserted the comment is the only one that sends it, and only copies it has sent so far exist (`OnlySent`), so the next one is new.

Only model-checked is everything under fairness: `EventuallyPersisted`, `PendingEventuallyCleared`, `DropEventuallyReleased`, both `EventuallySettled`,
`ProjectedUnlessOverlap`, `EventuallyPublished`, `WarmupEnds`, `FreeSeatIsOffered`, `LeftoversRemoved`, `ConnectionsEnd`,
`HistoryConverges` and the fairness part of `ImplementsNotification`. The prover does no liveness and no `ENABLED`.

## Findings

Two runs expect a violation:

1. **Two rounds of one term** (`selection_two_rounds`, `mysql_batch.go:332`). Redis keeps the chosen
   courses per round, MySQL one active enrollment per course and term. The second
   decision stays in the pending entries list for ever and keeps its seat and quota.
2. **Overlapping count projections** (`count_two_jobs`, `count_projection.go:66`). The capacity guard
   is right for prefixes of the rows; `SKIP LOCKED` lets a second job project later rows
   first. If the first job then fails, its rows no longer fit and block the queue.

Further disagreements, each with a configuration that shows it:

3. **The marker of a release expires** (`MCSelectionMarker.cfg`, `ReleasedAtMostOnce`, `redis.go:221`) after
   30 days, while a repeated drop request runs the release script unconditionally.
4. **Unique-key violations are taken for transient** (`MCSelectionStreamDuplicate.cfg`,
   `PlainEventuallySaved`, `selection_stream_consumer.go:292`). The batch is claimed again as a whole,
   and the sound messages in it wait with it.
5. **A rebuild overwrites seats in use** (`MCRoundWarmupRebuild.cfg`, `UsedVersionKept`). The index is
   versioned, the seat keys are not: a warm-up repeated after a loss of Redis data
   writes `capacity - selected_count` while the count still lags behind the choices.
6. **A crashed promotion is closed as expired** (`WaitlistCrash.cfg`, `CrashedPromotionReused`). The job
   looks for entries of closed rounds before it looks for a stored result, so an
   entry whose course was chosen just before the crash ends as cancelled.
7. **The core of a course changes while a class is being bound** (`MCCatalogFrozen.cfg`,
   `CoreFrozen`). Changing a course locks its row, binding locks round and class: the count
   of bound classes may be stale when the change is written.

## Plan

Done: models of selection, stream, counts, outbox, delivery, warm-up, waitlist, eligibility,
uploads, catalogue and danmaku; proofs of all the invariants and action properties the runs check;
the refinements of `Registrar` and, without fairness, of `Notification`. Next:

1. `NeverRejected` without `OneRoundPerCourse`, once the service keeps the chosen courses per term
   (finding 1).
2. The CDC listener together with the caches it invalidates.

## Not modelled

* CDC invalidation: a separate process that follows the binlog and deletes cache keys.
  Its one interleaving of interest, a reader that stores an old value after the
  deletion, is the one `Danmaku` has with its segment.
* Two-level cache: the in-process level is never configured by the service; its stream
  and read-through calls appear in the modules that use them.
* Task queue: appears as the scheduling, retries and leases of the jobs it runs; the
  set-up of its server is left out.
* The RabbitMQ channel pool and the batch listener (see above).
* Identity, rate limiting, HTTP transports, configuration, metrics, logging, database
  routing, the front end and the benchmark tools: request plumbing without a
  protocol of its own.
