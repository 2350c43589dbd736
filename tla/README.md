# Verification of breakdown-rs

TLA+ models of the backend of breakdown-rs (`src/backend`): TLC checks them on small
instances, TLAPS proves the properties that matter most for every size. Source paths below
are relative to `src/backend/crates/infra/src/` unless they start with another directory;
`kameo_es` is the patched crate under `src/backend/.patches/`.

## 1. Inventory

breakdown-rs is an event-sourced CQRS backend with a Flutter client. A command goes
through an HTTP handler and a command adapter to an *entity actor* of kameo_es, which
decides on its replayed state and appends to a SierraDB stream with an expected version.
Projectors follow the streams into Postgres read models; sagas follow them to send further
commands. Postgres also holds queues, leases and advisory locks that no aggregate owns, and
an object store holds photos and AI documents.

| Component | State | Operations | Interacts with | What makes it correct |
|---|---|---|---|---|
| **Reservations** (`reservations/`, `projectors/reservation.rs`) | a stream and a projected row per key | reserve, release, consume; reaper pass | create commands of season, block, episode, scene shoot | no key is used by two aggregates; no claim stays undecided |
| **AI import queue** (`ai/queue.rs`, `worker_loop.rs`, `heartbeat.rs`) | a row per job: status, owner, lease, retries, progress | enqueue, claim, renew, fail, succeed, release, delete | worker loops, permits, object store | only the claim's owner writes; the budget is kept; every job settles |
| **AI permits and runtime** (`ai/pg_concurrency.rs`, `runtime.rs`) | permit rows with leases | acquire, renew, sweep, release, reclaim | worker loops, apply | ceilings hold; no permit leaks |
| **AI apply** (`ai/workers.rs`, `mapping.rs`, the slot in `ai/queue.rs`) | apply slot, mapping rows | claim the slot, apply the drafts, confirm | command adapters | applying again repeats nothing and completes what is missing |
| **Wrap-finality gate** (`event_store/wrap_finality.rs`) | an advisory lock per day | lock, probe | adapters of day and shoot | nothing that happened on a wrapped day changes |
| **Entity actors, command service** (kameo_es) | cached state per stream and instance | execute, append, resync | SierraDB | decisions that reach a stream were made on it |
| **Aggregates** (`core/src/*/aggregate.rs`), thirteen of the catalogue and photos | replayed state | their commands | adapters | versions count events; recorded facts stand |
| **Adapters, handlers** (`event_store/command_adapters.rs`, `api/src/handlers/`) | – | one per command | read model, actors | a stale client overwrites nothing |
| **Projection processor, projectors** (kameo_es `event_handler/`, `projectors/`) | checkpoint, batch transaction, dead letters | deliver, handle, flush | SierraDB, Postgres | what the checkpoint covers is done; nothing is done twice |
| **Supervisor** (`projectors/supervisor.rs`) | failures in a row | restart, give up | projectors, sagas | a failed projector resumes where it was |
| **Photos** (`photo/`) | photo streams, links, objects | upload, link, unlink; four sagas; sweep | handlers, object store | bytes of linked photos are kept, the others reclaimed |
| **Reporting** (`reporting/`) | job rows, staged and archived objects | enqueue (three triggers), claim, stage, upload, retain; reconcile | day events, database, two stores | a recorded report exists; every job ends |
| **AI workers, payloads, previews, scoring, seeding, vault, queries, audit, dev reset, client** | – | – | – | see section 7 |

Hard behaviours: claims and leases that lapse while their holder works on; two appends on
two streams without a transaction; entity state cached per API instance; handlers dropped
with their client's connection; at-least-once delivery over transactions that break;
appends and renewals with an unknown outcome; reads from rows that lag. `PROJECT.json`
lists the hazards at their lines.

## 2. Modules

| Module | Contents |
|---|---|
| `KeyRegistry` | what reservations promise: a key has one owner, only the owner is created with it, a used key is never given up |
| `Reservations` | the reservation protocol; implements `KeyRegistry` |
| `AiImportQueue` | job rows, worker loops, heartbeats, the clock |
| `Permits` | permit rows, tasks with their renewals, the reclaimer, the clock |
| `ApplyRun` | the apply slot, the plan of a preview, mapping rows, streams |
| `ShootingDay`, `SceneShoot` | the two aggregates as operators |
| `WrapFinality` | handlers, day lock, entity actors and streams, composed over the two aggregates |
| `Projection` | one projector: subscription, coordinator, worker, tables, supervisor |
| `Photos` | uploads, photo aggregate and row, links, object store, sagas, sweep |
| `Reports` | triggers, report jobs, backup worker, reconciliation, staging and destination |
| `Aggregate` | what aggregates, adapters and projectors have in common |
| `Scene`, `Piece`, `Outfit`, `Character`, `Season`, `Episode`, `Block`, `CostumeCategory`, `Settings`, `AiConfig`, `Membership`, `ShootingDayRow`, `SceneShootRow` | one aggregate each as operators: decision, event, expected version, projector, row, requests |
| `Catalogue` | one entity of any of these kinds from request to read model, composed over them |
| `MC…` | the instances for TLC |
| `…Proofs` | theorems; `ReadModelProofs` those about `Projection` and `Catalogue` |

Operators whose comment starts with "Mutant" are plausible bugs of the definition after
them. They are part of no specification; substituting one breaks the property it is listed
with in `PROJECT.json`.

**Reservations.** `stream[k]` is the claim stream of a key, `created[a]` the key in an
aggregate's create event, `call[p]` a running create call, `row`/`cursor` the projection
and its checkpoint, `reaper` the pass under way. `Start`, `ReserveAppend`,
`ReserveWrongVersion` and `Classify…` are `ReservationStore::reserve` with its retry budget;
`Execute…` is the create command; `CompensateRelease` and `Abandon` are what the adapter
does, or fails to do, after a failure. `StartPass`, `ReapRead`, `ReapProbe`, `ReapRelease`
and `ReapConsume` are the reaper: it picks rows past the TTL, reads the key's stream, probes
the aggregate's, and appends at the version it read. `Tick` ages events up to the TTL, all
the reaper compares. `MaxCreate` bounds how long a call lasts; `LateRedrive` lets a call
start for an old claim of its own.

**AiImportQueue.** One tick is one renewal interval. `job[j]` is the row; `claims[j]`
numbers its claims, and progress, telemetry and preview are represented by the claim they
were written under. Telemetry is two fields: `decision` (`decision_telemetry`), which claims
and failures clear, and `usage`, the other columns of `record_worker_telemetry`, which they
keep. `worker[w]` is a loop: `loading → resolving → processing → telemetry →
completing`, with `finalizing` for permanent errors, and its heartbeat. Every row write but
the claim goes through the owner fence (`Owns`/`Write`, `ensure_claim_owned`). Script and
schedule loop share the model: where they differ both outcomes are possible. A saturated
permit acquisition is a fault that returns the claim; `Permits` models what is behind it.

**Permits.** `rows` maps the tasks that hold a permit to the ticks their lease has left;
`task[t].left` is the distance to the task's own `confirmed_deadline`. `Begin` reads the
clock before `Admit` or `Refuse` sweep and count in one transaction. `SendRenewal`, `Renew`,
`RenewFails`, `TakeAnswer` and `Abort` are the loop of `renew_while`. `Release`,
`ReleaseFails`, `Cancel`, `Reclaim` and `ReclaimFails` give a permit back: by its DELETE, or
by the channel of the reclaimer, which gives up after its attempts and leaves the row to the
sweep. Timers fire when due (`Due` holds the clock); `MaxDelay` is how long an answer takes:
the row's lease runs from the statement, the task's from the answer. A task is `Secure` while
its deadline is further away than that.

**ApplyRun.** The plan is one row of a script: episode, scene, figure, its assignment,
piece, outfit and beat of each outfit, shooting day, schedule. `slot` is the job's
`apply_run_id` with its heartbeat; `mapping` the rows of `projection_ai_import_mapping`;
`world` the streams. `Find`, `Send` and `Confirm` are the phases of a draft: read or reserve
its row, send the commands its row's version leaves to do, record the version reached.
`AfterAnswer` is how a run reads conflicts and refusals; a beat that is refused at its second
attempt leaves the run with the scene version it had before the first (`BeforeRetry`). `Outage`, `HangUp` (with
`LateCommand`, a command already in a mailbox), `Crash`, a stall (`FallSilent`) and a user's
`Edit` come in between. Continuation outfits and the schedule document are not modelled.

**WrapFinality.** `call[c]` is a handler: `locking`, `probing`, `waiting` (its command is in
an actor's mailbox), `done`, or `orphaned` (dropped, its command still in the mailbox).
`day` and `shoot` are what the streams replay to, `dayActor[i]`, `shootActor[i]` what
instance *i* has cached, `lock` the advisory locks, `shown` the read model's wrapped flag.
Handling a command is one step, the append included: the actor handles nothing else
meanwhile, and another instance's append shows as a version conflict. A probe waits for the
day's mailbox to empty; otherwise commands are handled in any order. Clients send any
version they once read, may name the wrong day, and may send none.

**Projection.** `log[p]` are the events of a partition, good, poison or undecodable;
`checkpoint`, `applied` and `letters` the tables; `worker` has its mailbox, its open
transaction (`batch`, `dead`) and its two sequence maps. `Deliver` forwards an event,
`SkipHandled`, `HandleGood` and `HandlePoison` handle it, `Flush` commits effects, letters
and checkpoints together. `DeadLetterUndecodable` is the coordinator's own write. The faults
are the worker's death (`HandleFails`, `FlushDies`, then `LinkDied`), a broken stream, a
crash, and a broken connection (`DropBatch`, `PoisonOwnTransaction`, `CommitFails`,
`PoisonCommitFails`).
`dropped` records events a live worker lost with its transaction. Handling one event is a
step, retries included. `StartEpoch` and `EpochFails` are the supervisor; its back-off and
its reset after a long epoch are left out.

**Photos.** `upload[p]` is the request, `photo[p]` what the photo's stream adds up to,
`shown` and `shownLink` how far the projectors are, `links[p][o]` the link events of each
owner, `objects[p]` the stored variants and whether they are old enough for the sweep. The
sagas deliver again from the beginning after a failed epoch; the thumbnail saga works in
steps (`ThumbTakes` … `ThumbMarksFailed`), between which anything else happens, and so does
the sweep (`GcLists`, `GcFindsOrphans`, `GcDeletes`), which takes a batch of the orphans it
found (`Batches`) and ends at its first error (`GcFails`). `LookupFails` is a database error
where the two deletion sagas read a row: passed over like a missing row, but for the version
the continuity saga asks for, which fails its epoch. `Age` takes the code at its word that
a day is longer than a request, a saga's run and the lag of the projector.

**Reports.** `job[k]` is the row of a day's report of kind *k* (the dedup key without the
day), `created` the order of the rows; a report is named by the version of the data it was
rendered from, and so is its digest. `staging[k][d]` and `external[k]` are the two stores.
`trigger[t]` is the set of kinds that the wrap saga, the schedule or a manual request has
still to insert, taken in the order of `ALL_KINDS`: an insert that meets its key changes
nothing and is no step, one that fails is passed over. A
worker's step is one call of `process_job`, from `Claim` through `Verify` or `Load`,
`RenderAndPut` and `MarkStaged` to `Upload`, `MarkSucceeded`, `DeleteStaged` and
`ClearHandle`; the statements go by the row's id and are not fenced. Reconciliation reads its
two lists (`ListStaleClaims`, `ListSucceeded`) and works them off. Calls fail, those to the
stores with or without effect, objects are damaged and the process dies. Time is left out: a
failed row is due whenever its turn comes, and any claim may be stale, the one of a worker
that is still at it too.

**Catalogue.** `kind` is fixed at the start and dispatches to the module of the kind: every
operator of an entity takes its kind as the first parameter. `entity` is the actor's state,
`stream` its events, `past[i]` what the first *i* of them add up to (a history variable that
only properties read), `row` the read model at `cursor`, `high` the furthest the projector has
been, `client` what a client has read and sent. A request is taken from the row (`Requests`: the
handler's checks and the commands it sends), waits, and is decided against the stream
(`Expected`: the adapter's expected version; `Handle`: the aggregate). `OthersAct` is
everybody else, `Rewind` sends the projector back to an earlier event with the row as it is.
Payloads are members of small sets. An outfit's state also records the position each piece
was given (`positions`, of which the aggregate knows only the number it puts into the event);
its row has them as the projector wrote them. One actor, up to date: stale actors are `WrapFinality`'s.

## 3. Runs

| Run | Instance | Shows |
|---|---|---|
| `reservations` | 2 keys, 3 aggregates (one rejected), 2 calls, TTL 2 > call 1, a reaper fault | unique keys, realized claims held, row mirrors stream, consumed is final, refinement of `KeyRegistry`, every claim is decided |
| `ai_queue` | 2 workers, 1 job, 2 retries, 3 renewals per lease, 3 faults | fence, current fields, budget, one missed renewal, terminal finality, every job settles |
| `permits` | 3 tasks of 2 users, ceilings 2 and 1, lease 3, answers up to 1 tick late, 2 faults | the row outlasts the deadline but for one delay, ceilings hold for secure tasks, every task ends |
| `permits_slow_answer` | the same | **violated** `CeilingIsNeverExceeded` |
| `ai_apply` | 2 requests, 2 outfits, a fault, an edit | rows are true, beats are not repeated, success is complete, every request is served |
| `wrap_safety` | 1 instance, 2 days, 2 handlers (wrap, start, finish, edit), no fault | nothing follows a wrap |
| `wrap_history` | 2 instances, 1 handler after another, wrap and every shoot command but the photo links, every version, a fault | actors replay streams, history stands, no lost update, locks are released |
| `wrap_two_instances` | 2 instances, no fault | **violated** `WrapIsFinal` |
| `projection` | 2 partitions with 2 and 1 events, 2 faults of any kind | the checkpoint is honest, nothing twice or out of order, events settle |
| `photos` | 1 photo, 1 shoot, a fault of any kind | linked bytes are kept, others reclaimed, linked photos settle |
| `reports` | 2 kinds, 1 worker, 2 retries, 2 versions of the data, a manual request, 2 faults | recorded reports exist, outcomes stand, every job ends |
| `catalogue` | each kind with 3 to 5 events, and rewinds | the read model says what the events say, versions count, a stale client is rejected |

*Bounds.* Two competitors are enough for the races here: each conflict is between one
holder (of a claim, a lease, a slot, a lock, a version) and one challenger, and each property
is about one key, job, day, photo or entity at a time; the second key, day, partition and
user are there for what confuses them. Two starts let a key be claimed, released and claimed
again while the other call is under way. Two retries distinguish the first failure from the
last. Three renewals per lease is the code's own constant. Two events of a partition reach
a lost one, a later one and a flush; with two partitions a flush writes more than one
checkpoint. Two outfits give a beat a predecessor. Two
versions of the data tell a report that is rendered again from the one that was staged, and
two faults let a retry fail or a crash follow a failure. The reclaimer of permits has one
attempt, so that two faults make it give up. With one photo a sweep's batch is never cut short;
the theorem about `Photos` holds for any number of photos and any batch size. A lock's release depends on its own
handler and on the mailboxes: `LocksAreReleased` is checked with the faults and one handler at
a time, and holds for two at once as well (1 instance, `ExecutionOps`, `MaxVersion = 3`, a
cancelled handler or a lost session), where the strong fairness of the probe is needed. Five events of a scene are a creation and
every pair of further commands, with two events for those that emit two; its rewinds count
against the same five steps, those of the other kinds come on top. `MaxFaults` bounds
how many faults happen, not where. The theorems lift the bounds for what they cover.

*Deadlock* is checked for reservations and for the queue. The other runs switch it off: when
all requests are answered, all events handled and the bounds reached there is nothing left to
do, as in an idle server.

*Symmetry* is used in safety runs only, over values that no constant tells apart.

*Fairness.* Weak fairness of a call's, worker's, handler's, actor's, projector's, saga's or
loop's own next step: tokio tasks run to their end, and every wait in them has a timeout.
Weak fairness of the clock. Strong fairness in four places where a step is enabled again and
again: a probe that waits in a mailbox others send to as well (`WrapFinality`; mailboxes are
first in, first out), admission of a task that keeps coming back (`Permits`; the order of claims is not a
guarantee of the code, it is assumed that a waiting job is not passed over for ever), a
client that asks again after 409 (`ApplyRun`), and the ageing of objects and the next photo a
saga takes (`Photos`; time passes and streams are delivered in turn). In `Reports` worker,
reconciliation, saga, schedule and inserts are weakly fair; that a back-off ends and a claim
of a dead worker grows stale is part of their steps. Faults are never fair
and finite in number; but for the request that has to be served nothing assumes that a client
sends anything.

## 4. What the runs found

1. *The gate is not final across instances* (`wrap_two_instances`). The probe has no event
   to append, so an actor that has not seen the wrap answers it from its cache.
2. *A slow answer over-admits* (`permits_slow_answer`). The task counts its lease from the
   answer to a renewal, the row from the statement. Without any fault: the answer comes a tick
   late, the next renewal is on its way when the row lapses, another task's admission sweeps
   the row and takes its place, and two tasks run on one permit until the first one's own
   deadline. The comment at `ai/runtime.rs:240-242` takes the time of the answer for the
   earliest the lease can have started; it is the latest. `DeadlineIsCovered` and
   `CeilingHolds` say what is left of the promise: the margin is the delay of one answer,
   whatever else goes wrong.

Three statements of the repository are defined as properties and are false in the model;
adding one to the configuration named yields the trace:

- *A broken connection loses a batch* (`DroppingIsReplaySafe` in `Projection.cfg`). The
  worker drops its transaction and goes on, and what it had handled stays in
  `last_handled_sequences`; its next flush moves the checkpoint past it. The comments at
  kameo_es `event_handler/postgres.rs:1015` and `:1041` call this replay-safe. A failed commit
  of a dead letter loses the letter in the same way (`PoisonCommitFails`).
- *The continuity saga deletes a linked photo* (`ContinuityUnlinkSpares` in `Photos.cfg`). It
  counts the wardrobe's links in projected rows (`photo/sagas/continuity_deletion.rs:92`). A
  photo whose link is not projected yet counts as unreferenced when the last shoot unlinks it,
  against `openspec/specs/photo-continuity-binding/spec.md:74-76`; the wardrobe's saga counts
  in memory to avoid just this race (`photo/sagas/deletion.rs:41-43`).
- *Positions of pieces collide* (`PositionsKeepInsertionOrder` in `Catalogue.cfg`). A piece is
  added at the number of pieces there are (`core/src/outfit/aggregate.rs:289`); after a removal
  that number belongs to another piece, or lies before one that was added earlier. Rows are
  sorted by position and then by id (`queries/outfit.rs:44`), so pieces are not shown in the
  order they were added, as the migration (`20261015000001…up.sql:74-75`),
  `core/src/outfit/views.rs:52` and the outfits' specification promise. `ReadModelFollows` says
  that the rows have the positions the events give, colliding ones included.

Some properties hold only under a constant's value or with an exception that the property
names. The traces without it:

- *A re-driven create can lose its claim*: `Reservations` with `LateRedrive = TRUE`, against
  `UniqueKeys`. A create re-driven for its own old claim keeps the old age, the reaper
  releases the claim under it, and a third call uses the key (`reservations/reaper.rs:48-50`).
- *A dropped handler opens the gate*: `WrapFinality` with one instance and
  `Faults = {"cancel"}`, against `WrapIsFinal`. Its lock goes with it, its command does not.
  A lost database session has the same effect (`event_store/wrap_finality.rs:87`).
- *Two spare renewals are one*: the third renewal of a lease falls on its lapse, so one
  missed renewal is survived, not the two of `ai/heartbeat.rs:30-31`.
- *The usage of a lost attempt stays on the row* (`LiveFieldsAreCurrent` speaks of `usage`
  on succeeded jobs only): a claim clears `decision_telemetry` but not the tokens, the cost
  and the other columns of `record_worker_telemetry`, so a job claimed again after a crash
  behind that write shows those of the attempt before until its own are in
  (`ai/queue.rs:326-357`, `:1169-1176`).
- *An undecodable event overtakes* (`Overtaken` in `CheckpointIsHonest`): the coordinator
  writes its checkpoint while earlier events are in the worker's mailbox or transaction; a
  crash then loses those (`postgres.rs:355-366`).
- *A worker's death is final*: the coordinator stops with it and no restarted epoch reaches
  it, so the supervisor's attempts are spent on `StartEpochFails` (`supervisor.rs:107`).
- *A continuity photo goes with its wardrobe link*: `Photos` deletes on the unlink of the
  wardrobe owner whatever shoots still reference it, where
  `openspec/specs/photo-continuity-binding/spec.md:68` counts references "across all
  bindings" before a photo is deleted.
- *A lost reply compensates a success* (`AnswerLost`): the handler deletes the bytes of a
  photo whose link took effect. `LinkedPhotoHasBytes` speaks of uploads answered with success.
- *Two apply runs that overlap repeat a beat* (`stolen` in `BeatsAreNotRepeated`): after a
  stall longer than the staleness limit both runs append, where
  `openspec/specs/ai-import/spec.md:278` says that re-applying "adds no second beat".
- *A beat that was given up comes late* (`unapplied` in `Orderly`): two conflicts in a row,
  from users' edits, make a run report a beat as unapplied and go on. A later run appends what
  has no row at the end of the scene: behind later beats, or a second time if a command that
  an earlier run left behind had added it.
- *A foreign edit passes for the run's own append* (`edits = 0` in `DoneIsComplete`): a
  conflict on the scene's assignment or schedule is read as done (`ai/workers.rs:3412`).
- *An original that is gone stops the thumbnail saga* after its attempts, and with it the
  variants of every other photo (`photo/sagas/thumbnail.rs:224`; the comment at `:236-238`
  says of such errors that they "must never kill the worker").
- *Two backup workers process one job*: `Reports` with two workers, against
  `OutcomeStands` or `RecordedReportExists`. `claim_next` takes rows that are staged or uploading too, which another
  instance's worker may have in hand, and a slow worker's claim is released under it; the
  slower of the two then takes a row back from where it ended, or records another rendering.
  `reporting/jobs.rs:156` says "multiple workers never claim the same row".
- *A report that was not enqueued is not missed*: `enqueue_for_day` passes over a failed
  insert and the schedule asks for the dispo job only, so once that has succeeded the other
  kinds are never enqueued; the comment at `reporting/triggers.rs:169` has "the next pass"
  enqueue them. `ReportsSettle` promises the dispo alone.
- *A staging outage is retried for ever*: a failed fetch or put of a staged object leaves the
  row claimed until reconciliation releases it, and charges no retry. A crash between the put
  and `mark_staged` leaves an object that no row names if the data has changed meanwhile.
- *Wrapping a wrapped day again* is answered with a conflict (`map_executed_result`), where
  `openspec/specs/shooting-day-lifecycle/spec.md:47` wants it idempotent.

## 5. Proofs

`ReservationsProofs`. `SafeInv` says what a call and the reaper know of their key (the
version they remember exists, its event is the claim they think it is) and that a consumed
claim is realized. It gives `TypeCorrect` and `ConsumedFinality` under any timing. `TimedInv`
adds time: a call with a claim ends before the claim reaches the TTL (`Punctual`), so when
the reaper decides to release a claim no call can realize it any more (`ReleaseIsSafe`). It
gives `RealizedClaimsHeld` and `Uniqueness`, assuming `LateRedrive = FALSE`; `UniqueKeys`
alone is not inductive, for it says nothing of the claim that keeps a second create away.
`StreamsImplementRegistry` goes through the actions under the same invariant: a claim that is
appended acquires the key, a create command creates, a release gives the key up only where no
aggregate has it, and all else leaves `KeyRegistry`'s state alone. `RowMirrorsStream` needs
`RowInv`: the row says what the events up to the cursor say, its time of claim is that of the
last claim among them, and a stream starts with a claim.

`AiImportQueueProofs`. `QueueInv` joins the properties with `RunStates` (an idle loop holds
nothing, the decision and the usage of a completing owner's claim are on the row), `RunningUncharged` (the claim under
way has not been charged) and `RestingRows`. `WorkerActs` proves the invariant once for all
fenced writes. `BlipsAreSurvived` rests on a further invariant that relates the lease left on
the row to the renewals missed.

`WrapFinalityProofs`. `StreamInv` says that every request names existing streams and that
actors replay theirs; with it an accepted append was decided on the state it changes
(`ShootChanges`), hence `HistoryIsKept` and `NoLostUpdate`, for any number of instances and
faults. `GateInv` adds, for one instance without faults, that the actors of days are up to
date, that a handler in a locked section holds the lock, and that the day of a frozen command
in a mailbox is open; `WrapFinalityHolds` follows.

`PermitsProofs`, for any delay of answers. `Typed` gives `TypeCorrect`. `Held` says that an
admitted or running task whose deadline is further away than `MaxDelay` has a row, which
lasts to that deadline but for `MaxDelay` (`Covered`); `TakeAnswer` keeps this because the row
of a granted renewal is exactly as much older as its answer is late (`Granted`), and `Reclaim`
because the reclaimer's channel names only tasks that have ended (`HandedOver`). A secure task
therefore has a row that no sweep takes, and with `Counted`, that the rows are within the
ceilings, the secure tasks are counted by their rows: `DeadlinesAreCovered` and
`CeilingsHold`. `permits_slow_answer` shows that neither holds of all running tasks.

`ReadModelProofs`, first part: `Projection`. What a checkpoint says is decided by what worker,
coordinator and subscription hold in memory, so neither property of the tables is inductive. `ProjectionInv`
orders the sequences of a partition: effects up to the checkpoint, then those of the open
transaction, increasing and up to the last handled one (`AppliedInv`, `BatchInv`); and it
accounts for every event below the subscription's position: handled, settled, overtaken,
dropped, or in the mailbox ahead of every later event of its partition (`CoveredInv`,
`InOrder`). A flush then writes checkpoints that are covered, and an event delivered again is
one that `SkipHandled` recognises or that has no effect yet. A commit that fails keeps the
invariant either way: its effects are there and the worker's record of what is flushed is
merely old, or they are in `dropped`. It gives `CheckpointHonesty` and
`EffectsOnceInOrder`, for any partitions, events and faults.

Second part: `Catalogue`, for all thirteen kinds, every length of the stream and every replay.
`ReadModelFollows` is not inductive: in the middle of a replay a row may show a state its entity
never had, with one column from before and another from after. `EntityRowInv` says how far off
it can be:

- a column written whatever the row's version is as it was at *some* moment between the
  projector's position and the furthest it has been (`Follows`; `MembersFollow` for each element
  of the tables that hang off a row). The next event either sets the column or left it alone in
  the entity as well, so the moment may be taken one event later; at the furthest position there
  is one moment left, and the row is right.
- a column written by statements with `version < $v` only is as it was at the furthest (`Latest`):
  a replayed statement does nothing to it.
- the columns of a piece or an outfit are guarded, their tables are not: both forms side by side.
  For an outfit each piece's position follows, with "not in the outfit" as one of its values.
- the beats of a scene are guarded by a version that the scene's unguarded statements take back
  during a replay. Each place for a beat, by character and order, is as it was between the *row's*
  version and the furthest (`BeatsFollow`). An update or removal that finds no beat in the row has
  no effect on it; the scene had the beat then, so the row's is from a later moment
  (`SceneChanges`). The order a new beat is given is free in the scene (`NextOrderIsFree`).
- members have no version at all. An update that does not match the member's state in the row
  changes nothing; the team had that state then, so again the row's is from a later moment
  (`MembershipProjects`).
- the row of a deleted entity is gone once the deletion is projected again; before that nothing
  is said but its type, for replayed statements may bring parts of it back.

`HistoryInv` says that every state in `past` is sound for its kind (`Sound`) and every event was
legal in the state before it (`Legal`): `KHandles`, for kind *K*, shows that commands emit only
such events, `KApplies` that they lead to sound states one version on, `KProjects`, `KFollows`,
`KStarts` and `KCaught` what the projector makes of them. The lemmas `Kind…` join the kinds by
dispatch, and from there on (`StoreStep`, `RowStep`, `RowKept`, one lemma per action) the kind
plays no part. `ReplayedRowsFollow` and `StreamVersionsCount` follow. `AcceptedOnlyOnWhatWasSeen`
needs `ClientInv`, that what a client was shown is what its version stood for; its row having
caught up when it was read (`client.whole`) is a condition of the property.

`PhotosProofs`. The sweep deletes what it found without a row some steps earlier. `PhotoInv`
says why that is never a photo linked meanwhile: bytes old enough to be swept belong to a
request that is over, and by then to a photo that has a row, so an orphan that was linked
since is too young (`SweepSpares`). `LinkedPhotosKeepBytes` follows, for any batch size and
any failures of lookups and sweeps.

`ReportsProofs`, for one worker. `ReportsInv` says what each place in `process_job` implies
of the row, the staged object and the destination (`HandInv`), that the lists of a
reconciliation pass stay true while it works them off (`ReconInv`), and that triggers insert
only rows that are not there. It gives `RecordedReportsExist` and `OutcomesStand`. The
assumption is named in the theorems (`OneWorker`): with two workers both are false.

`ApplyRunProofs`. `ApplyInv` relates a run to its draft: the versions it remembers are ones
the streams have reached, what it is about to confirm has happened, and every beat behind it
is confirmed or reported (`RecordInv`). Its `OrderInv` says why no check of the scene's
contents is needed: the beats before one that was added have their rows, and a beat the scene
would accept comes after all that are there. It gives `ConfirmedRowsAreReal` and
`BeatsOnceInOrder`. `DoneRunsAreComplete` needs `CompleteInv`, which holds while no user edits
and no runs overlap: what a run has behind it is on the streams (`BehindInv`), and the version
of a stream tells what was done to it (`FactsInv`). The difficult part is a conflict on the
scene, which a run reads as its own earlier append: `SyncInv` says that a run at work knows
the version of the scene, or the scene is scheduled already, or a beat is still before it that
it will have to send; `LateInv` says what a command left in a mailbox by a run that is gone
can still do to that version. An aggregate refuses notes that it has already, and a refusal
would end the draft before its categories: `NotesInv` says that a run about to send notes
finds a stream without them, for as long as nobody edits and no runs overlap.

Assumptions on constants are the `ASSUME`s of the modules: distinct model values, naturals,
`MaxCreate < ClaimTtl`, at least two renewals per lease, a day for every shoot, an interval
within the lease, a supervisor with at least one attempt, AI configurations whose fields are
strings, `costume_assistant` among the roles and `none` not. Those of single theorems stand in
their statements: `LateRedrive = FALSE`, one instance without faults,
`OneWorker`. Section 4 has the traces without them.

*Proved only:* `TypeOK` of `AiImportQueue`, `Permits` and `WrapFinality`; the types of
`Photos`, `Reports` and `ApplyRun`, as parts of their invariants.

*Model-checked only:* liveness, which rests on fairness and is beyond the prover. Every
invariant and every action property of the passing runs is stated by a theorem.

## 6. What is worth doing next

Continuation outfits and the schedule document, as further drafts of `ApplyRun` and its proofs;
the preview objects around `AiImportQueue`, which are written without its fence; and `Reports`
with two workers, for what remains true of a row that both of them write.

## 7. Not modelled

- *AI payloads and previews*: object reads and writes around the queue's terminal deletion.
  The preview is stored without an owner fence (a hazard without a property).
- *AI workers' content*: prompts, chunks, preview merging and validation, decision scoring,
  pricing. Computations on documents, without shared state.
- *Schedule documents, continuation outfits*: further plans of `ApplyRun`'s machinery.
- *Rendering of reports, the credentials of the external store*: calls of `Reports` that work
  or fail. Its in-memory stores are for development; `REPORT_BACKUP_RETAIN_STAGING` is off.
- *Season seeding, audit*: one handler each over the delivery that `Photos` and `Projection`
  model, without state of their own.
- *Names copied between rows*: the category name in the rows of pieces, and sagas of several
  commands in one handler (linking a scene into a shooting day).
- *The schedule's limit of 50 days per pass* (`reporting/triggers.rs:159-160`): `Reports` has
  one day. *Piece lists with duplicates*: `Outfit` takes them as `dedup_pieces` leaves them.
- *Supervisor back-off, health report, telemetry, tracing.*
- *Listings, SQL joins, routing, authentication, encryption, problem documents, the
  development data reset, the Flutter client*: input and output around the state machines.
