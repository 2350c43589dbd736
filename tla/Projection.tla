----------------------------- MODULE Projection -----------------------------
(***************************************************************************)
(* One projector: its subscription, the coordinator and worker actors of   *)
(* its Postgres processor, and the supervisor that restarts the            *)
(* subscription.                                                           *)
(*                                                                         *)
(* Events of a partition are numbered from 1, and 0 stands for a missing   *)
(* entry of a sequence map or a missing checkpoint row.  An event is       *)
(* "good", "poison" (its handler fails with a permanent error every time)  *)
(* or "undecodable".  Handling one event, its retries included, is a step. *)
(* The partitions share one worker, as those of one residue modulo         *)
(* worker_count do; workers of other residues share nothing with it.       *)
(***************************************************************************)
EXTENDS Integers, Sequences, FiniteSets

CONSTANTS
  Partitions,   \* the partitions of one worker
  Kinds,        \* kinds of events published
  MaxAttempts,  \* MAX_ATTEMPTS: consecutive failures of epochs before giving up
  Faults,       \* which faults happen: "worker", "stream", "crash", "broken"
  MaxFaults,    \* bound: faults that happen
  MaxEvents     \* bound: events published in each partition

ASSUME ProjectionConstants ==
  /\ Kinds \subseteq {"good", "poison", "undecodable"}
  /\ MaxAttempts \in Nat \ {0} /\ MaxFaults \in Nat
  /\ MaxEvents \in [Partitions -> Nat]

VARIABLES
  log,         \* log[p]: the kinds of the events of partition p, in order
  checkpoint,  \* checkpoint[p]: row of sierradb_event_checkpoints
  applied,     \* applied[p]: events whose effects are committed, in order
  letters,     \* letters[p]: events in projection_dead_letter
  coordinator, \* the PostgresProcessor actor
  worker,      \* its partition worker
  epoch,       \* the subscription stream of the running epoch
  supervisor,  \* the supervisor loop
  dropped,     \* dropped[p]: events a live worker lost with a transaction
  faults

vars == <<log, checkpoint, applied, letters, coordinator, worker, epoch,
          supervisor, dropped, faults>>

tables == <<checkpoint, applied, letters>>

-----------------------------------------------------------------------------
(* State *)

Sequences == [Partitions -> Nat]

Nowhere == [p \in Partitions |-> 0]

Messages == [type : {"event", "sync"}, partition : Partitions, sequence : Nat]

Coordinators == [alive : BOOLEAN, flushed : Sequences]

(* batch and dead are the effects and dead-letter rows of the open          *)
(* transaction; there is none open when both are empty.                     *)
Workers == [state : {"vacant", "alive", "dead"}, mailbox : Seq(Messages),
            batch : [Partitions -> Seq(Nat)], dead : [Partitions -> SUBSET Nat],
            handled : Sequences, flushed : Sequences]

NoBatch == [p \in Partitions |-> << >>]

NoLetters == [p \in Partitions |-> {}]

Vacant == [state |-> "vacant", mailbox |-> << >>, batch |-> NoBatch,
           dead |-> NoLetters, handled |-> Nowhere, flushed |-> Nowhere]

(* The first HandleEvent spawns the worker with the coordinator's map. *)
Spawned == IF worker.state = "vacant"
           THEN [Vacant EXCEPT !.state = "alive", !.handled = coordinator.flushed,
                               !.flushed = coordinator.flushed]
           ELSE worker

Epochs == [open : BOOLEAN, next : Sequences]

ClosedEpoch == [open |-> FALSE, next |-> Nowhere]

Supervisors == [failures : 0..MaxAttempts, stopped : BOOLEAN]

NewSupervisor == [failures |-> 0, stopped |-> FALSE]

Fault(f) == f \in Faults /\ faults < MaxFaults /\ faults' = faults + 1

-----------------------------------------------------------------------------
(* The event store appends; the process starts and crashes *)

Publish(p, k) ==
  /\ Len(log[p]) < MaxEvents[p]
  /\ log' = [log EXCEPT ![p] = Append(@, k)]
  /\ UNCHANGED <<tables, coordinator, worker, epoch, supervisor, dropped, faults>>

(* PostgresProcessor::new reads the checkpoints; the actor is spawned once. *)
Crash ==
  /\ Fault("crash")
  /\ coordinator' = [alive |-> TRUE, flushed |-> checkpoint]
  /\ worker' = Vacant
  /\ epoch' = ClosedEpoch
  /\ supervisor' = NewSupervisor
  /\ UNCHANGED <<log, tables, dropped>>

-----------------------------------------------------------------------------
(* The supervised epoch *)

(* Mutant: the supervisor never gives up. *)
EpochFailsForever ==
  /\ epoch' = ClosedEpoch
  /\ supervisor' = [failures |-> supervisor.failures + 1, stopped |-> FALSE]

(* An epoch ends in an error or a panic: count it, give up at the limit. *)
EpochFails ==
  /\ epoch' = ClosedEpoch
  /\ supervisor' = [failures |-> supervisor.failures + 1,
                    stopped |-> supervisor.failures + 1 >= MaxAttempts]

(* Mutant: an epoch subscribes behind the newest events. *)
StartEpochAtEnd ==
  /\ ~epoch.open /\ ~supervisor.stopped /\ coordinator.alive
  /\ epoch' = [open |-> TRUE, next |-> [p \in Partitions |-> Len(log[p]) + 1]]
  /\ UNCHANGED <<log, tables, coordinator, worker, supervisor, dropped, faults>>

(* start_from: the coordinator's map, which worker flushes do not update. *)
StartEpoch ==
  /\ ~epoch.open /\ ~supervisor.stopped /\ coordinator.alive
  /\ epoch' = [open |-> TRUE,
               next |-> [p \in Partitions |-> coordinator.flushed[p] + 1]]
  /\ UNCHANGED <<log, tables, coordinator, worker, supervisor, dropped, faults>>

(* GetStartFrom cannot be asked of a stopped coordinator. *)
StartEpochFails ==
  /\ ~epoch.open /\ ~supervisor.stopped /\ ~coordinator.alive
  /\ EpochFails
  /\ UNCHANGED <<log, tables, coordinator, worker, dropped, faults>>

(* The subscription breaks. *)
StreamFails ==
  /\ epoch.open
  /\ Fault("stream")
  /\ EpochFails
  /\ UNCHANGED <<log, tables, coordinator, worker, dropped>>

(* The subscription ends cleanly; the failures are forgotten. *)
StreamEnds ==
  /\ epoch.open
  /\ Fault("stream")
  /\ epoch' = ClosedEpoch
  /\ supervisor' = NewSupervisor
  /\ UNCHANGED <<log, tables, coordinator, worker, dropped>>

Pending(p) == epoch.open /\ epoch.next[p] <= Len(log[p])

(* process_event: the coordinator forwards the event to the worker, which   *)
(* is lost if the worker has just died.                                     *)
Deliver(p) ==
  /\ Pending(p) /\ coordinator.alive
  /\ log[p][epoch.next[p]] # "undecodable"
  /\ epoch' = [epoch EXCEPT !.next[p] = @ + 1]
  /\ worker' = IF Spawned.state = "dead" THEN worker
               ELSE [Spawned EXCEPT !.mailbox =
                       Append(@, [type |-> "event", partition |-> p,
                                  sequence |-> epoch.next[p]])]
  /\ UNCHANGED <<log, tables, coordinator, supervisor, dropped, faults>>

(* process_event unwraps the tell: with a stopped coordinator it panics, and *)
(* so does dead_letter_undecodable return an error.                          *)
DeliverFails(p) ==
  /\ Pending(p) /\ ~coordinator.alive
  /\ EpochFails
  /\ UNCHANGED <<log, tables, coordinator, worker, dropped, faults>>

Larger(m, n) == IF m >= n THEN m ELSE n

(* DeadLetterUndecodable: the coordinator writes letter and checkpoint by    *)
(* itself, ahead of what the worker still has to handle.                     *)
DeadLetterUndecodable(p) ==
  /\ Pending(p) /\ coordinator.alive
  /\ log[p][epoch.next[p]] = "undecodable"
  /\ letters' = [letters EXCEPT ![p] = @ \cup {epoch.next[p]}]
  /\ checkpoint' = [checkpoint EXCEPT ![p] = Larger(@, epoch.next[p])]
  /\ coordinator' = [coordinator EXCEPT !.flushed[p] = epoch.next[p]]
  /\ worker' = IF worker.state # "alive" THEN worker
               ELSE [worker EXCEPT !.mailbox =
                       Append(@, [type |-> "sync", partition |-> p,
                                  sequence |-> epoch.next[p]])]
  /\ epoch' = [epoch EXCEPT !.next[p] = @ + 1]
  /\ UNCHANGED <<log, applied, supervisor, dropped, faults>>

(* on_link_died: an abnormal death of the worker stops the coordinator. *)
LinkDied ==
  /\ coordinator.alive /\ worker.state = "dead"
  /\ coordinator' = [coordinator EXCEPT !.alive = FALSE]
  /\ UNCHANGED <<log, tables, worker, epoch, supervisor, dropped, faults>>

-----------------------------------------------------------------------------
(* The worker *)

Head1(type) == /\ worker.state = "alive" /\ worker.mailbox # << >>
               /\ Head(worker.mailbox).type = type

Part == Head(worker.mailbox).partition
Pos == Head(worker.mailbox).sequence

Popped == [worker EXCEPT !.mailbox = Tail(@)]

(* Mutant: redelivered events are handled again. *)
SeenNever == FALSE

(* last_handled_sequences already covers the event. *)
Seen == worker.handled[Part] >= Pos

SkipHandled ==
  /\ Head1("event") /\ Seen
  /\ worker' = Popped
  /\ UNCHANGED <<log, tables, coordinator, epoch, supervisor, dropped, faults>>

SyncProcessorCheckpoint ==
  /\ Head1("sync")
  /\ worker' = [Popped EXCEPT !.flushed[Part] = Larger(@, Pos)]
  /\ UNCHANGED <<log, tables, coordinator, epoch, supervisor, dropped, faults>>

(* A handled event joins the batch transaction. *)
HandleGood ==
  /\ Head1("event") /\ ~Seen /\ log[Part][Pos] = "good"
  /\ worker' = [Popped EXCEPT !.batch[Part] = Append(@, Pos), !.handled[Part] = Pos]
  /\ UNCHANGED <<log, tables, coordinator, epoch, supervisor, dropped, faults>>

(* The checkpoint rows a flush of w writes. *)
Flushes(w, p) == w.handled[p] # 0 /\ w.handled[p] # w.flushed[p]

(* A row inserted by someone else: 23505, UnexpectedLastEventId. *)
FlushConflicts(w) ==
  \E p \in Partitions : Flushes(w, p) /\ w.flushed[p] = 0 /\ checkpoint[p] # 0

(* Mutant: the checkpoint is committed, the open batch is not. *)
CommitCheckpointOnly(w) ==
  /\ applied' = applied
  /\ letters' = [p \in Partitions |-> letters[p] \cup w.dead[p]]
  /\ checkpoint' = [p \in Partitions |-> IF Flushes(w, p) THEN w.handled[p]
                                         ELSE checkpoint[p]]

(* Effects, dead letters and checkpoints of w are committed together. *)
Commit(w) ==
  /\ applied' = [p \in Partitions |-> applied[p] \o w.batch[p]]
  /\ letters' = [p \in Partitions |-> letters[p] \cup w.dead[p]]
  /\ checkpoint' = [p \in Partitions |-> IF Flushes(w, p) THEN w.handled[p]
                                         ELSE checkpoint[p]]

Rested(w) == [w EXCEPT !.batch = NoBatch, !.dead = NoLetters]

HasBatch == worker.batch # NoBatch

(* flush_checkpoint, on the interval or after enough events. *)
Flush ==
  /\ worker.state = "alive" /\ HasBatch
  /\ ~FlushConflicts(worker)
  /\ Commit(worker)
  /\ worker' = [Rested(worker) EXCEPT !.flushed = worker.handled]
  /\ UNCHANGED <<log, coordinator, epoch, supervisor, dropped, faults>>

(* The worker with the dead letter of its next event in its transaction. *)
Lettered == [Popped EXCEPT !.dead[Part] = @ \cup {Pos}, !.handled[Part] = Pos]

Poisoned == Head1("event") /\ ~Seen /\ log[Part][Pos] = "poison"

(* dead_letter_event in the retained transaction, and the full flush. *)
HandlePoison ==
  /\ Poisoned
  /\ ~FlushConflicts(Lettered)
  /\ Commit(Lettered)
  /\ worker' = [Rested(Lettered) EXCEPT !.flushed = Lettered.handled]
  /\ UNCHANGED <<log, coordinator, epoch, supervisor, dropped, faults>>

(* The worker dies: its transaction and its mailbox are gone. *)
WorkerDies == worker' = [Vacant EXCEPT !.state = "dead"]

(* An error that outlasts the retries ends the worker (on_panic). *)
HandleFails ==
  /\ Head1("event") /\ ~Seen
  /\ Fault("worker")
  /\ WorkerDies
  /\ UNCHANGED <<log, tables, coordinator, epoch, supervisor, dropped>>

(* So does a flush that conflicts, whoever asked for it. *)
FlushDies ==
  /\ worker.state = "alive"
  /\ \/ HasBatch /\ FlushConflicts(worker)
     \/ Poisoned /\ FlushConflicts(Lettered)
  /\ WorkerDies
  /\ UNCHANGED <<log, tables, coordinator, epoch, supervisor, dropped, faults>>

-----------------------------------------------------------------------------
(* A broken connection.  The batch transaction is dropped, what was handled *)
(* in it stays in last_handled_sequences, and the worker goes on.           *)

InBatch(p) == {worker.batch[p][k] : k \in DOMAIN worker.batch[p]}

BatchIsDropped == dropped' = [p \in Partitions |-> dropped[p] \cup InBatch(p)]

(* SAVEPOINT or ROLLBACK TO SAVEPOINT fails; the event is tried again. *)
DropBatch ==
  /\ Head1("event") /\ ~Seen /\ HasBatch
  /\ Fault("broken")
  /\ worker' = Rested(worker)
  /\ BatchIsDropped
  /\ UNCHANGED <<log, tables, coordinator, epoch, supervisor>>

(* dead_letter_event without a retained transaction: letter and checkpoint  *)
(* of this partition in a transaction of their own.                         *)
PoisonOwnTransaction ==
  /\ Poisoned
  /\ Fault("broken")
  /\ letters' = [letters EXCEPT ![Part] = @ \cup {Pos}]
  /\ checkpoint' = [checkpoint EXCEPT ![Part] = Larger(@, Pos)]
  /\ worker' = [Rested(Popped) EXCEPT !.handled[Part] = Pos, !.flushed[Part] = Pos]
  /\ BatchIsDropped
  /\ UNCHANGED <<log, applied, coordinator, epoch, supervisor>>

(* COMMIT fails, with or without effect; the retried flush finds no         *)
(* transaction and reports success.                                         *)
CommitFails ==
  /\ worker.state = "alive" /\ HasBatch /\ ~FlushConflicts(worker)
  /\ Fault("broken")
  /\ \/ Commit(worker) /\ UNCHANGED dropped
     \/ BatchIsDropped /\ UNCHANGED tables
  /\ worker' = Rested(worker)
  /\ UNCHANGED <<log, coordinator, epoch, supervisor>>

(* The same COMMIT at the end of dead_letter_event: the poison event counts *)
(* as handled, and its letter may be gone with the batch.                   *)
PoisonCommitFails ==
  /\ Poisoned /\ ~FlushConflicts(Lettered)
  /\ Fault("broken")
  /\ \/ Commit(Lettered) /\ UNCHANGED dropped
     \/ /\ dropped' = [p \in Partitions |-> dropped[p] \cup InBatch(p) \cup Lettered.dead[p]]
        /\ UNCHANGED tables
  /\ worker' = Rested(Lettered)
  /\ UNCHANGED <<log, coordinator, epoch, supervisor>>

-----------------------------------------------------------------------------
Init ==
  /\ log = [p \in Partitions |-> << >>]
  /\ checkpoint = Nowhere
  /\ applied = [p \in Partitions |-> << >>]
  /\ letters = NoLetters
  /\ coordinator = [alive |-> TRUE, flushed |-> Nowhere]
  /\ worker = Vacant
  /\ epoch = ClosedEpoch
  /\ supervisor = NewSupervisor
  /\ dropped = NoLetters
  /\ faults = 0

EpochStep == StartEpoch \/ StartEpochFails

Receive(p) == Deliver(p) \/ DeliverFails(p) \/ DeadLetterUndecodable(p)

HandleNext == SkipHandled \/ SyncProcessorCheckpoint \/ HandleGood \/ HandlePoison

Connection == StreamFails \/ StreamEnds \/ DropBatch \/ PoisonOwnTransaction
              \/ CommitFails \/ PoisonCommitFails

Next ==
  \/ \E p \in Partitions, k \in Kinds : Publish(p, k)
  \/ EpochStep \/ \E p \in Partitions : Receive(p)
  \/ HandleNext \/ Flush \/ HandleFails \/ FlushDies \/ LinkDied
  \/ Crash \/ Connection

Spec == Init /\ [][Next]_vars

(* The supervisor loop, the subscription, the actors and the flush interval *)
(* keep going; nothing has to be published and nothing has to fail.         *)
Fairness ==
  /\ WF_vars(EpochStep) /\ \A p \in Partitions : WF_vars(Receive(p))
  /\ WF_vars(HandleNext) /\ WF_vars(Flush \/ FlushDies) /\ WF_vars(LinkDied)

FairSpec == Spec /\ Fairness

-----------------------------------------------------------------------------
(* Properties *)

(* The tables, the actors, the epoch and the supervisor have their types. *)
TypeOK ==
  /\ log \in [Partitions -> Seq(Kinds)]
  /\ checkpoint \in Sequences
  /\ applied \in [Partitions -> Seq(Nat)]
  /\ letters \in [Partitions -> SUBSET Nat]
  /\ coordinator \in Coordinators
  /\ worker \in Workers
  /\ epoch \in Epochs
  /\ supervisor \in Supervisors
  /\ dropped \in [Partitions -> SUBSET Nat]
  /\ faults \in 0..MaxFaults

Applied(p, i) == \E k \in DOMAIN applied[p] : applied[p][k] = i

(* An event that was in flight when a later undecodable one moved the       *)
(* checkpoint past it.                                                      *)
Overtaken(p, i) == \E j \in letters[p] : j > i /\ log[p][j] = "undecodable"

Settled(p, i) == Applied(p, i) \/ i \in letters[p]

(* What the checkpoint says is done is done, whatever dies and restarts:    *)
(* every event up to it has its effects committed or is dead-lettered, but  *)
(* for events an undecodable one has overtaken and events that went with a  *)
(* transaction dropped by a worker that lived on.                           *)
CheckpointIsHonest ==
  \A p \in Partitions : \A i \in 1 .. checkpoint[p] :
    Settled(p, i) \/ Overtaken(p, i) \/ i \in dropped[p]

(* What the processor's comments claim of a dropped transaction: dropping   *)
(* it is "replay-safe: the checkpoint never advanced past the earlier       *)
(* events".                                                                 *)
DroppingIsReplaySafe ==
  \A p \in Partitions : \A i \in dropped[p] :
    i <= checkpoint[p] => Settled(p, i)

(* Redelivery, after restarts of the epoch or of the process, never applies *)
(* an event twice nor out of the order of its partition.                    *)
AppliedOnceInOrder ==
  \A p \in Partitions : \A j, k \in DOMAIN applied[p] :
    j < k => applied[p][j] < applied[p][k]

(* Every event published is settled in the end, or the projector is down:   *)
(* its coordinator has stopped or its supervisor has given up.              *)
EventsSettle ==
  \A p \in Partitions : \A i \in 1 .. MaxEvents[p] :
    i \in DOMAIN log[p] ~> \/ Settled(p, i) \/ Overtaken(p, i) \/ i \in dropped[p]
                           \/ ~coordinator.alive \/ supervisor.stopped
=============================================================================
