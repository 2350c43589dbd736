-------------------------- MODULE ReadModelProofs --------------------------
(***************************************************************************)
(* Theorems about the two halves of the read model, which share nothing:   *)
(* Projection, how events reach a projector, for every set of partitions,  *)
(* every mix of events and every number of faults; and Catalogue, what the *)
(* statements of the projectors make of them, for every kind of entity,    *)
(* every sequence of commands and every replay.                            *)
(*                                                                         *)
(* Projection first.  Neither property of the tables is inductive: what a  *)
(* checkpoint says is decided by what the worker, the coordinator and the  *)
(* subscription hold in memory.  ProjectionInv relates them: an event      *)
(* below the position of the subscription is accounted for, or the worker  *)
(* has handled it, or it is still in the worker's mailbox ahead of every   *)
(* later event of its partition.                                           *)
(***************************************************************************)
EXTENDS Projection, Catalogue, Integers, WellFoundedInduction, TLAPS

Alive == worker.state = "alive"

(* The supervisor has failures to spare while it has not given up. *)
SupervisorInv ==
  /\ ~supervisor.stopped => supervisor.failures < MaxAttempts
  /\ epoch.open => ~supervisor.stopped

(* A worker that is not alive holds nothing; dead letters are committed in *)
(* the step that writes them.                                              *)
WorkerShape ==
  /\ worker.dead = NoLetters
  /\ ~Alive => worker.mailbox = << >> /\ worker.batch = NoBatch

(* Letters and messages name events of the log, and the coordinator sends  *)
(* a SyncProcessorCheckpoint only for an undecodable one.                  *)
InLog(p, i) == i \in 1..Len(log[p])

Mail(m) == worker.mailbox[m]

NamesLog ==
  /\ \A p \in Partitions : \A j \in letters[p] : InLog(p, j)
  /\ \A m \in 1..Len(worker.mailbox) :
       /\ InLog(Mail(m).partition, Mail(m).sequence)
       /\ Mail(m).type = "sync" => log[Mail(m).partition][Mail(m).sequence] = "undecodable"

(* The subscription is past what the coordinator has settled by itself. *)
EpochAhead(p) ==
  epoch.open => /\ coordinator.flushed[p] < epoch.next[p]
                /\ worker.state = "vacant" => epoch.next[p] = coordinator.flushed[p] + 1

Increasing(s) == \A j, k \in 1..Len(s) : j < k => s[j] < s[k]

Below(s, n) == \A k \in 1..Len(s) : s[k] <= n

Before(s, t) == \A j \in 1..Len(s), k \in 1..Len(t) : s[j] < t[k]

Holds(s, x) == \E k \in 1..Len(s) : s[k] = x

(* The open batch goes on where the committed effects end, and a batch     *)
(* that is not empty ends in a good event that no flush has covered.       *)
BatchInv(p) ==
  Alive =>
    /\ Increasing(worker.batch[p])
    /\ Below(worker.batch[p], worker.handled[p])
    /\ Before(applied[p], worker.batch[p])
    /\ worker.batch[p] # << >> =>
         /\ InLog(p, worker.handled[p])
         /\ log[p][worker.handled[p]] = "good"
         /\ worker.flushed[p] # worker.handled[p]
    /\ \/ worker.flushed[p] <= worker.handled[p]
       \/ InLog(p, worker.flushed[p]) /\ log[p][worker.flushed[p]] = "undecodable"

(* Committed effects are below the checkpoint and below the sequence the   *)
(* worker, or the next one, skips redelivered events by.                   *)
AppliedInv(p) ==
  /\ Increasing(applied[p])
  /\ Below(applied[p], checkpoint[p])
  /\ worker.state = "vacant" => Below(applied[p], coordinator.flushed[p])
  /\ Alive => Below(applied[p], worker.handled[p])

Covered(p, i) == Settled(p, i) \/ Overtaken(p, i) \/ i \in dropped[p]

Batched(p, i) == Holds(worker.batch[p], i)

(* Event i of p is a message before position n of the mailbox. *)
Mailed(p, i, n) == \E m \in 1..Len(worker.mailbox) :
                     m < n /\ Mail(m) = [type |-> "event", partition |-> p, sequence |-> i]

(* Event i of p is accounted for before position n of the mailbox. *)
Accounted(p, i, n) == i <= worker.handled[p] \/ Covered(p, i) \/ Mailed(p, i, n)

CoveredInv(p) ==
  /\ \A i \in 1..checkpoint[p] : Covered(p, i)
  /\ \A i \in 1..coordinator.flushed[p] : Covered(p, i)
  /\ Alive => \A i \in 1..worker.handled[p] : Covered(p, i) \/ Batched(p, i)

(* Nothing is skipped: events come to the worker in order. *)
InOrder ==
  Alive =>
    /\ \A m \in 1..Len(worker.mailbox) :
         Mail(m).type = "event" =>
           \A i \in 1..Mail(m).sequence - 1 : Accounted(Mail(m).partition, i, m)
    /\ epoch.open => \A p \in Partitions : \A i \in 1..epoch.next[p] - 1 :
                       Accounted(p, i, Len(worker.mailbox) + 1)

ProjectionInv ==
  /\ TypeOK /\ SupervisorInv /\ WorkerShape /\ NamesLog /\ InOrder
  /\ \A p \in Partitions : EpochAhead(p) /\ BatchInv(p) /\ AppliedInv(p) /\ CoveredInv(p)
-----------------------------------------------------------------------------
(* Types *)

LEMMA FieldTypes ==
  ASSUME TypeOK
  PROVE  /\ worker.state \in {"vacant", "alive", "dead"}
         /\ worker.mailbox \in Seq(Messages)
         /\ worker.batch \in [Partitions -> Seq(Nat)]
         /\ worker.dead \in [Partitions -> SUBSET Nat]
         /\ worker.handled \in [Partitions -> Nat]
         /\ worker.flushed \in [Partitions -> Nat]
         /\ coordinator.alive \in BOOLEAN
         /\ coordinator.flushed \in [Partitions -> Nat]
         /\ epoch.open \in BOOLEAN
         /\ epoch.next \in [Partitions -> Nat]
         /\ checkpoint \in [Partitions -> Nat]
         /\ supervisor.failures \in 0..MaxAttempts
         /\ supervisor.stopped \in BOOLEAN
PROOF
  BY DEF TypeOK, Workers, Coordinators, Epochs, Supervisors, Sequences

LEMMA MailTypes ==
  ASSUME TypeOK
  PROVE  /\ Len(worker.mailbox) \in Nat
         /\ \A m \in 1..Len(worker.mailbox) :
              /\ Mail(m) \in Messages
              /\ Mail(m).partition \in Partitions
              /\ Mail(m).sequence \in Nat
              /\ Mail(m).type \in {"event", "sync"}
PROOF
<1>1. worker.mailbox \in Seq(Messages)
  BY FieldTypes
<1>2. \A x \in Messages : /\ x.partition \in Partitions
                         /\ x.sequence \in Nat
                         /\ x.type \in {"event", "sync"}
  BY DEF Messages
<1>3. /\ Len(worker.mailbox) \in Nat
      /\ \A m \in 1..Len(worker.mailbox) : Mail(m) \in Messages
  BY <1>1 DEF Mail
<1> QED
  BY <1>2, <1>3

LEMMA PartitionTypes ==
  ASSUME TypeOK, NEW p \in Partitions
  PROVE  /\ Len(log[p]) \in Nat
         /\ applied[p] \in Seq(Nat) /\ Len(applied[p]) \in Nat
         /\ \A k \in 1..Len(applied[p]) : applied[p][k] \in Nat
         /\ worker.batch[p] \in Seq(Nat) /\ Len(worker.batch[p]) \in Nat
         /\ \A k \in 1..Len(worker.batch[p]) : worker.batch[p][k] \in Nat
         /\ letters[p] \subseteq Nat /\ dropped[p] \subseteq Nat
         /\ worker.dead[p] \subseteq Nat
         /\ worker.handled[p] \in Nat /\ worker.flushed[p] \in Nat
         /\ coordinator.flushed[p] \in Nat /\ epoch.next[p] \in Nat
         /\ checkpoint[p] \in Nat
PROOF
<1>1. /\ log[p] \in Seq(Kinds) /\ applied[p] \in Seq(Nat)
      /\ letters[p] \subseteq Nat /\ dropped[p] \subseteq Nat
  BY DEF TypeOK
<1>2. worker.batch[p] \in Seq(Nat)
  BY FieldTypes
<1>3. \A x \in Seq(Nat) : Len(x) \in Nat /\ \A k \in 1..Len(x) : x[k] \in Nat
  OBVIOUS
<1>4. Len(log[p]) \in Nat
  BY <1>1
<1> QED
  BY <1>1, <1>2, <1>3, <1>4, FieldTypes

LEMMA EmptyTypes ==
  /\ Nowhere \in [Partitions -> Nat]
  /\ NoBatch \in [Partitions -> Seq(Nat)]
  /\ NoLetters \in [Partitions -> SUBSET Nat]
  /\ \A p \in Partitions : Nowhere[p] = 0 /\ NoBatch[p] = << >> /\ NoLetters[p] = {}
  /\ << >> \in Seq(Messages)
PROOF
<1>1. << >> \in Seq(Nat) /\ << >> \in Seq(Messages)
  OBVIOUS
<1> QED
  BY <1>1 DEF Nowhere, NoBatch, NoLetters

(* A worker is its six fields. *)
LEMMA WorkerMade ==
  ASSUME NEW st \in {"vacant", "alive", "dead"}, NEW mb \in Seq(Messages),
         NEW b \in [Partitions -> Seq(Nat)], NEW d \in [Partitions -> SUBSET Nat],
         NEW h \in [Partitions -> Nat], NEW f \in [Partitions -> Nat]
  PROVE  [state |-> st, mailbox |-> mb, batch |-> b, dead |-> d,
          handled |-> h, flushed |-> f] \in Workers
PROOF
  BY DEF Workers, Sequences

-----------------------------------------------------------------------------
(* What only grows *)

LogGrows ==
  \A p \in Partitions : /\ Len(log[p]) <= Len(log'[p])
                        /\ \A i \in 1..Len(log[p]) : log'[p][i] = log[p][i]

EffectsGrow ==
  \A p \in Partitions : /\ letters[p] \subseteq letters'[p]
                        /\ dropped[p] \subseteq dropped'[p]
                        /\ \A i : Applied(p, i) => Applied(p, i)'

CoverageGrows == \A p \in Partitions : \A i \in Nat : Covered(p, i) => Covered(p, i)'

LEMMA UnchangedLogGrows ==
  ASSUME TypeOK, UNCHANGED log
  PROVE  LogGrows
PROOF
  BY PartitionTypes DEF LogGrows

LEMMA UnchangedEffectsGrow ==
  ASSUME UNCHANGED <<applied, letters, dropped>>
  PROVE  EffectsGrow
PROOF
  BY DEF EffectsGrow, Applied

(* An event that is accounted for stays so. *)
LEMMA CoverageKept ==
  ASSUME ProjectionInv, LogGrows, EffectsGrow
  PROVE  CoverageGrows
PROOF
<1> SUFFICES ASSUME NEW p \in Partitions, NEW i \in Nat, Covered(p, i)
             PROVE  Covered(p, i)'
  BY DEF CoverageGrows
<1>1. CASE Settled(p, i)
  BY <1>1 DEF Covered, Settled, EffectsGrow
<1>2. CASE Overtaken(p, i)
  <2>1. PICK j \in letters[p] : j > i /\ log[p][j] = "undecodable"
    BY <1>2 DEF Overtaken
  <2>2. j \in letters'[p] /\ log'[p][j] = log[p][j]
    BY <2>1 DEF EffectsGrow, LogGrows, ProjectionInv, NamesLog, InLog
  <2> QED
    BY <2>1, <2>2 DEF Covered, Overtaken
<1>3. CASE i \in dropped[p]
  BY <1>3 DEF Covered, EffectsGrow
<1> QED
  BY <1>1, <1>2, <1>3 DEF Covered
-----------------------------------------------------------------------------
(* What keeps each conjunct *)

LEMMA BatchKept ==
  ASSUME ProjectionInv, LogGrows, NEW p \in Partitions,
         applied'[p] = applied[p], worker'.state = worker.state,
         worker'.batch[p] = worker.batch[p], worker'.handled[p] = worker.handled[p],
         worker'.flushed[p] = worker.flushed[p], Len(log'[p]) \in Nat
  PROVE  BatchInv(p)'
PROOF
<1>1. BatchInv(p) /\ Len(log[p]) \in Nat
  BY PartitionTypes DEF ProjectionInv
<1>2. \A i : InLog(p, i) => InLog(p, i)' /\ log'[p][i] = log[p][i]
  BY <1>1 DEF LogGrows, InLog
<1> QED
  BY <1>1, <1>2 DEF BatchInv, Alive, Increasing, Below, Before

LEMMA CoveredKept ==
  ASSUME ProjectionInv, CoverageGrows, NEW p \in Partitions,
         checkpoint'[p] = checkpoint[p],
         coordinator'.flushed[p] = coordinator.flushed[p],
         worker'.state = worker.state, worker'.batch[p] = worker.batch[p],
         worker'.handled[p] = worker.handled[p]
  PROVE  CoveredInv(p)'
PROOF
<1>1. /\ CoveredInv(p)
      /\ checkpoint[p] \in Nat /\ coordinator.flushed[p] \in Nat /\ worker.handled[p] \in Nat
  BY PartitionTypes DEF ProjectionInv
<1>2. \A n \in Nat : \A i \in 1..n : i \in Nat
  OBVIOUS
<1>3. Alive' <=> Alive
  BY DEF Alive
<1>4. \A i : Batched(p, i)' <=> Batched(p, i)
  BY DEF Batched, Holds
<1>5. \A i \in 1..checkpoint[p] : Covered(p, i)'
  BY <1>1, <1>2 DEF CoveredInv, CoverageGrows
<1>6. \A i \in 1..coordinator.flushed[p] : Covered(p, i)'
  BY <1>1, <1>2 DEF CoveredInv, CoverageGrows
<1>7. Alive => \A i \in 1..worker.handled[p] : Covered(p, i)' \/ Batched(p, i)
  BY <1>1, <1>2 DEF CoveredInv, CoverageGrows
<1> QED
  BY <1>3, <1>4, <1>5, <1>6, <1>7 DEF CoveredInv

LEMMA AccountedKept ==
  ASSUME ProjectionInv, CoverageGrows, NEW p \in Partitions, NEW i \in Nat, NEW n \in Nat,
         worker'.mailbox = worker.mailbox, worker'.handled = worker.handled,
         Accounted(p, i, n)
  PROVE  Accounted(p, i, n)'
PROOF
  BY DEF Accounted, Mailed, Mail, CoverageGrows

LEMMA InOrderKept ==
  ASSUME ProjectionInv, CoverageGrows, worker'.mailbox = worker.mailbox,
         worker'.handled = worker.handled, worker'.state = worker.state,
         epoch'.open => \/ epoch' = epoch
                        \/ \A p \in Partitions : epoch'.next[p] = coordinator.flushed[p] + 1
  PROVE  InOrder'
PROOF
<1> SUFFICES ASSUME Alive PROVE InOrder'
  BY DEF InOrder, Alive
<1> USE MailTypes, PartitionTypes DEF ProjectionInv
<1>1. ASSUME NEW m \in 1..Len(worker.mailbox), Mail(m).type = "event",
             NEW i \in 1..Mail(m).sequence - 1
      PROVE  Accounted(Mail(m).partition, i, m)'
  <2>1. Accounted(Mail(m).partition, i, m)
    BY <1>1 DEF InOrder
  <2>2. i \in Nat /\ m \in Nat /\ Mail(m).partition \in Partitions
    BY <1>1
  <2>3. Mail(m)' = Mail(m)
    BY DEF Mail
  <2> QED
    BY <2>1, <2>2, <2>3, AccountedKept
<1>2. ASSUME epoch'.open, NEW p \in Partitions, NEW i \in 1..epoch'.next[p] - 1
      PROVE  Accounted(p, i, Len(worker.mailbox) + 1)'
  <2>1. CASE epoch' = epoch
    <3>1. i \in Nat /\ Len(worker.mailbox) + 1 \in Nat
      BY <1>2, <2>1
    <3>2. Accounted(p, i, Len(worker.mailbox) + 1)
      BY <1>2, <2>1 DEF InOrder
    <3> QED
      BY <3>1, <3>2, AccountedKept
  <2>2. CASE epoch'.next[p] = coordinator.flushed[p] + 1
    <3>1. i \in 1..coordinator.flushed[p] /\ i \in Nat
      BY <1>2, <2>2
    <3>2. Covered(p, i)'
      BY <3>1 DEF CoveredInv, CoverageGrows
    <3> QED
      BY <3>2 DEF Accounted
  <2> QED
    BY <1>2, <2>1, <2>2
<1>3. \A m : Mail(m)' = Mail(m)
  BY DEF Mail
<1> QED
  BY <1>1, <1>2, <1>3 DEF InOrder

LEMMA NamesLogKept ==
  ASSUME ProjectionInv, LogGrows, worker'.mailbox = worker.mailbox, UNCHANGED letters,
         \A p \in Partitions : Len(log'[p]) \in Nat
  PROVE  NamesLog'
PROOF
<1> USE MailTypes, PartitionTypes DEF ProjectionInv
<1>1. \A p \in Partitions : \A i : InLog(p, i) => InLog(p, i)' /\ log'[p][i] = log[p][i]
  BY DEF LogGrows, InLog
<1>2. \A m : Mail(m)' = Mail(m)
  BY DEF Mail
<1>3. ASSUME NEW m \in 1..Len(worker.mailbox)
      PROVE  /\ InLog(Mail(m).partition, Mail(m).sequence)'
             /\ Mail(m).type = "sync" =>
                  log'[Mail(m).partition][Mail(m).sequence] = "undecodable"
  <2>1. /\ InLog(Mail(m).partition, Mail(m).sequence)
        /\ Mail(m).type = "sync" =>
             log[Mail(m).partition][Mail(m).sequence] = "undecodable"
        /\ Mail(m).partition \in Partitions
    BY <1>3 DEF NamesLog
  <2> QED
    BY <1>1, <1>2, <2>1
<1>4. \A p \in Partitions : \A j \in letters'[p] : InLog(p, j)'
  BY <1>1 DEF NamesLog
<1> QED
  BY <1>2, <1>3, <1>4 DEF NamesLog
-----------------------------------------------------------------------------
(* The supervisor and the subscription *)

(* A step of the supervisor, the subscription or the link between the      *)
(* actors changes no table and no sequence map.                            *)
LEMMA QuietStep ==
  ASSUME ProjectionInv, UNCHANGED <<log, checkpoint, applied, letters, dropped, worker>>,
         coordinator' \in Coordinators, coordinator'.flushed = coordinator.flushed,
         epoch' \in Epochs, supervisor' \in Supervisors, faults' \in 0..MaxFaults,
         SupervisorInv',
         epoch'.open => \/ epoch' = epoch
                        \/ \A p \in Partitions : epoch'.next[p] = coordinator.flushed[p] + 1
  PROVE  ProjectionInv'
PROOF
<1>1. LogGrows /\ CoverageGrows
  BY UnchangedLogGrows, UnchangedEffectsGrow, CoverageKept DEF ProjectionInv
<1>2. TypeOK'
  BY DEF ProjectionInv, TypeOK
<1>3. WorkerShape'
  BY DEF ProjectionInv, WorkerShape, Alive
<1>4. NamesLog'
  BY <1>1, NamesLogKept, PartitionTypes DEF ProjectionInv
<1>5. InOrder'
  BY <1>1, InOrderKept
<1>6. ASSUME NEW p \in Partitions
      PROVE  EpochAhead(p)' /\ BatchInv(p)' /\ AppliedInv(p)' /\ CoveredInv(p)'
  <2>1. BatchInv(p)' /\ CoveredInv(p)'
    BY <1>1, BatchKept, CoveredKept, PartitionTypes DEF ProjectionInv
  <2>2. AppliedInv(p)'
    BY DEF ProjectionInv, AppliedInv, Alive, Increasing, Below
  <2>3. EpochAhead(p)'
    BY PartitionTypes DEF ProjectionInv, EpochAhead
  <2> QED
    BY <2>1, <2>2, <2>3
<1> QED
  BY <1>2, <1>3, <1>4, <1>5, <1>6 DEF ProjectionInv

LEMMA FailingEpoch ==
  ASSUME ProjectionInv, EpochFails, ~supervisor.stopped
  PROVE  /\ epoch' \in Epochs /\ ~epoch'.open
         /\ supervisor' \in Supervisors /\ SupervisorInv'
PROOF
<1>1. ClosedEpoch \in Epochs /\ ~ClosedEpoch.open
  BY EmptyTypes DEF ClosedEpoch, Epochs, Sequences
<1>2. supervisor.failures \in Nat /\ supervisor.failures < MaxAttempts /\ MaxAttempts \in Nat
  BY ProjectionConstants, FieldTypes DEF ProjectionInv, SupervisorInv
<1>3. supervisor' \in Supervisors
  BY <1>2 DEF EpochFails, Supervisors
<1>4. ~supervisor'.stopped => supervisor'.failures < MaxAttempts
  <2>1. /\ supervisor'.failures = supervisor.failures + 1
        /\ supervisor'.stopped = (supervisor.failures + 1 >= MaxAttempts)
    BY Zenon DEF EpochFails
  <2>2. supervisor.failures + 1 >= MaxAttempts \/ supervisor.failures + 1 < MaxAttempts
    BY <1>2
  <2> QED
    BY <2>1, <2>2, Zenon
<1> QED
  BY <1>1, <1>3, <1>4 DEF EpochFails, SupervisorInv

LEMMA FaultTypes ==
  ASSUME ProjectionInv
  PROVE  /\ \A f : Fault(f) => faults' \in 0..MaxFaults
         /\ UNCHANGED faults => faults' \in 0..MaxFaults
PROOF
  BY ProjectionConstants DEF ProjectionInv, TypeOK, Fault

LEMMA QuietActions ==
  ASSUME ProjectionInv,
         \/ StartEpoch \/ StartEpochFails \/ StreamFails \/ StreamEnds \/ LinkDied
         \/ \E p \in Partitions : DeliverFails(p)
  PROVE  ProjectionInv'
PROOF
<1> USE FieldTypes DEF tables
<1>1. coordinator \in Coordinators /\ epoch \in Epochs /\ supervisor \in Supervisors
  BY DEF ProjectionInv, TypeOK
<1>2. CASE StartEpoch
  <2>1. epoch' = [open |-> TRUE, next |-> [p \in Partitions |-> coordinator.flushed[p] + 1]]
    BY <1>2 DEF StartEpoch
  <2>2. /\ epoch' \in Epochs
        /\ \A p \in Partitions : epoch'.next[p] = coordinator.flushed[p] + 1
    BY <2>1 DEF ProjectionInv, Epochs, Sequences
  <2>3. SupervisorInv'
    BY <1>2 DEF StartEpoch, ProjectionInv, SupervisorInv
  <2> QED
    BY <1>1, <1>2, <2>2, <2>3, QuietStep, FaultTypes DEF StartEpoch
<1>3. CASE StartEpochFails
  <2>1. /\ epoch' \in Epochs /\ ~epoch'.open
        /\ supervisor' \in Supervisors /\ SupervisorInv'
    BY <1>3, FailingEpoch DEF StartEpochFails
  <2> QED
    BY <1>1, <1>3, <2>1, QuietStep, FaultTypes DEF StartEpochFails
<1>4. CASE StreamFails
  <2>1. ~supervisor.stopped
    BY <1>4 DEF StreamFails, ProjectionInv, SupervisorInv
  <2>2. /\ epoch' \in Epochs /\ ~epoch'.open
        /\ supervisor' \in Supervisors /\ SupervisorInv'
    BY <1>4, <2>1, FailingEpoch DEF StreamFails
  <2> QED
    BY <1>1, <1>4, <2>2, QuietStep, FaultTypes DEF StreamFails
<1>5. CASE StreamEnds
  <2>1. epoch' \in Epochs /\ ~epoch'.open
    BY <1>5, EmptyTypes DEF StreamEnds, ClosedEpoch, Epochs, Sequences
  <2>2. supervisor' \in Supervisors /\ SupervisorInv'
    BY <1>5, <2>1, ProjectionConstants
       DEF StreamEnds, NewSupervisor, Supervisors, SupervisorInv
  <2> QED
    BY <1>1, <1>5, <2>1, <2>2, QuietStep, FaultTypes DEF StreamEnds
<1>6. CASE LinkDied
  <2>1. coordinator' \in Coordinators /\ coordinator'.flushed = coordinator.flushed
    BY <1>1, <1>6 DEF LinkDied, Coordinators
  <2>2. SupervisorInv'
    BY <1>6 DEF LinkDied, ProjectionInv, SupervisorInv
  <2> QED
    BY <1>1, <1>6, <2>1, <2>2, QuietStep, FaultTypes DEF LinkDied
<1>7. ASSUME NEW p \in Partitions, DeliverFails(p)
      PROVE  ProjectionInv'
  <2>1. ~supervisor.stopped
    BY <1>7 DEF DeliverFails, Pending, ProjectionInv, SupervisorInv
  <2>2. /\ epoch' \in Epochs /\ ~epoch'.open
        /\ supervisor' \in Supervisors /\ SupervisorInv'
    BY <1>7, <2>1, FailingEpoch DEF DeliverFails
  <2> QED
    BY <1>1, <1>7, <2>2, QuietStep, FaultTypes DEF DeliverFails
<1> QED
  BY <1>2, <1>3, <1>4, <1>5, <1>6, <1>7

(* The log only grows under what the projector knows of it. *)
LEMMA PublishStep ==
  ASSUME ProjectionInv, NEW p \in Partitions, NEW k \in Kinds, Publish(p, k)
  PROVE  ProjectionInv'
PROOF
<1>1. log \in [Partitions -> Seq(Kinds)] /\ log' = [log EXCEPT ![p] = Append(log[p], k)]
  BY DEF ProjectionInv, TypeOK, Publish
<1>2. log' \in [Partitions -> Seq(Kinds)] /\ LogGrows
  <2>1. /\ Append(log[p], k) \in Seq(Kinds)
        /\ Len(Append(log[p], k)) = Len(log[p]) + 1
        /\ \A i \in 1..Len(log[p]) : Append(log[p], k)[i] = log[p][i]
        /\ Len(log[p]) \in Nat
    BY <1>1
  <2>2. log'[p] = Append(log[p], k) /\ \A q \in Partitions \ {p} : log'[q] = log[q]
    BY <1>1
  <2>3. \A q \in Partitions : Len(log[q]) \in Nat
    BY <1>1
  <2> QED
    BY <1>1, <2>1, <2>2, <2>3 DEF LogGrows
<1>3. UNCHANGED <<checkpoint, applied, letters, coordinator, worker, epoch, supervisor,
                  dropped, faults>>
  BY DEF Publish, tables
<1>4. CoverageGrows /\ \A q \in Partitions : Len(log'[q]) \in Nat
  BY <1>2, <1>3, UnchangedEffectsGrow, CoverageKept
<1>5. TypeOK' /\ WorkerShape' /\ SupervisorInv'
  BY <1>2, <1>3 DEF ProjectionInv, TypeOK, WorkerShape, SupervisorInv, Alive
<1>6. NamesLog' /\ InOrder'
  BY <1>2, <1>3, <1>4, NamesLogKept, InOrderKept
<1>7. ASSUME NEW q \in Partitions
      PROVE  EpochAhead(q)' /\ BatchInv(q)' /\ AppliedInv(q)' /\ CoveredInv(q)'
  <2>1. BatchInv(q)' /\ CoveredInv(q)'
    BY <1>2, <1>3, <1>4, BatchKept, CoveredKept
  <2>2. AppliedInv(q)' /\ EpochAhead(q)'
    BY <1>3 DEF ProjectionInv, AppliedInv, EpochAhead, Alive, Increasing, Below
  <2> QED
    BY <2>1, <2>2
<1> QED
  BY <1>5, <1>6, <1>7 DEF ProjectionInv
(* The process restarts: what the checkpoint says is what it begins from. *)
LEMMA CrashStep ==
  ASSUME ProjectionInv, Crash
  PROVE  ProjectionInv'
PROOF
<1> USE EmptyTypes, PartitionTypes DEF ProjectionInv
<1>1. /\ UNCHANGED <<log, checkpoint, applied, letters, dropped>>
      /\ coordinator' = [alive |-> TRUE, flushed |-> checkpoint]
      /\ worker' = Vacant /\ epoch' = ClosedEpoch /\ supervisor' = NewSupervisor
  BY DEF Crash, tables
<1>2. /\ worker' \in Workers /\ worker'.state = "vacant" /\ worker'.mailbox = << >>
      /\ worker'.batch = NoBatch /\ worker'.dead = NoLetters
  BY <1>1, WorkerMade DEF Vacant
<1>3. coordinator' \in Coordinators /\ coordinator'.flushed = checkpoint
  BY <1>1, FieldTypes DEF Coordinators, Sequences
<1>4. epoch' \in Epochs /\ ~epoch'.open
  BY <1>1 DEF ClosedEpoch, Epochs, Sequences
<1>5. supervisor' \in Supervisors /\ SupervisorInv'
  BY <1>1, <1>4, ProjectionConstants DEF NewSupervisor, Supervisors, SupervisorInv
<1>6. faults' \in 0..MaxFaults
  BY FaultTypes DEF Crash
<1>7. TypeOK'
  BY <1>1, <1>2, <1>3, <1>4, <1>5, <1>6 DEF TypeOK
<1>8. WorkerShape' /\ InOrder' /\ ~Alive'
  BY <1>2 DEF WorkerShape, InOrder, Alive
<1>9. NamesLog'
  BY <1>1, <1>2 DEF NamesLog, InLog
<1>10. ASSUME NEW p \in Partitions
       PROVE  EpochAhead(p)' /\ BatchInv(p)' /\ AppliedInv(p)' /\ CoveredInv(p)'
  <2>1. EpochAhead(p)' /\ BatchInv(p)' /\ AppliedInv(p)'
    BY <1>1, <1>3, <1>4, <1>8 DEF EpochAhead, BatchInv, AppliedInv, Increasing, Below
  <2>2. \A i : Covered(p, i)' <=> Covered(p, i)
    BY <1>1 DEF Covered, Settled, Applied, Overtaken
  <2>3. CoveredInv(p)'
    BY <1>1, <1>3, <1>8, <2>2 DEF CoveredInv
  <2> QED
    BY <2>1, <2>3
<1> QED
  BY <1>5, <1>7, <1>8, <1>9, <1>10

(* The worker dies with its mailbox and its open transaction. *)
LEMMA WorkerDiesStep ==
  ASSUME ProjectionInv, HandleFails \/ FlushDies
  PROVE  ProjectionInv'
PROOF
<1> USE EmptyTypes, PartitionTypes DEF ProjectionInv
<1>1. /\ UNCHANGED <<log, checkpoint, applied, letters, dropped, coordinator, epoch, supervisor>>
      /\ worker' = [Vacant EXCEPT !.state = "dead"]
      /\ Alive
  BY DEF HandleFails, FlushDies, WorkerDies, tables, Head1, Alive
<1>2. /\ worker' \in Workers /\ worker'.state = "dead" /\ worker'.mailbox = << >>
      /\ worker'.batch = NoBatch /\ worker'.dead = NoLetters
  <2>1. worker' = [state |-> "dead", mailbox |-> << >>, batch |-> NoBatch,
                   dead |-> NoLetters, handled |-> Nowhere, flushed |-> Nowhere]
    BY <1>1 DEF Vacant
  <2> QED
    BY <2>1, WorkerMade
<1>3. faults' \in 0..MaxFaults
  BY FaultTypes DEF HandleFails, FlushDies
<1>4. TypeOK' /\ SupervisorInv'
  BY <1>1, <1>2, <1>3 DEF TypeOK, SupervisorInv
<1>5. WorkerShape' /\ InOrder' /\ ~Alive'
  BY <1>2 DEF WorkerShape, InOrder, Alive
<1>6. NamesLog'
  BY <1>1, <1>2 DEF NamesLog, InLog
<1>7. ASSUME NEW p \in Partitions
      PROVE  EpochAhead(p)' /\ BatchInv(p)' /\ AppliedInv(p)' /\ CoveredInv(p)'
  <2>1. EpochAhead(p)' /\ BatchInv(p)' /\ AppliedInv(p)'
    BY <1>1, <1>2, <1>5 DEF EpochAhead, BatchInv, AppliedInv, Increasing, Below, Alive
  <2>2. \A i : Covered(p, i)' <=> Covered(p, i)
    BY <1>1 DEF Covered, Settled, Applied, Overtaken
  <2>3. CoveredInv(p)'
    BY <1>1, <1>5, <2>2 DEF CoveredInv
  <2> QED
    BY <2>1, <2>3
<1> QED
  BY <1>4, <1>5, <1>6, <1>7

-----------------------------------------------------------------------------
(* The coordinator *)

LEMMA MailAppended ==
  ASSUME TypeOK, NEW x \in Messages, worker'.mailbox = Append(worker.mailbox, x)
  PROVE  /\ worker'.mailbox \in Seq(Messages)
         /\ Len(worker'.mailbox) = Len(worker.mailbox) + 1
         /\ \A m \in 1..Len(worker.mailbox) : Mail(m)' = Mail(m)
         /\ worker'.mailbox[Len(worker.mailbox) + 1] = x
         /\ \A p, i : \A n \in 1..Len(worker.mailbox) + 1 : Mailed(p, i, n) => Mailed(p, i, n)'
PROOF
<1>1. worker.mailbox \in Seq(Messages)
  BY FieldTypes
<1>2. /\ worker'.mailbox \in Seq(Messages)
      /\ Len(worker.mailbox) \in Nat
      /\ Len(worker'.mailbox) = Len(worker.mailbox) + 1
      /\ \A m \in 1..Len(worker.mailbox) : worker'.mailbox[m] = worker.mailbox[m]
      /\ worker'.mailbox[Len(worker.mailbox) + 1] = x
  BY <1>1
<1>3. \A m \in 1..Len(worker.mailbox) : Mail(m)' = Mail(m)
  BY <1>2 DEF Mail
<1>4. ASSUME NEW p, NEW i, NEW n \in 1..Len(worker.mailbox) + 1, Mailed(p, i, n)
      PROVE  Mailed(p, i, n)'
  <2>1. PICK m \in 1..Len(worker.mailbox) :
          m < n /\ Mail(m) = [type |-> "event", partition |-> p, sequence |-> i]
    BY <1>4 DEF Mailed
  <2>2. m \in 1..Len(worker'.mailbox) /\ Mail(m)' = Mail(m)
    BY <1>2, <1>3
  <2> QED
    BY <2>1, <2>2 DEF Mailed
<1> QED
  BY <1>2, <1>3, <1>4

(* A message is put behind what the worker already has to handle. *)
LEMMA AppendedNames ==
  ASSUME ProjectionInv, NEW x \in Messages, worker'.mailbox = Append(worker.mailbox, x),
         InLog(x.partition, x.sequence), UNCHANGED log,
         x.type = "sync" => log[x.partition][x.sequence] = "undecodable",
         \A p \in Partitions : \A j \in letters'[p] : InLog(p, j)
  PROVE  NamesLog'
PROOF
<1>1. /\ Len(worker.mailbox) \in Nat
      /\ Len(worker'.mailbox) = Len(worker.mailbox) + 1
      /\ \A m \in 1..Len(worker.mailbox) : Mail(m)' = Mail(m)
      /\ worker'.mailbox[Len(worker.mailbox) + 1] = x
  BY MailAppended, MailTypes DEF ProjectionInv
<1>2. \A q, i : InLog(q, i)' <=> InLog(q, i)
  BY DEF InLog
<1>3. ASSUME NEW m \in 1..Len(worker'.mailbox)
      PROVE  /\ InLog(Mail(m).partition, Mail(m).sequence)'
             /\ Mail(m)'.type = "sync" =>
                  log'[Mail(m)'.partition][Mail(m)'.sequence] = "undecodable"
  <2>1. CASE m = Len(worker'.mailbox)
    <3>1. Mail(m)' = x
      BY <1>1, <2>1 DEF Mail
    <3> QED
      BY <1>2, <3>1
  <2>2. CASE m # Len(worker'.mailbox)
    <3>1. m \in 1..Len(worker.mailbox) /\ Mail(m)' = Mail(m)
      BY <1>1, <1>3, <2>2
    <3> QED
      BY <1>2, <3>1 DEF ProjectionInv, NamesLog
  <2> QED
    BY <2>1, <2>2
<1> QED
  BY <1>2, <1>3 DEF NamesLog
(* The messages of a worker that is alive, with one more behind them. *)
LEMMA AppendedInOrder ==
  ASSUME ProjectionInv, CoverageGrows, NEW x \in Messages,
         worker'.mailbox = Append(worker.mailbox, x),
         Alive => worker'.handled = worker.handled,
         NEW n \in Nat, n = Len(worker.mailbox) + 1,
         x.type = "event" => \A i \in 1..x.sequence - 1 : Accounted(x.partition, i, n)',
         epoch'.open => \A p \in Partitions : \A i \in 1..epoch'.next[p] - 1 :
                          Accounted(p, i, n + 1)'
  PROVE  InOrder'
PROOF
<1>1. /\ Len(worker.mailbox) \in Nat
      /\ Len(worker'.mailbox) = n
      /\ \A m \in 1..Len(worker.mailbox) : Mail(m)' = Mail(m)
      /\ worker'.mailbox[n] = x
      /\ \A p, i : \A l \in 1..n : Mailed(p, i, l) => Mailed(p, i, l)'
  BY MailAppended, MailTypes DEF ProjectionInv
<1>2. ASSUME NEW m \in 1..Len(worker'.mailbox), Mail(m)'.type = "event",
             NEW i \in 1..Mail(m)'.sequence - 1
      PROVE  Accounted(Mail(m).partition, i, m)'
  <2>1. CASE m = n
    <3>1. Mail(m)' = x
      BY <1>1, <2>1 DEF Mail
    <3> QED
      BY <1>2, <2>1, <3>1 DEF Accounted
  <2>2. CASE m # n
    <3>1. m \in 1..Len(worker.mailbox) /\ Mail(m)' = Mail(m) /\ Alive
      <4>1. Len(worker.mailbox) > 0
        BY <1>1, <1>2, <2>2
      <4> QED
        BY <1>1, <1>2, <2>2, <4>1 DEF ProjectionInv, WorkerShape
    <3>2. /\ Accounted(Mail(m).partition, i, m)
          /\ Mail(m).partition \in Partitions /\ i \in Nat /\ m \in 1..n
      BY <1>1, <1>2, <3>1, MailTypes DEF ProjectionInv, InOrder
    <3>3. ASSUME NEW q \in Partitions, Accounted(q, i, m) PROVE Accounted(q, i, m)'
      BY <1>1, <3>1, <3>2, <3>3 DEF Accounted, CoverageGrows
    <3>4. ASSUME NEW q \in Partitions, q = Mail(m)'.partition, Accounted(q, i, m)'
          PROVE  Accounted(Mail(m).partition, i, m)'
      BY <3>4
    <3> QED
      BY <3>1, <3>2, <3>3, <3>4
  <2> QED
    BY <2>1, <2>2
<1>3. ASSUME epoch'.open, NEW p \in Partitions, NEW i \in 1..epoch'.next[p] - 1
      PROVE  Accounted(p, i, Len(worker.mailbox) + 1)'
  BY <1>1, <1>3 DEF Accounted
<1> QED
  BY <1>2, <1>3 DEF InOrder

(* A message behind those of the mailbox is ahead of every later position. *)
LEMMA MailedAtEnd ==
  ASSUME NEW n \in Nat \ {0}, n = Len(worker'.mailbox), NEW q, NEW i,
         worker'.mailbox[n] = [type |-> "event", partition |-> q, sequence |-> i]
  PROVE  Mailed(q, i, n + 1)'
PROOF
<1>1. n \in 1..Len(worker'.mailbox) /\ n < n + 1
  OBVIOUS
<1> QED
  BY <1>1 DEF Mailed, Mail

LEMMA MailedLater ==
  ASSUME NEW n \in Nat, n = Len(worker'.mailbox), NEW q, NEW i, Mailed(q, i, n)'
  PROVE  Mailed(q, i, n + 1)'
PROOF
<1>1. \A m \in 1..n : m < n => m < n + 1
  OBVIOUS
<1> QED
  BY <1>1 DEF Mailed

LEMMA EpochAdvances ==
  ASSUME TypeOK, NEW p \in Partitions, NEW s \in Nat,
         epoch' = [epoch EXCEPT !.next[p] = s]
  PROVE  /\ epoch' \in Epochs /\ epoch'.open = epoch.open /\ epoch'.next[p] = s
         /\ \A q \in Partitions \ {p} : epoch'.next[q] = epoch.next[q]
PROOF
<1>1. epoch \in Epochs /\ epoch.next \in [Partitions -> Nat]
  BY FieldTypes DEF TypeOK
<1>2. epoch'.open = epoch.open /\ epoch'.next = [epoch.next EXCEPT ![p] = s]
  BY <1>1, Zenon DEF Epochs
<1>3. epoch'.next \in [Partitions -> Nat]
  BY <1>1, <1>2
<1>4. epoch' = [open |-> epoch'.open, next |-> epoch'.next]
  BY <1>1 DEF Epochs
<1> QED
  BY <1>1, <1>2, <1>3, <1>4 DEF Epochs, Sequences

(* The subscription hands its next event to the worker. *)
LEMMA DeliverStep ==
  ASSUME ProjectionInv, NEW p \in Partitions, Deliver(p), worker.state # "dead"
  PROVE  ProjectionInv'
PROOF
<1> SUFFICES ASSUME NEW s, s = epoch.next[p], NEW n, n = Len(worker.mailbox) + 1,
                    NEW x, x = [type |-> "event", partition |-> p, sequence |-> s]
             PROVE  ProjectionInv'
  OBVIOUS
<1>1. /\ UNCHANGED <<log, checkpoint, applied, letters, coordinator, supervisor, dropped, faults>>
      /\ epoch' = [epoch EXCEPT !.next[p] = s + 1]
      /\ epoch.open /\ s \in Nat /\ s <= Len(log[p])
  BY PartitionTypes DEF Deliver, Pending, tables, ProjectionInv
<1>2. /\ epoch' \in Epochs /\ epoch'.open /\ epoch'.next[p] = s + 1
      /\ \A q \in Partitions \ {p} : epoch'.next[q] = epoch.next[q]
  <2>1. s + 1 \in Nat
    BY <1>1
  <2> QED
    BY <1>1, <2>1, EpochAdvances DEF ProjectionInv
<1>3. x \in Messages /\ x.type = "event" /\ x.partition = p /\ x.sequence = s
  BY <1>1 DEF Messages
<1>4. /\ worker' \in Workers /\ worker'.state = "alive"
      /\ worker'.mailbox = Append(worker.mailbox, x)
      /\ worker'.batch = worker.batch /\ worker'.dead = worker.dead
      /\ Alive => worker'.handled = worker.handled /\ worker'.flushed = worker.flushed
      /\ ~Alive => /\ worker.state = "vacant"
                   /\ worker'.handled = coordinator.flushed
                   /\ worker'.flushed = coordinator.flushed
                   /\ worker.batch = NoBatch
  <2>1. CASE Alive
    <3>1. worker' = [worker EXCEPT !.mailbox = Append(worker.mailbox, x)]
      BY <2>1 DEF Deliver, Spawned, Alive
    <3>2. worker \in Workers /\ Append(worker.mailbox, x) \in Seq(Messages)
      BY <1>3, FieldTypes DEF ProjectionInv, TypeOK
    <3> QED
      BY <2>1, <3>1, <3>2 DEF Workers, Alive
  <2>2. CASE ~Alive
    <3>1. /\ worker.state = "vacant" /\ worker.mailbox = << >>
          /\ worker.batch = NoBatch /\ worker.dead = NoLetters
      BY <2>2, FieldTypes DEF Alive, WorkerShape, ProjectionInv
    <3>2. worker' = [state |-> "alive", mailbox |-> Append(worker.mailbox, x),
                     batch |-> NoBatch, dead |-> NoLetters,
                     handled |-> coordinator.flushed, flushed |-> coordinator.flushed]
      BY <3>1 DEF Deliver, Spawned, Vacant
    <3>3. Append(worker.mailbox, x) \in Seq(Messages)
      BY <1>3, FieldTypes DEF ProjectionInv
    <3> QED
      BY <2>2, <3>1, <3>2, <3>3, WorkerMade, EmptyTypes, FieldTypes DEF ProjectionInv
  <2> QED
    BY <2>1, <2>2
<1>5. LogGrows /\ CoverageGrows
  BY <1>1, UnchangedLogGrows, UnchangedEffectsGrow, CoverageKept DEF ProjectionInv
<1>6. TypeOK' /\ SupervisorInv' /\ WorkerShape'
  BY <1>1, <1>2, <1>4 DEF ProjectionInv, TypeOK, SupervisorInv, WorkerShape, Alive
<1>7. InLog(p, s)
  <2>1. coordinator.flushed[p] < s
    BY <1>1 DEF ProjectionInv, EpochAhead
  <2> QED
    BY <1>1, <2>1, PartitionTypes DEF ProjectionInv, InLog
<1>8. NamesLog'
  BY <1>1, <1>3, <1>4, <1>7, AppendedNames DEF ProjectionInv, NamesLog
<1>9. /\ n \in Nat /\ n \in 1..n /\ Len(worker.mailbox) \in Nat /\ Len(worker'.mailbox) = n
      /\ worker'.mailbox[n] = x
      /\ \A q, i : \A l \in 1..n : Mailed(q, i, l) => Mailed(q, i, l)'
  <2>1. Len(worker.mailbox) \in Nat
    BY MailTypes
  <2>2. /\ Len(worker'.mailbox) = Len(worker.mailbox) + 1
        /\ worker'.mailbox[Len(worker.mailbox) + 1] = x
        /\ \A q, i : \A l \in 1..Len(worker.mailbox) + 1 : Mailed(q, i, l) => Mailed(q, i, l)'
    BY <1>3, <1>4, MailAppended DEF ProjectionInv
  <2> QED
    BY <2>1, <2>2
<1>10. ASSUME NEW q \in Partitions, NEW i \in 1..epoch.next[q] - 1
       PROVE  Accounted(q, i, n)'
  <2>1. CASE Alive
    <3>1. Accounted(q, i, n) /\ i \in Nat
      BY <1>1, <1>10, <2>1, PartitionTypes DEF ProjectionInv, InOrder
    <3> QED
      BY <1>4, <1>5, <1>9, <2>1, <3>1 DEF Accounted, CoverageGrows
  <2>2. CASE ~Alive
    <3>1. i <= coordinator.flushed[q]
      BY <1>1, <1>4, <1>10, <2>2, PartitionTypes DEF ProjectionInv, EpochAhead
    <3> QED
      BY <1>4, <2>2, <3>1 DEF Accounted
  <2> QED
    BY <2>1, <2>2
<1>11. ASSUME NEW q \in Partitions, NEW i \in 1..epoch'.next[q] - 1
       PROVE  Accounted(q, i, n + 1)'
  <2>1. CASE q = p /\ i = s
    <3>1. n \in Nat \ {0} /\ x = [type |-> "event", partition |-> q, sequence |-> i]
      BY <1>9, <2>1
    <3>2. Mailed(q, i, n + 1)'
      BY <1>9, <3>1, MailedAtEnd
    <3> QED
      BY <3>2 DEF Accounted
  <2>2. CASE ~(q = p /\ i = s)
    <3>1. i \in 1..epoch.next[q] - 1
      BY <1>1, <1>2, <1>11, <2>2
    <3>2. Accounted(q, i, n)'
      BY <1>10, <3>1
    <3> QED
      BY <1>9, <3>2, MailedLater DEF Accounted
  <2> QED
    BY <2>1, <2>2
<1>12. InOrder'
  BY <1>3, <1>4, <1>5, <1>9, <1>10, <1>11, AppendedInOrder
<1>13. ASSUME NEW q \in Partitions
       PROVE  EpochAhead(q)' /\ BatchInv(q)' /\ AppliedInv(q)' /\ CoveredInv(q)'
  <2>1. EpochAhead(q)'
    <3>1. coordinator.flushed[q] < epoch.next[q]
      BY <1>1 DEF ProjectionInv, EpochAhead
    <3>2. epoch.next[q] <= epoch'.next[q]
      BY <1>1, <1>2, PartitionTypes DEF ProjectionInv
    <3> QED
      <4>1. /\ coordinator.flushed[q] \in Nat /\ epoch.next[q] \in Nat /\ epoch'.next[q] \in Nat
            /\ coordinator'.flushed[q] = coordinator.flushed[q]
        BY <1>1, <1>2, PartitionTypes DEF ProjectionInv
      <4>2. coordinator'.flushed[q] < epoch'.next[q]
        BY <3>1, <3>2, <4>1
      <4> QED
        BY <1>4, <4>2 DEF EpochAhead
  <2>2. CASE Alive
    <3>1. BatchInv(q)' /\ CoveredInv(q)'
      BY <1>1, <1>4, <1>5, <2>2, BatchKept, CoveredKept DEF Alive
    <3>2. AppliedInv(q)'
      BY <1>1, <1>4, <2>2 DEF ProjectionInv, AppliedInv, Alive, Increasing, Below
    <3> QED
      BY <2>1, <3>1, <3>2
  <2>3. CASE ~Alive
    <3>1. worker'.batch[q] = << >> /\ Len(worker'.batch[q]) = 0
      BY <1>4, <2>3, EmptyTypes
    <3>2. worker'.handled[q] = coordinator.flushed[q] /\ worker'.flushed[q] = coordinator.flushed[q]
      BY <1>4, <2>3
    <3>3. BatchInv(q)'
      BY <3>1, <3>2, PartitionTypes DEF ProjectionInv, BatchInv, Increasing, Below, Before
    <3>4. AppliedInv(q)'
      BY <1>1, <1>4, <2>3, <3>2 DEF ProjectionInv, AppliedInv, Increasing, Below
    <3>5. \A i : Covered(q, i)' <=> Covered(q, i)
      BY <1>1 DEF Covered, Settled, Applied, Overtaken
    <3>6. CoveredInv(q)'
      BY <1>1, <3>2, <3>5 DEF ProjectionInv, CoveredInv
    <3> QED
      BY <2>1, <3>3, <3>4, <3>6
  <2> QED
    BY <2>2, <2>3
<1> QED
  BY <1>6, <1>8, <1>12, <1>13 DEF ProjectionInv

(* An event for a worker that has just died is lost; its checkpoint stays. *)
LEMMA DeliverLostStep ==
  ASSUME ProjectionInv, NEW p \in Partitions, Deliver(p), worker.state = "dead"
  PROVE  ProjectionInv'
PROOF
<1>1. /\ UNCHANGED <<log, checkpoint, applied, letters, coordinator, supervisor, dropped,
                     faults, worker>>
      /\ epoch' = [epoch EXCEPT !.next[p] = epoch.next[p] + 1]
      /\ epoch.open
  BY DEF Deliver, Pending, tables, Spawned
<1>2. epoch.next[p] \in Nat /\ epoch.next[p] + 1 \in Nat
  BY PartitionTypes DEF ProjectionInv
<1>3. /\ epoch' \in Epochs /\ epoch'.open = epoch.open /\ epoch'.next[p] = epoch.next[p] + 1
      /\ \A q \in Partitions \ {p} : epoch'.next[q] = epoch.next[q]
  BY <1>1, <1>2, EpochAdvances DEF ProjectionInv
<1>4. TypeOK' /\ SupervisorInv' /\ WorkerShape' /\ ~Alive /\ InOrder'
  BY <1>1, <1>3 DEF ProjectionInv, TypeOK, SupervisorInv, WorkerShape, Alive, InOrder
<1>5. LogGrows /\ CoverageGrows
  BY <1>1, UnchangedLogGrows, UnchangedEffectsGrow, CoverageKept DEF ProjectionInv
<1>6. NamesLog'
  BY <1>1, <1>5, NamesLogKept, PartitionTypes DEF ProjectionInv
<1>7. ASSUME NEW q \in Partitions
      PROVE  EpochAhead(q)' /\ BatchInv(q)' /\ AppliedInv(q)' /\ CoveredInv(q)'
  <2>1. BatchInv(q)' /\ CoveredInv(q)'
    BY <1>1, <1>5, BatchKept, CoveredKept, PartitionTypes DEF ProjectionInv
  <2>2. AppliedInv(q)'
    BY <1>1 DEF ProjectionInv, AppliedInv, Alive, Increasing, Below
  <2>3. coordinator.flushed[q] < epoch.next[q] /\ coordinator.flushed[q] \in Nat
          /\ epoch.next[q] \in Nat
    BY <1>1, PartitionTypes DEF ProjectionInv, EpochAhead
  <2>4. EpochAhead(q)'
    BY <1>1, <1>2, <1>3, <2>3 DEF EpochAhead
  <2> QED
    BY <2>1, <2>2, <2>4
<1> QED
  BY <1>4, <1>6, <1>7 DEF ProjectionInv

(* What the coordinator writes for an undecodable event covers everything  *)
(* up to it: the event has a letter, and it overtakes the others.          *)
LEMMA UndecodableCovers ==
  ASSUME ProjectionInv, NEW p \in Partitions, DeadLetterUndecodable(p)
  PROVE  /\ \A i \in 1..epoch.next[p] : Covered(p, i)'
         /\ CoverageGrows /\ LogGrows
         /\ InLog(p, epoch.next[p]) /\ epoch.next[p] \in Nat
         /\ \A q \in Partitions : \A j \in letters'[q] : InLog(q, j)
         /\ letters' \in [Partitions -> SUBSET Nat]
PROOF
<1> SUFFICES ASSUME NEW s, s = epoch.next[p]
             PROVE  /\ \A i \in 1..s : Covered(p, i)'
                    /\ CoverageGrows /\ LogGrows /\ InLog(p, s) /\ s \in Nat
                    /\ \A q \in Partitions : \A j \in letters'[q] : InLog(q, j)
                    /\ letters' \in [Partitions -> SUBSET Nat]
  OBVIOUS
<1>1. /\ UNCHANGED <<log, applied, dropped>>
      /\ letters' = [letters EXCEPT ![p] = letters[p] \cup {s}]
      /\ epoch.open /\ s <= Len(log[p]) /\ log[p][s] = "undecodable"
  BY DEF DeadLetterUndecodable, Pending
<1>2. /\ s \in Nat /\ coordinator.flushed[p] \in Nat /\ coordinator.flushed[p] < s
      /\ letters \in [Partitions -> SUBSET Nat]
  BY <1>1, PartitionTypes DEF ProjectionInv, EpochAhead, TypeOK
<1>3. InLog(p, s)
  BY <1>1, <1>2, PartitionTypes DEF ProjectionInv, InLog
<1>4. /\ letters' \in [Partitions -> SUBSET Nat]
      /\ letters'[p] = letters[p] \cup {s}
      /\ \A q \in Partitions \ {p} : letters'[q] = letters[q]
  BY <1>1, <1>2
<1>5. EffectsGrow
  BY <1>1, <1>4 DEF EffectsGrow, Applied
<1>6. LogGrows /\ CoverageGrows
  BY <1>1, <1>5, UnchangedLogGrows, CoverageKept DEF ProjectionInv
<1>7. ASSUME NEW i \in 1..s PROVE Covered(p, i)'
  <2>1. CASE i = s
    BY <1>4, <2>1 DEF Covered, Settled
  <2>2. CASE i < s
    BY <1>1, <1>4, <2>2 DEF Covered, Overtaken
  <2> QED
    BY <1>2, <2>1, <2>2
<1>8. \A q \in Partitions : \A j \in letters'[q] : InLog(q, j)
  BY <1>3, <1>4 DEF ProjectionInv, NamesLog
<1> QED
  BY <1>2, <1>3, <1>4, <1>6, <1>7, <1>8

LEMMA DeadLetterStep ==
  ASSUME ProjectionInv, NEW p \in Partitions, DeadLetterUndecodable(p)
  PROVE  ProjectionInv'
PROOF
<1> SUFFICES ASSUME NEW s, s = epoch.next[p] PROVE ProjectionInv'
  OBVIOUS
<1>1. /\ UNCHANGED <<log, applied, supervisor, dropped, faults>>
      /\ checkpoint' = [checkpoint EXCEPT ![p] = Larger(checkpoint[p], s)]
      /\ coordinator' = [coordinator EXCEPT !.flushed[p] = s]
      /\ epoch' = [epoch EXCEPT !.next[p] = s + 1]
      /\ worker' = IF ~Alive THEN worker
                   ELSE [worker EXCEPT !.mailbox =
                           Append(worker.mailbox,
                                  [type |-> "sync", partition |-> p, sequence |-> s])]
      /\ epoch.open /\ log[p][s] = "undecodable"
  BY DEF DeadLetterUndecodable, Pending, Alive
<1>2. /\ \A i \in 1..s : Covered(p, i)'
      /\ CoverageGrows /\ LogGrows /\ InLog(p, s) /\ s \in Nat
      /\ \A q \in Partitions : \A j \in letters'[q] : InLog(q, j)
      /\ letters' \in [Partitions -> SUBSET Nat]
  BY UndecodableCovers
<1>3. /\ epoch' \in Epochs /\ epoch'.open = epoch.open /\ epoch'.next[p] = s + 1
      /\ \A q \in Partitions \ {p} : epoch'.next[q] = epoch.next[q]
  <2>1. s + 1 \in Nat
    BY <1>2
  <2> QED
    BY <1>1, <2>1, EpochAdvances DEF ProjectionInv
<1>4. /\ coordinator' \in Coordinators /\ coordinator'.flushed[p] = s
      /\ \A q \in Partitions \ {p} : coordinator'.flushed[q] = coordinator.flushed[q]
  <2>1. coordinator \in Coordinators /\ coordinator.flushed \in [Partitions -> Nat]
    BY FieldTypes DEF ProjectionInv, TypeOK
  <2>2. /\ coordinator'.alive = coordinator.alive
        /\ coordinator'.flushed = [coordinator.flushed EXCEPT ![p] = s]
    BY <1>1, <2>1, Zenon DEF Coordinators
  <2>3. coordinator'.flushed \in [Partitions -> Nat]
    BY <1>2, <2>1, <2>2
  <2>4. coordinator' = [alive |-> coordinator'.alive, flushed |-> coordinator'.flushed]
    BY <1>1, <2>1 DEF Coordinators
  <2> QED
    BY <2>1, <2>2, <2>3, <2>4 DEF Coordinators, Sequences
<1>5. /\ checkpoint' \in [Partitions -> Nat]
      /\ checkpoint'[p] \in {checkpoint[p], s} /\ checkpoint[p] <= checkpoint'[p]
      /\ \A q \in Partitions \ {p} : checkpoint'[q] = checkpoint[q]
  BY <1>1, <1>2, FieldTypes DEF ProjectionInv, Larger
<1>6. /\ worker' \in Workers /\ worker'.state = worker.state /\ worker'.batch = worker.batch
      /\ worker'.dead = worker.dead /\ worker'.handled = worker.handled
      /\ worker'.flushed = worker.flushed
      /\ ~Alive => worker' = worker
  <2>1. worker \in Workers /\ worker.mailbox \in Seq(Messages)
    BY FieldTypes DEF ProjectionInv, TypeOK
  <2>2. Append(worker.mailbox, [type |-> "sync", partition |-> p, sequence |-> s]) \in Seq(Messages)
    BY <1>2, <2>1 DEF Messages
  <2> QED
    BY <1>1, <2>1, <2>2 DEF Workers
<1>7. TypeOK'
  BY <1>1, <1>2, <1>3, <1>4, <1>5, <1>6 DEF ProjectionInv, TypeOK, Sequences
<1>8. SupervisorInv' /\ WorkerShape'
  BY <1>1, <1>3, <1>6 DEF ProjectionInv, SupervisorInv, WorkerShape, Alive
<1>9. NamesLog' /\ InOrder'
  <2>1. CASE ~Alive
    <3>1. InOrder' /\ Len(worker'.mailbox) = 0
      BY <1>6, <2>1 DEF InOrder, Alive, ProjectionInv, WorkerShape
    <3> QED
      BY <1>1, <1>2, <3>1 DEF NamesLog, InLog
  <2>2. CASE Alive
    <3> SUFFICES ASSUME NEW x, x = [type |-> "sync", partition |-> p, sequence |-> s]
                 PROVE  NamesLog' /\ InOrder'
      OBVIOUS
    <3>1. x \in Messages /\ x.type = "sync" /\ x.partition = p /\ x.sequence = s
      BY <1>2 DEF Messages
    <3>2. worker'.mailbox = Append(worker.mailbox, x)
      <4>1. worker \in Workers
        BY DEF ProjectionInv, TypeOK
      <4> QED
        BY <1>1, <2>2, <4>1 DEF Workers
    <3>3. NamesLog'
      BY <1>1, <1>2, <3>1, <3>2, AppendedNames
    <3>4. /\ Len(worker.mailbox) \in Nat
          /\ \A q, i : \A l \in 1..Len(worker.mailbox) + 1 : Mailed(q, i, l) => Mailed(q, i, l)'
          /\ Len(worker'.mailbox) = Len(worker.mailbox) + 1
      BY <3>1, <3>2, MailAppended, MailTypes DEF ProjectionInv
    <3>5. ASSUME NEW n \in Nat, n = Len(worker.mailbox) + 1,
                 NEW q \in Partitions, NEW i \in 1..epoch'.next[q] - 1
          PROVE  Accounted(q, i, n + 1)'
      <4>1. CASE q = p
        <5>1. i \in 1..s
          BY <1>2, <1>3, <3>5, <4>1
        <5> QED
          BY <1>2, <4>1, <5>1 DEF Accounted
      <4>2. CASE q # p
        <5>1. i \in 1..epoch.next[q] - 1 /\ i \in Nat
          BY <1>3, <3>5, <4>2, PartitionTypes DEF ProjectionInv
        <5>2. Accounted(q, i, n)
          BY <1>1, <2>2, <3>5, <5>1 DEF ProjectionInv, InOrder
        <5>3. n \in 1..n /\ n = Len(worker'.mailbox)
          BY <3>4, <3>5
        <5>4. Mailed(q, i, n) => Mailed(q, i, n + 1)'
          BY <3>4, <3>5, <5>3, MailedLater
        <5> QED
          BY <1>2, <1>6, <5>1, <5>2, <5>4 DEF Accounted, CoverageGrows
      <4> QED
        BY <4>1, <4>2
    <3>6. InOrder'
      BY <1>2, <1>6, <3>1, <3>2, <3>4, <3>5, AppendedInOrder
    <3> QED
      BY <3>3, <3>6
  <2> QED
    BY <2>1, <2>2
<1>10. ASSUME NEW q \in Partitions
       PROVE  EpochAhead(q)' /\ BatchInv(q)' /\ AppliedInv(q)' /\ CoveredInv(q)'
  <2>1. BatchInv(q)'
    BY <1>1, <1>2, <1>6, BatchKept, PartitionTypes DEF ProjectionInv
  <2>2. EpochAhead(q)'
    <3>1. CASE q = p
      BY <1>2, <1>3, <1>4, <3>1 DEF EpochAhead
    <3>2. CASE q # p
      BY <1>1, <1>3, <1>4, <1>6, <3>2 DEF ProjectionInv, EpochAhead
    <3> QED
      BY <3>1, <3>2
  <2>3. CASE q # p
    <3>1. CoveredInv(q)'
      BY <1>2, <1>4, <1>5, <1>6, <2>3, CoveredKept
    <3>2. AppliedInv(q)'
      BY <1>1, <1>4, <1>5, <1>6, <2>3 DEF ProjectionInv, AppliedInv, Increasing, Below, Alive
    <3> QED
      BY <2>1, <2>2, <3>1, <3>2
  <2>4. CASE q = p
    <3>1. AppliedInv(p) /\ CoveredInv(p) /\ coordinator.flushed[p] < s
      BY <1>1 DEF ProjectionInv, EpochAhead
    <3>2. /\ coordinator.flushed[p] \in Nat /\ checkpoint[p] \in Nat /\ worker.handled[p] \in Nat
          /\ \A k \in 1..Len(applied[p]) : applied[p][k] \in Nat
          /\ checkpoint'[p] \in Nat
      BY <1>5, PartitionTypes DEF ProjectionInv
    <3>3. AppliedInv(p)'
      BY <1>1, <1>2, <1>4, <1>5, <1>6, <3>1, <3>2 DEF AppliedInv, Increasing, Below, Alive
    <3>4. \A i \in 1..checkpoint'[p] : Covered(p, i)'
      <4>1. \A i \in 1..checkpoint[p] : Covered(p, i)'
        BY <1>2, <3>1, <3>2 DEF CoveredInv, CoverageGrows
      <4> QED
        BY <1>2, <1>5, <4>1
    <3>5. \A i \in 1..coordinator'.flushed[p] : Covered(p, i)'
      BY <1>2, <1>4
    <3>6. Alive' => \A i \in 1..worker'.handled[p] : Covered(p, i)' \/ Batched(p, i)'
      BY <1>2, <1>6, <3>1, <3>2 DEF CoveredInv, CoverageGrows, Batched, Alive
    <3>7. CoveredInv(p)'
      BY <3>4, <3>5, <3>6 DEF CoveredInv
    <3> QED
      BY <2>1, <2>2, <2>4, <3>3, <3>7
  <2> QED
    BY <2>3, <2>4
<1> QED
  BY <1>7, <1>8, <1>9, <1>10 DEF ProjectionInv
-----------------------------------------------------------------------------
(* The worker *)

LEMMA HeadTypes ==
  ASSUME ProjectionInv, worker.mailbox # << >>
  PROVE  /\ Head(worker.mailbox) = Mail(1)
         /\ Len(worker.mailbox) \in Nat /\ 1 \in 1..Len(worker.mailbox)
         /\ Part \in Partitions /\ Pos \in Nat /\ InLog(Part, Pos)
         /\ Tail(worker.mailbox) \in Seq(Messages)
         /\ Len(Tail(worker.mailbox)) = Len(worker.mailbox) - 1
         /\ \A m \in 1..Len(worker.mailbox) - 1 : Tail(worker.mailbox)[m] = Mail(m + 1)
PROOF
<1>1. worker.mailbox \in Seq(Messages)
  BY FieldTypes DEF ProjectionInv
<1>2. /\ Head(worker.mailbox) = worker.mailbox[1]
      /\ Len(worker.mailbox) \in Nat /\ 1 \in 1..Len(worker.mailbox)
      /\ Tail(worker.mailbox) \in Seq(Messages)
      /\ Len(Tail(worker.mailbox)) = Len(worker.mailbox) - 1
      /\ \A m \in 1..Len(worker.mailbox) - 1 : Tail(worker.mailbox)[m] = worker.mailbox[m + 1]
  BY <1>1
<1>3. /\ Mail(1).partition \in Partitions /\ Mail(1).sequence \in Nat
      /\ InLog(Mail(1).partition, Mail(1).sequence)
  BY <1>2, MailTypes DEF ProjectionInv, NamesLog
<1> QED
  BY <1>2, <1>3 DEF Mail, Part, Pos

LEMMA PoppedNames ==
  ASSUME ProjectionInv, worker.mailbox # << >>, worker'.mailbox = Tail(worker.mailbox),
         UNCHANGED log, \A p \in Partitions : \A j \in letters'[p] : InLog(p, j)
  PROVE  NamesLog'
PROOF
<1>1. /\ Len(worker.mailbox) \in Nat /\ Len(worker'.mailbox) = Len(worker.mailbox) - 1
      /\ \A m \in 1..Len(worker.mailbox) - 1 : worker'.mailbox[m] = Mail(m + 1)
  BY HeadTypes
<1>2. \A q, i : InLog(q, i)' <=> InLog(q, i)
  BY DEF InLog
<1>3. ASSUME NEW m \in 1..Len(worker'.mailbox)
      PROVE  /\ InLog(Mail(m).partition, Mail(m).sequence)'
             /\ Mail(m)'.type = "sync" =>
                  log'[Mail(m)'.partition][Mail(m)'.sequence] = "undecodable"
  <2>1. m + 1 \in 1..Len(worker.mailbox) /\ Mail(m)' = Mail(m + 1)
    BY <1>1, <1>3 DEF Mail
  <2> QED
    BY <1>2, <2>1 DEF ProjectionInv, NamesLog
<1> QED
  BY <1>2, <1>3 DEF NamesLog

(* The message that is taken is accounted for by what the worker handled. *)
LEMMA PoppedInOrder ==
  ASSUME ProjectionInv, CoverageGrows, Alive, worker.mailbox # << >>,
         worker'.mailbox = Tail(worker.mailbox), UNCHANGED epoch,
         \A p \in Partitions : /\ worker'.handled[p] \in Nat
                               /\ worker.handled[p] <= worker'.handled[p],
         Mail(1).type = "event" => Pos <= worker'.handled[Part]
  PROVE  InOrder'
PROOF
<1>1. /\ Len(worker.mailbox) \in Nat /\ Len(worker'.mailbox) = Len(worker.mailbox) - 1
      /\ \A m \in 1..Len(worker.mailbox) - 1 : worker'.mailbox[m] = Mail(m + 1)
      /\ Mail(1).partition = Part /\ Mail(1).sequence = Pos
  BY HeadTypes DEF Part, Pos
<1>2. ASSUME NEW q \in Partitions, NEW i \in Nat, NEW n \in Nat, Accounted(q, i, n + 1)
      PROVE  Accounted(q, i, n)'
  <2>1. CASE i <= worker.handled[q]
    <3>1. worker.handled[q] \in Nat /\ worker'.handled[q] \in Nat
          /\ worker.handled[q] <= worker'.handled[q]
      BY PartitionTypes DEF ProjectionInv
    <3> QED
      BY <2>1, <3>1 DEF Accounted
  <2>2. CASE Covered(q, i)
    BY <2>2 DEF Accounted, CoverageGrows
  <2>3. CASE Mailed(q, i, n + 1)
    <3>1. PICK m \in 1..Len(worker.mailbox) :
            m < n + 1 /\ Mail(m) = [type |-> "event", partition |-> q, sequence |-> i]
      BY <2>3 DEF Mailed
    <3>2. CASE m = 1
      <4>1. Mail(1).type = "event" /\ Part = q /\ Pos = i
        BY <1>1, <3>1, <3>2
      <4> QED
        BY <4>1 DEF Accounted
    <3>3. CASE m # 1
      <4>1. PICK l \in 1..Len(worker'.mailbox) : m = l + 1 /\ l < n
        <5>1. m - 1 \in 1..Len(worker'.mailbox) /\ m = (m - 1) + 1 /\ m - 1 < n
          BY <1>1, <3>1, <3>3
        <5> QED
          BY <5>1
      <4>2. Mail(l)' = Mail(m)
        BY <1>1, <4>1 DEF Mail
      <4>3. Mailed(q, i, n)'
        BY <3>1, <4>1, <4>2 DEF Mailed
      <4> QED
        BY <4>3 DEF Accounted
    <3> QED
      BY <3>2, <3>3
  <2> QED
    BY <1>2, <2>1, <2>2, <2>3 DEF Accounted
<1>3. ASSUME NEW m \in 1..Len(worker'.mailbox), Mail(m)'.type = "event",
             NEW i \in 1..Mail(m)'.sequence - 1
      PROVE  Accounted(Mail(m).partition, i, m)'
  <2>1. /\ m \in Nat /\ m + 1 \in 1..Len(worker.mailbox) /\ Mail(m)' = Mail(m + 1)
    BY <1>1, <1>3 DEF Mail
  <2>2. Mail(m + 1).partition \in Partitions /\ Mail(m + 1).sequence \in Nat
    BY <2>1, MailTypes DEF ProjectionInv
  <2>3. Accounted(Mail(m + 1).partition, i, m + 1) /\ i \in Nat
    BY <1>3, <2>1, <2>2 DEF ProjectionInv, InOrder
  <2>4. ASSUME NEW q \in Partitions, q = Mail(m)'.partition, Accounted(q, i, m)'
        PROVE  Accounted(Mail(m).partition, i, m)'
    BY <2>4
  <2> QED
    BY <1>2, <2>1, <2>2, <2>3, <2>4
<1>4. ASSUME epoch'.open, NEW p \in Partitions, NEW i \in 1..epoch'.next[p] - 1
      PROVE  Accounted(p, i, Len(worker.mailbox) + 1)'
  <2>1. Accounted(p, i, Len(worker.mailbox) + 1) /\ i \in Nat
    BY <1>4, PartitionTypes DEF ProjectionInv, InOrder
  <2>2. ASSUME NEW n \in Nat, n = Len(worker.mailbox)
        PROVE  Accounted(p, i, Len(worker.mailbox) + 1)'
    <3>1. Accounted(p, i, n)'
      BY <1>2, <2>1, <2>2
    <3>2. n = Len(worker'.mailbox) + 1
      BY <1>1, <2>2
    <3> QED
      BY <3>1, <3>2
  <2> QED
    BY <1>1, <2>2
<1> QED
  BY <1>3, <1>4 DEF InOrder

(* What a step of a living worker leaves to show. *)
LEMMA WorkerStep ==
  ASSUME ProjectionInv, Alive, UNCHANGED <<log, coordinator, epoch, supervisor>>,
         faults' \in 0..MaxFaults, worker' \in Workers, worker'.state = "alive",
         worker'.dead = NoLetters,
         checkpoint' \in Sequences, applied' \in [Partitions -> Seq(Nat)],
         letters' \in [Partitions -> SUBSET Nat], dropped' \in [Partitions -> SUBSET Nat],
         NamesLog', InOrder',
         \A p \in Partitions : BatchInv(p)' /\ AppliedInv(p)' /\ CoveredInv(p)'
  PROVE  ProjectionInv'
PROOF
<1>1. TypeOK' /\ SupervisorInv' /\ WorkerShape'
  BY DEF ProjectionInv, TypeOK, SupervisorInv, WorkerShape, Alive
<1>2. \A p \in Partitions : EpochAhead(p)'
  BY DEF ProjectionInv, EpochAhead
<1> QED
  BY <1>1, <1>2 DEF ProjectionInv
LEMMA SkipStep ==
  ASSUME ProjectionInv, SkipHandled
  PROVE  ProjectionInv'
PROOF
<1>1. /\ UNCHANGED <<log, checkpoint, applied, letters, coordinator, epoch, supervisor,
                     dropped, faults>>
      /\ Alive /\ worker.mailbox # << >> /\ Mail(1).type = "event"
      /\ worker' = [worker EXCEPT !.mailbox = Tail(worker.mailbox)]
      /\ Pos <= worker.handled[Part]
  <2>1. worker.mailbox # << >>
    BY DEF SkipHandled, Head1
  <2>2. Part \in Partitions /\ Pos \in Nat /\ Head(worker.mailbox) = Mail(1)
    BY <2>1, HeadTypes
  <2>3. worker.handled[Part] \in Nat
    BY <2>2, PartitionTypes DEF ProjectionInv
  <2> QED
    BY <2>1, <2>2, <2>3 DEF SkipHandled, Head1, Alive, Popped, Seen, tables
<1>2. /\ worker' \in Workers /\ worker'.mailbox = Tail(worker.mailbox)
      /\ worker'.state = worker.state /\ worker'.batch = worker.batch
      /\ worker'.dead = worker.dead
      /\ worker'.handled = worker.handled /\ worker'.flushed = worker.flushed
  <2>1. worker \in Workers /\ Tail(worker.mailbox) \in Seq(Messages)
    BY <1>1, HeadTypes DEF ProjectionInv, TypeOK
  <2> QED
    BY <1>1, <2>1 DEF Workers
<1>3. LogGrows /\ CoverageGrows
  BY <1>1, UnchangedLogGrows, UnchangedEffectsGrow, CoverageKept DEF ProjectionInv
<1>4. NamesLog'
  BY <1>1, <1>2, PoppedNames DEF ProjectionInv, NamesLog
<1>5. InOrder'
  <2>1. \A p \in Partitions : worker'.handled[p] \in Nat /\ worker.handled[p] <= worker'.handled[p]
    BY <1>2, PartitionTypes DEF ProjectionInv
  <2> QED
    BY <1>1, <1>2, <1>3, <2>1, PoppedInOrder
<1>6. ASSUME NEW p \in Partitions
      PROVE  BatchInv(p)' /\ AppliedInv(p)' /\ CoveredInv(p)'
  <2>1. BatchInv(p)' /\ CoveredInv(p)'
    BY <1>1, <1>2, <1>3, BatchKept, CoveredKept, PartitionTypes DEF ProjectionInv
  <2>2. AppliedInv(p)'
    BY <1>1, <1>2 DEF ProjectionInv, AppliedInv, Alive, Increasing, Below
  <2> QED
    BY <2>1, <2>2
<1> QED
  BY <1>1, <1>2, <1>4, <1>5, <1>6, WorkerStep DEF ProjectionInv, TypeOK, WorkerShape, Alive

LEMMA SyncStep ==
  ASSUME ProjectionInv, SyncProcessorCheckpoint
  PROVE  ProjectionInv'
PROOF
<1> SUFFICES ASSUME NEW p, p = Part, NEW s, s = Pos PROVE ProjectionInv'
  OBVIOUS
<1>1. /\ UNCHANGED <<log, checkpoint, applied, letters, coordinator, epoch, supervisor,
                     dropped, faults>>
      /\ Alive /\ worker.mailbox # << >> /\ Head(worker.mailbox).type = "sync"
  BY DEF SyncProcessorCheckpoint, Head1, Alive, tables
<1>2. /\ p \in Partitions /\ s \in Nat /\ InLog(p, s) /\ Mail(1).type = "sync"
      /\ log[p][s] = "undecodable"
  <2>1. /\ p \in Partitions /\ s \in Nat /\ InLog(p, s) /\ Mail(1).type = "sync"
        /\ 1 \in 1..Len(worker.mailbox) /\ Mail(1).partition = p /\ Mail(1).sequence = s
    BY <1>1, HeadTypes DEF Part, Pos
  <2> QED
    BY <2>1 DEF ProjectionInv, NamesLog
<1>3. /\ worker' \in Workers /\ worker'.mailbox = Tail(worker.mailbox)
      /\ worker'.state = worker.state /\ worker'.batch = worker.batch
      /\ worker'.dead = worker.dead /\ worker'.handled = worker.handled
      /\ worker'.flushed = [worker.flushed EXCEPT ![p] = Larger(worker.flushed[p], s)]
  <2>1. /\ worker \in Workers /\ Tail(worker.mailbox) \in Seq(Messages)
        /\ worker.flushed \in [Partitions -> Nat]
    BY <1>1, HeadTypes, FieldTypes DEF ProjectionInv, TypeOK
  <2>2. [worker.flushed EXCEPT ![p] = Larger(worker.flushed[p], s)] \in [Partitions -> Nat]
    BY <1>2, <2>1 DEF Larger
  <2>3. worker' = [[worker EXCEPT !.mailbox = Tail(worker.mailbox)]
                     EXCEPT !.flushed = [worker.flushed EXCEPT ![p] = Larger(worker.flushed[p], s)]]
    BY <2>1 DEF SyncProcessorCheckpoint, Popped, Workers
  <2> QED
    BY <2>1, <2>2, <2>3 DEF Workers, Sequences
<1>4. LogGrows /\ CoverageGrows
  BY <1>1, UnchangedLogGrows, UnchangedEffectsGrow, CoverageKept DEF ProjectionInv
<1>5. NamesLog'
  BY <1>1, <1>3, PoppedNames DEF ProjectionInv, NamesLog
<1>6. InOrder'
  <2>1. \A q \in Partitions : worker'.handled[q] \in Nat /\ worker.handled[q] <= worker'.handled[q]
    BY <1>3, PartitionTypes DEF ProjectionInv
  <2> QED
    BY <1>1, <1>2, <1>3, <1>4, <2>1, PoppedInOrder
<1>7. ASSUME NEW q \in Partitions
      PROVE  BatchInv(q)' /\ AppliedInv(q)' /\ CoveredInv(q)'
  <2>1. CoveredInv(q)'
    BY <1>1, <1>3, <1>4, CoveredKept, PartitionTypes DEF ProjectionInv
  <2>2. AppliedInv(q)'
    BY <1>1, <1>3 DEF ProjectionInv, AppliedInv, Alive, Increasing, Below
  <2>3. BatchInv(q)'
    <3>1. worker.flushed \in [Partitions -> Nat]
      BY FieldTypes DEF ProjectionInv
    <3>2. CASE q # p
      <4>1. worker'.flushed[q] = worker.flushed[q]
        BY <1>3, <3>1, <3>2
      <4> QED
        BY <1>1, <1>3, <1>4, <4>1, BatchKept, PartitionTypes DEF ProjectionInv
    <3>3. CASE q = p
      <4>1. worker'.flushed[p] \in {worker.flushed[p], s}
        BY <1>2, <1>3, <3>1 DEF Larger
      <4>2. BatchInv(p)
        BY <1>2 DEF ProjectionInv
      <4>3. worker.batch[p] # << >> => worker.handled[p] # s
        BY <1>1, <1>2, <4>2 DEF BatchInv
      <4> QED
        BY <1>1, <1>2, <1>3, <3>3, <4>1, <4>2, <4>3 DEF BatchInv, InLog, Alive, Increasing, Below,
           Before
    <3> QED
      BY <3>2, <3>3
  <2> QED
    BY <2>1, <2>2, <2>3
<1> QED
  BY <1>1, <1>3, <1>5, <1>6, <1>7, WorkerStep DEF ProjectionInv, TypeOK, WorkerShape, Alive

(* The next event of p and what is below it, when the worker takes it. *)
LEMMA NextEvent ==
  ASSUME ProjectionInv, Head1("event"), ~Seen
  PROVE  /\ Alive /\ worker.mailbox # << >> /\ Mail(1).type = "event"
         /\ Part \in Partitions /\ Pos \in Nat /\ InLog(Part, Pos)
         /\ worker.handled[Part] < Pos /\ worker.handled[Part] \in Nat
         /\ \A i \in 1..Pos - 1 : Covered(Part, i) \/ Batched(Part, i)
PROOF
<1>1. /\ Alive /\ worker.mailbox # << >> /\ Head(worker.mailbox).type = "event"
  BY DEF Head1, Alive
<1>2. /\ Head(worker.mailbox) = Mail(1) /\ 1 \in 1..Len(worker.mailbox)
      /\ Part \in Partitions /\ Pos \in Nat /\ InLog(Part, Pos)
  BY <1>1, HeadTypes
<1>3. worker.handled[Part] < Pos /\ worker.handled[Part] \in Nat
  BY <1>2, PartitionTypes DEF ProjectionInv, Seen
<1>4. ASSUME NEW i \in 1..Pos - 1 PROVE Covered(Part, i) \/ Batched(Part, i)
  <2>1. Accounted(Part, i, 1)
    BY <1>1, <1>2 DEF ProjectionInv, InOrder, Part, Pos
  <2>2. ~Mailed(Part, i, 1)
    BY DEF Mailed
  <2>3. i <= worker.handled[Part] => Covered(Part, i) \/ Batched(Part, i)
    BY <1>1, <1>2, <1>3, <1>4 DEF ProjectionInv, CoveredInv
  <2> QED
    BY <2>1, <2>2, <2>3 DEF Accounted
<1> QED
  BY <1>1, <1>2, <1>3, <1>4
LEMMA AppendIncreasing ==
  ASSUME NEW b \in Seq(Nat), NEW h \in Nat, NEW x \in Nat, h < x,
         Increasing(b), Below(b, h)
  PROVE  /\ Append(b, x) \in Seq(Nat)
         /\ Increasing(Append(b, x)) /\ Below(Append(b, x), x)
         /\ Len(Append(b, x)) = Len(b) + 1 /\ Len(b) \in Nat
         /\ Append(b, x)[Len(b) + 1] = x
         /\ \A k \in 1..Len(b) : Append(b, x)[k] = b[k]
         /\ \A k \in 1..Len(b) + 1 : k = Len(b) + 1 \/ k \in 1..Len(b)
PROOF
<1>1. /\ Append(b, x) \in Seq(Nat)
      /\ Len(Append(b, x)) = Len(b) + 1 /\ Len(b) \in Nat
      /\ Append(b, x)[Len(b) + 1] = x
      /\ \A k \in 1..Len(b) : Append(b, x)[k] = b[k] /\ b[k] \in Nat
  OBVIOUS
<1>2. \A k \in 1..Len(b) + 1 : k = Len(b) + 1 \/ k \in 1..Len(b)
  BY <1>1
<1>3. Increasing(Append(b, x)) /\ Below(Append(b, x), x)
  BY <1>1, <1>2 DEF Increasing, Below
<1> QED
  BY <1>1, <1>2, <1>3

LEMMA BelowLarger ==
  ASSUME NEW a \in Seq(Nat), NEW m \in Nat, NEW n \in Nat, m <= n, Below(a, m)
  PROVE  Below(a, n)
PROOF
<1>1. \A k \in 1..Len(a) : a[k] \in Nat
  OBVIOUS
<1> QED
  BY <1>1 DEF Below

LEMMA ConcatIncreasing ==
  ASSUME NEW a \in Seq(Nat), NEW b \in Seq(Nat), Increasing(a), Increasing(b),
         Before(a, b)
  PROVE  /\ a \o b \in Seq(Nat) /\ Increasing(a \o b)
         /\ \A n \in Nat : Below(a, n) /\ Below(b, n) => Below(a \o b, n)
         /\ \A x : Holds(a, x) \/ Holds(b, x) => Holds(a \o b, x)
PROOF
<1>1. /\ a \o b \in Seq(Nat) /\ Len(a \o b) = Len(a) + Len(b)
      /\ Len(a) \in Nat /\ Len(b) \in Nat
      /\ \A k \in 1..Len(a) : (a \o b)[k] = a[k] /\ a[k] \in Nat
      /\ \A k \in 1..Len(b) : b[k] \in Nat
  OBVIOUS
<1>2. \A k \in 1..Len(a \o b) : k \in 1..Len(a) \/ (k > Len(a) /\ k - Len(a) \in 1..Len(b))
  BY <1>1
<1>3. \A k \in 1..Len(a \o b) : k > Len(a) => (a \o b)[k] = b[k - Len(a)]
  BY <1>1
<1>4. \A k \in 1..Len(b) : Len(a) + k \in 1..Len(a \o b) /\ (a \o b)[Len(a) + k] = b[k]
  <2> SUFFICES ASSUME NEW k \in 1..Len(b)
               PROVE  Len(a) + k \in 1..Len(a \o b) /\ (a \o b)[Len(a) + k] = b[k]
    OBVIOUS
  <2>1. Len(a) + k \in 1..Len(a \o b) /\ Len(a) + k > Len(a) /\ (Len(a) + k) - Len(a) = k
    BY <1>1
  <2> QED
    BY <1>3, <2>1
<1>5. ASSUME NEW j \in 1..Len(a \o b), NEW k \in 1..Len(a \o b), j < k
      PROVE  (a \o b)[j] < (a \o b)[k]
  <2>1. CASE k \in 1..Len(a)
    BY <1>1, <1>5, <2>1 DEF Increasing
  <2>2. CASE j \in 1..Len(a) /\ k > Len(a)
    BY <1>1, <1>2, <1>3, <2>2 DEF Before
  <2>3. CASE j > Len(a) /\ k > Len(a)
    <3>1. j - Len(a) \in 1..Len(b) /\ k - Len(a) \in 1..Len(b) /\ j - Len(a) < k - Len(a)
      BY <1>1, <1>2, <1>5, <2>3
    <3> QED
      BY <1>3, <2>3, <3>1 DEF Increasing
  <2> QED
    BY <1>1, <1>2, <1>5, <2>1, <2>2, <2>3
<1>6. ASSUME NEW n \in Nat, Below(a, n), Below(b, n)
      PROVE  Below(a \o b, n)
  BY <1>1, <1>2, <1>3, <1>6 DEF Below
<1>7. \A k \in 1..Len(a) : k \in 1..Len(a \o b)
  BY <1>1
<1>8. ASSUME NEW x, NEW k \in 1..Len(a), a[k] = x
      PROVE  \E l \in 1..Len(a \o b) : (a \o b)[l] = x
  BY <1>1, <1>7, <1>8
<1>9. ASSUME NEW x, NEW k \in 1..Len(b), b[k] = x
      PROVE  \E l \in 1..Len(a \o b) : (a \o b)[l] = x
  BY <1>4, <1>9
<1> QED
  BY <1>1, <1>5, <1>6, <1>8, <1>9 DEF Increasing, Holds

(* An event that is handled joins the batch. *)
LEMMA GoodStep ==
  ASSUME ProjectionInv, HandleGood
  PROVE  ProjectionInv'
PROOF
<1> SUFFICES ASSUME NEW p, p = Part, NEW s, s = Pos PROVE ProjectionInv'
  OBVIOUS
<1>1. /\ UNCHANGED <<log, checkpoint, applied, letters, coordinator, epoch, supervisor,
                     dropped, faults>>
      /\ Head1("event") /\ ~Seen /\ log[p][s] = "good"
  BY DEF HandleGood, tables
<1>2. /\ Alive /\ worker.mailbox # << >> /\ Mail(1).type = "event"
      /\ p \in Partitions /\ s \in Nat /\ InLog(p, s)
      /\ worker.handled[p] < s /\ worker.handled[p] \in Nat
      /\ \A i \in 1..s - 1 : Covered(p, i) \/ Batched(p, i)
  BY <1>1, NextEvent
<1>3. /\ worker.batch \in [Partitions -> Seq(Nat)] /\ worker.handled \in [Partitions -> Nat]
      /\ worker.batch[p] \in Seq(Nat) /\ worker.flushed[p] \in Nat
      /\ \A k \in 1..Len(applied[p]) : applied[p][k] \in Nat
  BY <1>2, FieldTypes, PartitionTypes DEF ProjectionInv
<1>4. BatchInv(p) /\ AppliedInv(p) /\ CoveredInv(p)
  BY <1>2 DEF ProjectionInv
<1>5. /\ Append(worker.batch[p], s) \in Seq(Nat)
      /\ Increasing(Append(worker.batch[p], s)) /\ Below(Append(worker.batch[p], s), s)
      /\ Len(Append(worker.batch[p], s)) = Len(worker.batch[p]) + 1
      /\ Len(worker.batch[p]) \in Nat
      /\ Append(worker.batch[p], s)[Len(worker.batch[p]) + 1] = s
      /\ \A k \in 1..Len(worker.batch[p]) : Append(worker.batch[p], s)[k] = worker.batch[p][k]
      /\ \A k \in 1..Len(worker.batch[p]) + 1 :
           k = Len(worker.batch[p]) + 1 \/ k \in 1..Len(worker.batch[p])
  BY <1>2, <1>3, <1>4, AppendIncreasing DEF BatchInv
<1>6. /\ worker' \in Workers /\ worker'.mailbox = Tail(worker.mailbox)
      /\ worker'.state = worker.state /\ worker'.dead = worker.dead
      /\ worker'.flushed = worker.flushed
      /\ worker'.batch = [worker.batch EXCEPT ![p] = Append(worker.batch[p], s)]
      /\ worker'.handled = [worker.handled EXCEPT ![p] = s]
  <2>1. worker \in Workers /\ Tail(worker.mailbox) \in Seq(Messages)
    BY <1>2, HeadTypes DEF ProjectionInv, TypeOK
  <2>2. /\ [worker.batch EXCEPT ![p] = Append(worker.batch[p], s)] \in [Partitions -> Seq(Nat)]
        /\ [worker.handled EXCEPT ![p] = s] \in [Partitions -> Nat]
    BY <1>2, <1>3, <1>5
  <2>3. worker' = [[[worker EXCEPT !.mailbox = Tail(worker.mailbox)]
                     EXCEPT !.batch = [worker.batch EXCEPT ![p] = Append(worker.batch[p], s)]]
                     EXCEPT !.handled = [worker.handled EXCEPT ![p] = s]]
    BY <2>1 DEF HandleGood, Popped, Workers
  <2> QED
    BY <2>1, <2>2, <2>3 DEF Workers, Sequences
<1>7. /\ worker'.batch[p] = Append(worker.batch[p], s) /\ worker'.handled[p] = s
      /\ \A q \in Partitions \ {p} : /\ worker'.batch[q] = worker.batch[q]
                                     /\ worker'.handled[q] = worker.handled[q]
  BY <1>2, <1>3, <1>6
<1>8. LogGrows /\ CoverageGrows
  BY <1>1, UnchangedLogGrows, UnchangedEffectsGrow, CoverageKept DEF ProjectionInv
<1>9. NamesLog'
  BY <1>1, <1>2, <1>6, PoppedNames DEF ProjectionInv, NamesLog
<1>10. InOrder'
  <2>1. \A q \in Partitions : worker'.handled[q] \in Nat /\ worker.handled[q] <= worker'.handled[q]
    BY <1>2, <1>7, PartitionTypes DEF ProjectionInv
  <2> QED
    BY <1>1, <1>2, <1>6, <1>7, <1>8, <2>1, PoppedInOrder
<1>11. ASSUME NEW q \in Partitions, q # p
       PROVE  BatchInv(q)' /\ AppliedInv(q)' /\ CoveredInv(q)'
  <2>1. BatchInv(q)' /\ CoveredInv(q)'
    BY <1>1, <1>6, <1>7, <1>8, <1>11, BatchKept, CoveredKept, PartitionTypes DEF ProjectionInv
  <2>2. AppliedInv(q)'
    BY <1>1, <1>6, <1>7, <1>11 DEF ProjectionInv, AppliedInv, Alive, Increasing, Below
  <2> QED
    BY <2>1, <2>2
<1>12. AppliedInv(p)'
  <2>1. Below(applied[p], worker'.handled[p])
    <3>1. Below(applied[p], worker.handled[p])
      BY <1>2, <1>4 DEF AppliedInv
    <3>2. Below(applied[p], s)
      <4> SUFFICES ASSUME NEW k \in 1..Len(applied[p]) PROVE applied[p][k] <= s
        BY DEF Below
      <4>1. applied[p][k] <= worker.handled[p] /\ applied[p][k] \in Nat
        BY <1>3, <3>1 DEF Below
      <4> QED
        BY <1>2, <4>1
    <3> QED
      BY <1>7, <3>2
  <2>2. worker'.state = "alive" /\ applied' = applied /\ checkpoint' = checkpoint
    BY <1>1, <1>2, <1>6 DEF Alive
  <2> QED
    BY <1>4, <2>1, <2>2 DEF AppliedInv, Alive, Increasing, Below
<1>13. BatchInv(p)'
  <2>1. Increasing(worker'.batch[p]) /\ Below(worker'.batch[p], worker'.handled[p])
    BY <1>5, <1>7
  <2>2. Before(applied[p], worker'.batch[p])
    <3>1. \A j \in 1..Len(applied[p]) : applied[p][j] < s
      <4>1. Below(applied[p], worker.handled[p])
        BY <1>2, <1>4 DEF AppliedInv
      <4> QED
        BY <1>2, <1>3, <4>1 DEF Below
    <3>2. Before(applied[p], worker.batch[p])
      BY <1>2, <1>4 DEF BatchInv
    <3> QED
      BY <1>5, <1>7, <3>1, <3>2 DEF Before
  <2>3. worker.flushed[p] # s
    BY <1>1, <1>2, <1>3, <1>4 DEF BatchInv
  <2>4. \/ worker.flushed[p] <= s
        \/ InLog(p, worker.flushed[p]) /\ log[p][worker.flushed[p]] = "undecodable"
    BY <1>2, <1>3, <1>4 DEF BatchInv
  <2> QED
    BY <1>1, <1>2, <1>6, <1>7, <2>1, <2>2, <2>3, <2>4 DEF BatchInv, InLog, Increasing, Below, Before
<1>14. CoveredInv(p)'
  <2>1. \A i : Batched(p, i) => Batched(p, i)'
    BY <1>5, <1>7 DEF Batched, Holds
  <2>2. Batched(p, s)'
    BY <1>5, <1>7 DEF Batched, Holds
  <2>3. \A i : Covered(p, i)' <=> Covered(p, i)
    BY <1>1 DEF Covered, Settled, Applied, Overtaken
  <2>4. \A i \in 1..s : i = s \/ i \in 1..s - 1
    BY <1>2
  <2>5. \A i \in 1..worker'.handled[p] : Covered(p, i)' \/ Batched(p, i)'
    BY <1>2, <1>7, <2>1, <2>2, <2>3, <2>4
  <2> QED
    BY <1>1, <1>4, <2>3, <2>5 DEF CoveredInv
<1> QED
  BY <1>1, <1>2, <1>6, <1>9, <1>10, <1>11, <1>12, <1>13, <1>14, WorkerStep
     DEF ProjectionInv, TypeOK, WorkerShape, Alive
-----------------------------------------------------------------------------
(* Transactions *)

(* The transaction of w: the batch of the worker, and a dead letter.  It   *)
(* accounts for every event up to what w has handled.                      *)
Commits(w) ==
  /\ w.batch = worker.batch /\ w.flushed = worker.flushed
  /\ w.dead \in [Partitions -> SUBSET Nat] /\ w.handled \in [Partitions -> Nat]
  /\ \A q \in Partitions :
       /\ worker.handled[q] <= w.handled[q]
       /\ \A j \in w.dead[q] : InLog(q, j)
       /\ \A i \in 1..w.handled[q] : Covered(q, i) \/ Batched(q, i) \/ i \in w.dead[q]
       /\ worker.batch[q] # << >> => Flushes(w, q)

LEMMA CommitTables ==
  ASSUME ProjectionInv, Alive, NEW w, Commits(w), Commit(w), UNCHANGED <<log, dropped>>
  PROVE  /\ applied' \in [Partitions -> Seq(Nat)] /\ checkpoint' \in [Partitions -> Nat]
         /\ letters' \in [Partitions -> SUBSET Nat]
         /\ LogGrows /\ CoverageGrows
         /\ \A q \in Partitions :
              /\ Increasing(applied'[q]) /\ Below(applied'[q], checkpoint'[q])
              /\ Below(applied'[q], w.handled[q])
              /\ \A j \in letters'[q] : InLog(q, j)
              /\ \A i \in 1..checkpoint'[q] : Covered(q, i)'
              /\ \A i \in 1..w.handled[q] : Covered(q, i)'
PROOF
<1>1. /\ applied' = [q \in Partitions |-> applied[q] \o worker.batch[q]]
      /\ letters' = [q \in Partitions |-> letters[q] \cup w.dead[q]]
      /\ checkpoint' = [q \in Partitions |-> IF Flushes(w, q) THEN w.handled[q] ELSE checkpoint[q]]
  BY DEF Commit, Commits
<1>2. ASSUME NEW q \in Partitions
      PROVE  /\ applied'[q] \in Seq(Nat) /\ checkpoint'[q] \in Nat /\ letters'[q] \in SUBSET Nat
             /\ Increasing(applied'[q])
             /\ Below(applied'[q], checkpoint'[q]) /\ Below(applied'[q], w.handled[q])
             /\ \A x : Applied(q, x) => Applied(q, x)'
             /\ \A x : Batched(q, x) => Applied(q, x)'
             /\ checkpoint'[q] \in {checkpoint[q], w.handled[q]}
             /\ letters'[q] = letters[q] \cup w.dead[q]
  <2>1. /\ applied[q] \in Seq(Nat) /\ worker.batch[q] \in Seq(Nat)
        /\ checkpoint[q] \in Nat /\ worker.handled[q] \in Nat /\ w.handled[q] \in Nat
        /\ letters[q] \subseteq Nat /\ w.dead[q] \subseteq Nat
        /\ worker.handled[q] <= w.handled[q]
        /\ \A k \in 1..Len(applied[q]) : applied[q][k] \in Nat
        /\ \A k \in 1..Len(worker.batch[q]) : worker.batch[q][k] \in Nat
    BY PartitionTypes DEF ProjectionInv, Commits
  <2>2. /\ Increasing(applied[q]) /\ Increasing(worker.batch[q])
        /\ Below(applied[q], checkpoint[q]) /\ Below(applied[q], worker.handled[q])
        /\ Below(worker.batch[q], worker.handled[q])
        /\ Before(applied[q], worker.batch[q])
    BY DEF ProjectionInv, AppliedInv, BatchInv
  <2>3. applied'[q] = applied[q] \o worker.batch[q]
    BY <1>1
  <2>4. /\ applied'[q] \in Seq(Nat) /\ Increasing(applied'[q])
        /\ \A n \in Nat : Below(applied[q], n) /\ Below(worker.batch[q], n) => Below(applied'[q], n)
        /\ \A x : Holds(applied[q], x) \/ Holds(worker.batch[q], x) => Holds(applied'[q], x)
    BY <2>1, <2>2, <2>3, ConcatIncreasing
  <2>5. DOMAIN applied[q] = 1..Len(applied[q]) /\ DOMAIN applied'[q] = 1..Len(applied'[q])
    BY <2>1, <2>4
  <2>6. Below(applied[q], w.handled[q]) /\ Below(worker.batch[q], w.handled[q])
    BY <2>1, <2>2, BelowLarger
  <2>7. Below(applied'[q], w.handled[q])
    BY <2>1, <2>4, <2>6
  <2>8. Below(applied'[q], checkpoint'[q])
    <3>1. CASE Flushes(w, q)
      BY <1>1, <2>7, <3>1
    <3>2. CASE ~Flushes(w, q)
      <4>1. worker.batch[q] = << >> /\ checkpoint'[q] = checkpoint[q]
        BY <1>1, <3>2 DEF Commits
      <4>2. Below(worker.batch[q], checkpoint[q])
        BY <4>1 DEF Below
      <4> QED
        BY <2>1, <2>2, <2>4, <4>1, <4>2
    <3> QED
      BY <3>1, <3>2
  <2>9. \A x : (Applied(q, x) => Applied(q, x)') /\ (Batched(q, x) => Applied(q, x)')
    BY <2>4, <2>5 DEF Applied, Batched, Holds
  <2>10. checkpoint'[q] \in {checkpoint[q], w.handled[q]} /\ letters'[q] = letters[q] \cup w.dead[q]
    BY <1>1
  <2> QED
    BY <2>1, <2>4, <2>7, <2>8, <2>9, <2>10
<1>3. EffectsGrow
  BY <1>2 DEF EffectsGrow
<1>4. LogGrows /\ CoverageGrows
  BY <1>3, UnchangedLogGrows, CoverageKept DEF ProjectionInv
<1>5. ASSUME NEW q \in Partitions
      PROVE  /\ \A j \in letters'[q] : InLog(q, j)
             /\ \A i \in 1..checkpoint'[q] : Covered(q, i)'
             /\ \A i \in 1..w.handled[q] : Covered(q, i)'
  <2>1. \A j \in letters'[q] : InLog(q, j)
    BY <1>2 DEF ProjectionInv, NamesLog, Commits
  <2>2. w.handled[q] \in Nat /\ checkpoint[q] \in Nat
    BY PartitionTypes DEF ProjectionInv, Commits
  <2>3. ASSUME NEW i \in 1..w.handled[q] PROVE Covered(q, i)'
    <3>1. Covered(q, i) \/ Batched(q, i) \/ i \in w.dead[q]
      BY DEF Commits
    <3>2. CASE Covered(q, i)
      BY <1>4, <2>2, <3>2 DEF CoverageGrows
    <3>3. CASE Batched(q, i)
      BY <1>2, <3>3 DEF Covered, Settled
    <3>4. CASE i \in w.dead[q]
      BY <1>2, <3>4 DEF Covered, Settled
    <3> QED
      BY <3>1, <3>2, <3>3, <3>4
  <2>4. \A i \in 1..checkpoint[q] : Covered(q, i)'
    BY <1>4, <2>2 DEF ProjectionInv, CoveredInv, CoverageGrows
  <2>5. checkpoint'[q] \in {checkpoint[q], w.handled[q]}
    BY <1>2
  <2> QED
    BY <2>1, <2>3, <2>4, <2>5
<1>6. /\ applied' \in [Partitions -> Seq(Nat)] /\ checkpoint' \in [Partitions -> Nat]
      /\ letters' \in [Partitions -> SUBSET Nat]
  BY <1>1, <1>2
<1> QED
  BY <1>2, <1>4, <1>5, <1>6

(* The worker after a commit goes on from what it has handled. *)
LEMMA CommittedStep ==
  ASSUME ProjectionInv, Alive, NEW w, Commits(w), Commit(w),
         UNCHANGED <<log, dropped, coordinator, epoch, supervisor>>,
         faults' \in 0..MaxFaults,
         worker' \in Workers, worker'.state = "alive", worker'.batch = NoBatch,
         worker'.dead = NoLetters, worker'.handled = w.handled,
         worker'.flushed \in {w.handled, worker.flushed},
         NamesLog', InOrder'
  PROVE  ProjectionInv'
PROOF
<1>1. /\ applied' \in [Partitions -> Seq(Nat)] /\ checkpoint' \in [Partitions -> Nat]
      /\ letters' \in [Partitions -> SUBSET Nat]
      /\ LogGrows /\ CoverageGrows
      /\ \A q \in Partitions :
           /\ Increasing(applied'[q]) /\ Below(applied'[q], checkpoint'[q])
           /\ Below(applied'[q], w.handled[q])
           /\ \A i \in 1..checkpoint'[q] : Covered(q, i)'
           /\ \A i \in 1..w.handled[q] : Covered(q, i)'
  BY CommitTables
<1>2. ASSUME NEW q \in Partitions
      PROVE  BatchInv(q)' /\ AppliedInv(q)' /\ CoveredInv(q)'
  <2>1. AppliedInv(q)'
    BY <1>1 DEF AppliedInv
  <2>2. \A i \in 1..coordinator'.flushed[q] : Covered(q, i)'
    <3>1. coordinator.flushed[q] \in Nat
      BY PartitionTypes DEF ProjectionInv
    <3> QED
      BY <1>1, <3>1 DEF ProjectionInv, CoveredInv, CoverageGrows
  <2>3. CoveredInv(q)'
    BY <1>1, <2>2 DEF CoveredInv
  <2>4. worker'.batch[q] = << >> /\ Len(worker'.batch[q]) = 0
    BY EmptyTypes
  <2>5. \/ worker'.flushed[q] <= worker'.handled[q]
        \/ InLog(q, worker'.flushed[q]) /\ log[q][worker'.flushed[q]] = "undecodable"
    <3>1. /\ worker.handled[q] \in Nat /\ worker.flushed[q] \in Nat /\ w.handled[q] \in Nat
          /\ worker.handled[q] <= w.handled[q]
      BY PartitionTypes DEF ProjectionInv, Commits
    <3>2. worker'.flushed[q] = w.handled[q] \/ worker'.flushed[q] = worker.flushed[q]
      OBVIOUS
    <3> QED
      BY <3>1, <3>2 DEF ProjectionInv, BatchInv
  <2>6. BatchInv(q)'
    BY <2>4, <2>5 DEF BatchInv, Increasing, Below, Before, InLog
  <2> QED
    BY <2>1, <2>3, <2>6
<1> QED
  BY <1>1, <1>2, WorkerStep DEF ProjectionInv, TypeOK, Sequences
(* The worker's own transaction, when it has no dead letter to write. *)
LEMMA BatchCommits ==
  ASSUME ProjectionInv, Alive
  PROVE  Commits(worker)
PROOF
<1>1. ASSUME NEW q \in Partitions
      PROVE  /\ worker.handled[q] <= worker.handled[q]
             /\ \A j \in worker.dead[q] : InLog(q, j)
             /\ \A i \in 1..worker.handled[q] :
                  Covered(q, i) \/ Batched(q, i) \/ i \in worker.dead[q]
             /\ worker.batch[q] # << >> => Flushes(worker, q)
  <2>1. worker.handled[q] \in Nat
    BY PartitionTypes DEF ProjectionInv
  <2>2. worker.dead[q] = {}
    BY EmptyTypes DEF ProjectionInv, WorkerShape
  <2>3. \A i \in 1..worker.handled[q] : Covered(q, i) \/ Batched(q, i)
    BY DEF ProjectionInv, CoveredInv
  <2>4. worker.batch[q] # << >> => worker.handled[q] # 0 /\ worker.handled[q] # worker.flushed[q]
    BY <2>1 DEF ProjectionInv, BatchInv, InLog
  <2> QED
    BY <2>1, <2>2, <2>3, <2>4 DEF Flushes
<1> QED
  BY <1>1, FieldTypes DEF ProjectionInv, Commits

(* A worker whose transaction is over, and no message was taken. *)
LEMMA RestedWorker ==
  ASSUME ProjectionInv, Alive, NEW f \in [Partitions -> Nat],
         worker' = [Rested(worker) EXCEPT !.flushed = f]
  PROVE  /\ worker' \in Workers /\ worker'.state = "alive" /\ worker'.batch = NoBatch
         /\ worker'.dead = NoLetters /\ worker'.handled = worker.handled
         /\ worker'.mailbox = worker.mailbox /\ worker'.flushed = f
PROOF
<1>1. worker \in Workers
  BY DEF ProjectionInv, TypeOK
<1> QED
  BY <1>1, EmptyTypes DEF Rested, Workers, Sequences, Alive

(* The same, of the worker that keeps its record of what is flushed. *)
LEMMA RestedSame ==
  ASSUME ProjectionInv, Alive, worker' = Rested(worker)
  PROVE  worker' = [Rested(worker) EXCEPT !.flushed = worker.flushed]
PROOF
<1>1. worker \in Workers
  BY DEF ProjectionInv, TypeOK
<1> QED
  BY <1>1 DEF Rested, Workers

(* The batch is committed, by a flush or by a COMMIT whose answer is lost. *)
LEMMA FlushStep ==
  ASSUME ProjectionInv, Alive, Commit(worker),
         UNCHANGED <<log, dropped, coordinator, epoch, supervisor>>,
         faults' \in 0..MaxFaults,
         NEW f \in {worker.handled, worker.flushed},
         worker' = [Rested(worker) EXCEPT !.flushed = f]
  PROVE  ProjectionInv'
PROOF
<1>1. Commits(worker)
  BY BatchCommits
<1>2. /\ LogGrows /\ CoverageGrows
      /\ \A q \in Partitions : \A j \in letters'[q] : InLog(q, j)
  BY <1>1, CommitTables
<1>3. f \in [Partitions -> Nat]
  BY FieldTypes DEF ProjectionInv
<1>4. /\ worker' \in Workers /\ worker'.state = "alive" /\ worker'.batch = NoBatch
      /\ worker'.dead = NoLetters /\ worker'.handled = worker.handled
      /\ worker'.mailbox = worker.mailbox /\ worker'.flushed = f
  BY <1>3, RestedWorker
<1>5. InOrder'
  BY <1>2, <1>4, InOrderKept DEF Alive
<1>6. NamesLog'
  <2>1. \A m : Mail(m)' = Mail(m)
    BY <1>4 DEF Mail
  <2> QED
    BY <1>2, <1>4, <2>1 DEF ProjectionInv, NamesLog, InLog
<1> QED
  BY <1>1, <1>4, <1>5, <1>6, CommittedStep

(* The batch is lost and the worker goes on: what was in it is dropped. *)
LEMMA DroppedGrow ==
  ASSUME ProjectionInv, BatchIsDropped
  PROVE  /\ dropped' \in [Partitions -> SUBSET Nat]
         /\ \A q \in Partitions : /\ dropped[q] \subseteq dropped'[q]
                                  /\ \A i : Batched(q, i) => i \in dropped'[q]
PROOF
<1>1. ASSUME NEW q \in Partitions
      PROVE  /\ InBatch(q) \subseteq Nat /\ dropped[q] \subseteq Nat
             /\ \A i : Batched(q, i) => i \in InBatch(q)
  <2>1. /\ worker.batch[q] \in Seq(Nat) /\ dropped[q] \subseteq Nat
        /\ \A k \in 1..Len(worker.batch[q]) : worker.batch[q][k] \in Nat
    BY PartitionTypes DEF ProjectionInv
  <2>2. DOMAIN worker.batch[q] = 1..Len(worker.batch[q])
    BY <2>1
  <2> QED
    BY <2>1, <2>2 DEF InBatch, Batched, Holds
<1> QED
  BY <1>1 DEF BatchIsDropped

LEMMA DropStep ==
  ASSUME ProjectionInv, Alive, BatchIsDropped, worker' = Rested(worker),
         UNCHANGED <<log, checkpoint, applied, letters, coordinator, epoch, supervisor>>,
         faults' \in 0..MaxFaults
  PROVE  ProjectionInv'
PROOF
<1>1. /\ dropped' \in [Partitions -> SUBSET Nat]
      /\ \A q \in Partitions : /\ dropped[q] \subseteq dropped'[q]
                               /\ \A i : Batched(q, i) => i \in dropped'[q]
  BY DroppedGrow
<1>2. EffectsGrow
  BY <1>1 DEF EffectsGrow, Applied
<1>3. LogGrows /\ CoverageGrows
  BY <1>2, UnchangedLogGrows, CoverageKept DEF ProjectionInv
<1>4. /\ worker' \in Workers /\ worker'.state = "alive" /\ worker'.batch = NoBatch
      /\ worker'.dead = NoLetters /\ worker'.handled = worker.handled
      /\ worker'.mailbox = worker.mailbox /\ worker'.flushed = worker.flushed
  BY FieldTypes, RestedWorker, RestedSame DEF ProjectionInv
<1>5. NamesLog' /\ InOrder'
  BY <1>3, <1>4, NamesLogKept, InOrderKept, PartitionTypes DEF ProjectionInv, Alive
<1>6. ASSUME NEW q \in Partitions
      PROVE  BatchInv(q)' /\ AppliedInv(q)' /\ CoveredInv(q)'
  <2>1. AppliedInv(q)'
    BY <1>4 DEF ProjectionInv, AppliedInv, Alive, Increasing, Below
  <2>2. worker'.batch[q] = << >> /\ Len(worker'.batch[q]) = 0
    BY <1>4, EmptyTypes
  <2>3. BatchInv(q)'
    BY <1>4, <2>2 DEF ProjectionInv, BatchInv, Increasing, Below, Before, InLog
  <2>4. checkpoint[q] \in Nat /\ coordinator.flushed[q] \in Nat /\ worker.handled[q] \in Nat
    BY PartitionTypes DEF ProjectionInv
  <2>5. \A i \in 1..worker.handled[q] : Covered(q, i)'
    <3> SUFFICES ASSUME NEW i \in 1..worker.handled[q] PROVE Covered(q, i)'
      OBVIOUS
    <3>1. Covered(q, i) \/ Batched(q, i)
      BY DEF ProjectionInv, CoveredInv
    <3> QED
      BY <1>1, <1>3, <2>4, <3>1 DEF Covered, CoverageGrows
  <2>6. /\ \A i \in 1..checkpoint[q] : Covered(q, i)'
        /\ \A i \in 1..coordinator.flushed[q] : Covered(q, i)'
    BY <1>3, <2>4 DEF ProjectionInv, CoveredInv, CoverageGrows
  <2>7. CoveredInv(q)'
    BY <1>4, <2>5, <2>6 DEF CoveredInv
  <2> QED
    BY <2>1, <2>3, <2>7
<1> QED
  BY <1>1, <1>4, <1>5, <1>6, WorkerStep DEF ProjectionInv, TypeOK
(* The worker with the dead letter of a poison event in its transaction. *)
LEMMA LetteredFields ==
  ASSUME ProjectionInv, Poisoned
  PROVE  /\ Lettered \in Workers /\ Lettered.state = "alive"
         /\ Lettered.mailbox = Tail(worker.mailbox)
         /\ Lettered.batch = worker.batch /\ Lettered.flushed = worker.flushed
         /\ Lettered.dead = [worker.dead EXCEPT ![Part] = {Pos}]
         /\ Lettered.handled = [worker.handled EXCEPT ![Part] = Pos]
         /\ Lettered.dead \in [Partitions -> SUBSET Nat]
         /\ Lettered.handled \in [Partitions -> Nat]
PROOF
<1> SUFFICES ASSUME NEW p, p = Part, NEW s, s = Pos
             PROVE  /\ Lettered \in Workers /\ Lettered.state = "alive"
                    /\ Lettered.mailbox = Tail(worker.mailbox)
                    /\ Lettered.batch = worker.batch /\ Lettered.flushed = worker.flushed
                    /\ Lettered.dead = [worker.dead EXCEPT ![p] = {s}]
                    /\ Lettered.handled = [worker.handled EXCEPT ![p] = s]
                    /\ Lettered.dead \in [Partitions -> SUBSET Nat]
                    /\ Lettered.handled \in [Partitions -> Nat]
  OBVIOUS
<1>1. /\ Alive /\ worker.mailbox # << >> /\ p \in Partitions /\ s \in Nat
  BY NextEvent DEF Poisoned
<1>2. /\ worker \in Workers /\ Tail(worker.mailbox) \in Seq(Messages)
      /\ worker.dead \in [Partitions -> SUBSET Nat] /\ worker.handled \in [Partitions -> Nat]
      /\ worker.dead[p] = {}
  BY <1>1, HeadTypes, FieldTypes, EmptyTypes DEF ProjectionInv, TypeOK, WorkerShape
<1>3. /\ [worker.dead EXCEPT ![p] = {s}] \in [Partitions -> SUBSET Nat]
      /\ [worker.handled EXCEPT ![p] = s] \in [Partitions -> Nat]
      /\ worker.dead[p] \cup {s} = {s}
  BY <1>1, <1>2
<1>4. Lettered = [[[worker EXCEPT !.mailbox = Tail(worker.mailbox)]
                    EXCEPT !.dead = [worker.dead EXCEPT ![p] = worker.dead[p] \cup {s}]]
                    EXCEPT !.handled = [worker.handled EXCEPT ![p] = s]]
  BY <1>2 DEF Lettered, Popped, Workers
<1>5. Lettered = [[[worker EXCEPT !.mailbox = Tail(worker.mailbox)]
                    EXCEPT !.dead = [worker.dead EXCEPT ![p] = {s}]]
                    EXCEPT !.handled = [worker.handled EXCEPT ![p] = s]]
  BY <1>3, <1>4
<1> QED
  BY <1>1, <1>2, <1>3, <1>5 DEF Workers, Sequences, Alive

LEMMA LetterCommits ==
  ASSUME ProjectionInv, Poisoned
  PROVE  Commits(Lettered)
PROOF
<1> SUFFICES ASSUME NEW p, p = Part, NEW s, s = Pos, NEW w, w = Lettered
             PROVE  Commits(w)
  OBVIOUS
<1>1. /\ Alive /\ p \in Partitions /\ s \in Nat /\ InLog(p, s)
      /\ worker.handled[p] < s /\ worker.handled[p] \in Nat
      /\ \A i \in 1..s - 1 : Covered(p, i) \/ Batched(p, i)
      /\ log[p][s] = "poison"
  BY NextEvent DEF Poisoned
<1>2. /\ w.batch = worker.batch /\ w.flushed = worker.flushed
      /\ w.dead = [worker.dead EXCEPT ![p] = {s}]
      /\ w.handled = [worker.handled EXCEPT ![p] = s]
      /\ w.dead \in [Partitions -> SUBSET Nat] /\ w.handled \in [Partitions -> Nat]
  BY LetteredFields
<1>3. /\ worker.dead \in [Partitions -> SUBSET Nat] /\ worker.handled \in [Partitions -> Nat]
      /\ w.dead[p] = {s} /\ w.handled[p] = s
      /\ \A q \in Partitions \ {p} : w.dead[q] = worker.dead[q] /\ w.handled[q] = worker.handled[q]
  BY <1>1, <1>2, FieldTypes DEF ProjectionInv
<1>4. Commits(worker)
  BY <1>1, BatchCommits
<1>5. ASSUME NEW q \in Partitions, q # p
      PROVE  /\ worker.handled[q] <= w.handled[q]
             /\ \A j \in w.dead[q] : InLog(q, j)
             /\ \A i \in 1..w.handled[q] : Covered(q, i) \/ Batched(q, i) \/ i \in w.dead[q]
             /\ worker.batch[q] # << >> => Flushes(w, q)
  BY <1>2, <1>3, <1>4, <1>5 DEF Commits, Flushes
<1>6. /\ worker.handled[p] <= w.handled[p]
      /\ \A j \in w.dead[p] : InLog(p, j)
  BY <1>1, <1>3
<1>7. \A i \in 1..w.handled[p] : Covered(p, i) \/ Batched(p, i) \/ i \in w.dead[p]
  <2>1. \A i \in 1..s : i = s \/ i \in 1..s - 1
    BY <1>1
  <2> QED
    BY <1>1, <1>3, <2>1
<1>8. Flushes(w, p)
  <2>1. worker.flushed[p] \in Nat /\ BatchInv(p)
    BY <1>1, PartitionTypes DEF ProjectionInv
  <2>2. worker.flushed[p] # s
    BY <1>1, <2>1 DEF BatchInv
  <2>3. s # 0
    BY <1>1
  <2> QED
    BY <1>2, <1>3, <2>2, <2>3 DEF Flushes
<1> QED
  BY <1>2, <1>5, <1>6, <1>7, <1>8 DEF Commits

(* The dead letter, the batch before it and the checkpoint, in one commit,  *)
(* whether or not its answer arrives.                                       *)
LEMMA LetterCommitted ==
  ASSUME ProjectionInv, Poisoned, Commit(Lettered),
         UNCHANGED <<log, dropped, coordinator, epoch, supervisor>>,
         faults' \in 0..MaxFaults,
         NEW f \in {Lettered.handled, worker.flushed},
         worker' = [Rested(Lettered) EXCEPT !.flushed = f]
  PROVE  ProjectionInv'
PROOF
<1>1. /\ Alive /\ worker.mailbox # << >> /\ Mail(1).type = "event"
      /\ Part \in Partitions /\ Pos \in Nat
      /\ worker.handled[Part] < Pos /\ worker.handled[Part] \in Nat
  BY NextEvent DEF Poisoned
<1>2. /\ Lettered \in Workers /\ Lettered.state = "alive"
      /\ Lettered.mailbox = Tail(worker.mailbox)
      /\ Lettered.handled = [worker.handled EXCEPT ![Part] = Pos]
      /\ Lettered.handled \in [Partitions -> Nat]
  BY LetteredFields
<1>3. /\ worker' \in Workers /\ worker'.state = "alive" /\ worker'.batch = NoBatch
      /\ worker'.dead = NoLetters /\ worker'.handled = Lettered.handled
      /\ worker'.mailbox = Tail(worker.mailbox) /\ worker'.flushed = f
  <2>1. f \in [Partitions -> Nat]
    BY <1>2, FieldTypes DEF ProjectionInv
  <2> SUFFICES ASSUME NEW w \in Workers, w = Lettered, w.state = "alive",
                      w.mailbox = Tail(worker.mailbox),
                      worker' = [Rested(w) EXCEPT !.flushed = f]
               PROVE  /\ worker' \in Workers /\ worker'.state = "alive"
                      /\ worker'.batch = NoBatch /\ worker'.dead = NoLetters
                      /\ worker'.handled = w.handled /\ worker'.flushed = f
                      /\ worker'.mailbox = Tail(worker.mailbox)
    BY <1>2
  <2> QED
    BY <2>1, EmptyTypes DEF Rested, Workers, Sequences
<1>4. Commits(Lettered)
  BY LetterCommits
<1>5. /\ LogGrows /\ CoverageGrows
      /\ \A q \in Partitions : \A j \in letters'[q] : InLog(q, j)
  BY <1>1, <1>4, CommitTables
<1>6. NamesLog'
  BY <1>1, <1>3, <1>5, PoppedNames
<1>7. InOrder'
  <2>1. \A q \in Partitions : worker'.handled[q] \in Nat /\ worker.handled[q] <= worker'.handled[q]
    BY <1>2, <1>3, <1>4 DEF Commits
  <2>2. Pos <= worker'.handled[Part]
    <3>1. worker.handled \in [Partitions -> Nat]
      BY FieldTypes DEF ProjectionInv
    <3>2. worker'.handled[Part] = Pos
      BY <1>1, <1>2, <1>3, <3>1
    <3> QED
      BY <1>1, <3>2
  <2> QED
    BY <1>1, <1>3, <1>5, <2>1, <2>2, PoppedInOrder
<1>8. worker'.flushed \in {Lettered.handled, worker.flushed}
  BY <1>3
<1> QED
  BY <1>1, <1>3, <1>4, <1>6, <1>7, <1>8, CommittedStep

LEMMA PoisonStep ==
  ASSUME ProjectionInv, HandlePoison
  PROVE  ProjectionInv'
PROOF
<1>1. faults' \in 0..MaxFaults
  BY DEF HandlePoison, ProjectionInv, TypeOK
<1> QED
  BY <1>1, LetterCommitted DEF HandlePoison

(* The dead letter in a transaction of its own, after the batch was lost. *)
LEMMA OwnTransactionStep ==
  ASSUME ProjectionInv, PoisonOwnTransaction
  PROVE  ProjectionInv'
PROOF
<1> SUFFICES ASSUME NEW p, p = Part, NEW s, s = Pos PROVE ProjectionInv'
  OBVIOUS
<1>1. /\ Poisoned /\ BatchIsDropped
      /\ letters' = [letters EXCEPT ![p] = letters[p] \cup {s}]
      /\ checkpoint' = [checkpoint EXCEPT ![p] = Larger(checkpoint[p], s)]
      /\ UNCHANGED <<log, applied, coordinator, epoch, supervisor>>
      /\ faults' \in 0..MaxFaults
  BY FaultTypes DEF PoisonOwnTransaction
<1>2. /\ Alive /\ worker.mailbox # << >> /\ Mail(1).type = "event"
      /\ p \in Partitions /\ s \in Nat /\ InLog(p, s)
      /\ worker.handled[p] < s /\ worker.handled[p] \in Nat
      /\ \A i \in 1..s - 1 : Covered(p, i) \/ Batched(p, i)
  BY <1>1, NextEvent DEF Poisoned
<1>3. /\ worker' \in Workers /\ worker'.state = "alive"
      /\ worker'.mailbox = Tail(worker.mailbox)
      /\ worker'.batch = NoBatch /\ worker'.dead = NoLetters
      /\ worker'.handled = [worker.handled EXCEPT ![p] = s]
      /\ worker'.flushed = [worker.flushed EXCEPT ![p] = s]
  <2>1. /\ worker \in Workers /\ Tail(worker.mailbox) \in Seq(Messages)
        /\ worker.handled \in [Partitions -> Nat] /\ worker.flushed \in [Partitions -> Nat]
    BY <1>2, HeadTypes, FieldTypes DEF ProjectionInv, TypeOK
  <2>2. /\ [worker.handled EXCEPT ![p] = s] \in [Partitions -> Nat]
        /\ [worker.flushed EXCEPT ![p] = s] \in [Partitions -> Nat]
    BY <1>2, <2>1
  <2>3. worker' = [Rested(Popped) EXCEPT !.handled = [worker.handled EXCEPT ![p] = s],
                                         !.flushed = [worker.flushed EXCEPT ![p] = s]]
    BY <2>1 DEF PoisonOwnTransaction, Popped, Rested, Workers
  <2> QED
    BY <1>2, <2>1, <2>2, <2>3, EmptyTypes DEF Popped, Rested, Workers, Sequences, Alive
<1>4. /\ worker.handled \in [Partitions -> Nat] /\ worker.flushed \in [Partitions -> Nat]
      /\ worker'.handled[p] = s /\ worker'.flushed[p] = s
      /\ \A q \in Partitions \ {p} : /\ worker'.handled[q] = worker.handled[q]
                                     /\ worker'.flushed[q] = worker.flushed[q]
  BY <1>2, <1>3, FieldTypes DEF ProjectionInv
<1>5. /\ checkpoint' \in [Partitions -> Nat]
      /\ checkpoint'[p] \in {checkpoint[p], s} /\ checkpoint[p] <= checkpoint'[p]
      /\ \A q \in Partitions \ {p} : checkpoint'[q] = checkpoint[q]
  BY <1>1, <1>2, FieldTypes DEF ProjectionInv, Larger
<1>6. /\ letters' \in [Partitions -> SUBSET Nat] /\ letters'[p] = letters[p] \cup {s}
      /\ \A q \in Partitions \ {p} : letters'[q] = letters[q]
  <2>1. letters \in [Partitions -> SUBSET Nat]
    BY DEF ProjectionInv, TypeOK
  <2> QED
    BY <1>1, <1>2, <2>1
<1>7. /\ dropped' \in [Partitions -> SUBSET Nat]
      /\ \A q \in Partitions : /\ dropped[q] \subseteq dropped'[q]
                               /\ \A i : Batched(q, i) => i \in dropped'[q]
  BY <1>1, DroppedGrow
<1>8. LogGrows /\ CoverageGrows
  <2>1. EffectsGrow
    BY <1>1, <1>6, <1>7 DEF EffectsGrow, Applied
  <2> QED
    BY <1>1, <2>1, UnchangedLogGrows, CoverageKept DEF ProjectionInv
<1>9. NamesLog'
  <2>1. \A q \in Partitions : \A j \in letters'[q] : InLog(q, j)
    BY <1>2, <1>6 DEF ProjectionInv, NamesLog
  <2> QED
    BY <1>1, <1>2, <1>3, <2>1, PoppedNames
<1>10. InOrder'
  <2>1. \A q \in Partitions : worker'.handled[q] \in Nat /\ worker.handled[q] <= worker'.handled[q]
    BY <1>2, <1>4
  <2> QED
    BY <1>1, <1>2, <1>3, <1>4, <1>8, <2>1, PoppedInOrder
<1>11. ASSUME NEW q \in Partitions
       PROVE  BatchInv(q)' /\ AppliedInv(q)' /\ CoveredInv(q)'
  <2>1. /\ checkpoint[q] \in Nat /\ coordinator.flushed[q] \in Nat
        /\ worker.handled[q] \in Nat /\ worker.flushed[q] \in Nat /\ applied[q] \in Seq(Nat)
    BY PartitionTypes DEF ProjectionInv
  <2>2. AppliedInv(q) /\ BatchInv(q) /\ CoveredInv(q)
    BY DEF ProjectionInv
  <2>3. /\ worker.handled[q] <= worker'.handled[q] /\ worker'.handled[q] \in Nat
        /\ checkpoint[q] <= checkpoint'[q] /\ checkpoint'[q] \in Nat
    <3>1. CASE q = p
      BY <1>2, <1>4, <1>5, <2>1, <3>1
    <3>2. CASE q # p
      BY <1>4, <1>5, <2>1, <3>2
    <3> QED
      BY <3>1, <3>2
  <2>4. AppliedInv(q)'
    <3>1. Below(applied[q], checkpoint[q]) /\ Below(applied[q], worker.handled[q])
      BY <1>2, <2>2 DEF AppliedInv
    <3>2. Below(applied[q], checkpoint'[q]) /\ Below(applied[q], worker'.handled[q])
      BY <2>1, <2>3, <3>1, BelowLarger
    <3> QED
      BY <1>1, <1>3, <2>2, <3>2 DEF AppliedInv
  <2>5. BatchInv(q)'
    <3>1. worker'.batch[q] = << >> /\ Len(worker'.batch[q]) = 0
      BY <1>3, EmptyTypes
    <3>2. \/ worker'.flushed[q] <= worker'.handled[q]
          \/ InLog(q, worker'.flushed[q]) /\ log[q][worker'.flushed[q]] = "undecodable"
      BY <1>2, <1>4, <2>1, <2>2 DEF BatchInv
    <3> QED
      BY <1>1, <3>1, <3>2 DEF BatchInv, Increasing, Below, Before, InLog
  <2>6. \A i \in 1..worker'.handled[q] : Covered(q, i)'
    <3> SUFFICES ASSUME NEW i \in 1..worker'.handled[q] PROVE Covered(q, i)'
      OBVIOUS
    <3>1. CASE q = p /\ i = s
      BY <1>6, <3>1 DEF Covered, Settled
    <3>2. CASE ~(q = p /\ i = s)
      <4>1. Covered(q, i) \/ Batched(q, i)
        <5>1. CASE q = p
          <6>1. i \in 1..s - 1
            BY <1>2, <1>4, <3>2, <5>1
          <6> QED
            BY <1>2, <5>1, <6>1
        <5>2. CASE q # p
          BY <1>2, <1>4, <2>2, <5>2 DEF CoveredInv
        <5> QED
          BY <5>1, <5>2
      <4> QED
        BY <1>7, <1>8, <2>3, <4>1 DEF Covered, CoverageGrows
    <3> QED
      BY <3>1, <3>2
  <2>7. /\ \A i \in 1..checkpoint[q] : Covered(q, i)'
        /\ \A i \in 1..coordinator.flushed[q] : Covered(q, i)'
    BY <1>8, <2>1, <2>2 DEF CoveredInv, CoverageGrows
  <2>8. \A i \in 1..checkpoint'[q] : Covered(q, i)'
    <3>1. checkpoint'[q] = checkpoint[q] \/ checkpoint'[q] = worker'.handled[q]
      BY <1>4, <1>5
    <3> QED
      BY <2>6, <2>7, <3>1
  <2>9. CoveredInv(q)'
    BY <1>1, <2>6, <2>7, <2>8 DEF CoveredInv
  <2> QED
    BY <2>4, <2>5, <2>9
<1> QED
  BY <1>1, <1>2, <1>3, <1>5, <1>6, <1>7, <1>9, <1>10, <1>11, WorkerStep
     DEF ProjectionInv, TypeOK, Sequences

(* The dead letter lost with the batch, by a worker that goes on behind it. *)
LEMMA LetterDropped ==
  ASSUME ProjectionInv, Poisoned,
         dropped' = [q \in Partitions |-> dropped[q] \cup InBatch(q) \cup Lettered.dead[q]],
         worker' = Rested(Lettered),
         UNCHANGED <<log, checkpoint, applied, letters, coordinator, epoch, supervisor>>,
         faults' \in 0..MaxFaults
  PROVE  ProjectionInv'
PROOF
<1> SUFFICES ASSUME NEW p, p = Part, NEW s, s = Pos PROVE ProjectionInv'
  OBVIOUS
<1>1. /\ Alive /\ worker.mailbox # << >> /\ Mail(1).type = "event"
      /\ p \in Partitions /\ s \in Nat /\ InLog(p, s)
      /\ worker.handled[p] < s /\ worker.handled[p] \in Nat
      /\ \A i \in 1..s - 1 : Covered(p, i) \/ Batched(p, i)
  BY NextEvent DEF Poisoned
<1>2. /\ Lettered \in Workers /\ Lettered.state = "alive"
      /\ Lettered.mailbox = Tail(worker.mailbox) /\ Lettered.flushed = worker.flushed
      /\ Lettered.dead = [worker.dead EXCEPT ![p] = {s}]
      /\ Lettered.dead \in [Partitions -> SUBSET Nat]
      /\ Lettered.handled = [worker.handled EXCEPT ![p] = s]
      /\ Lettered.handled \in [Partitions -> Nat]
  BY LetteredFields
<1>3. /\ worker' \in Workers /\ worker'.state = "alive"
      /\ worker'.mailbox = Tail(worker.mailbox)
      /\ worker'.batch = NoBatch /\ worker'.dead = NoLetters
      /\ worker'.handled = Lettered.handled /\ worker'.flushed = worker.flushed
  <2> SUFFICES ASSUME NEW w \in Workers, w = Lettered, worker' = Rested(w)
               PROVE  /\ worker' \in Workers /\ worker'.state = w.state
                      /\ worker'.mailbox = w.mailbox
                      /\ worker'.batch = NoBatch /\ worker'.dead = NoLetters
                      /\ worker'.handled = w.handled /\ worker'.flushed = w.flushed
    BY <1>2
  <2> QED
    BY EmptyTypes DEF Rested, Workers, Sequences
<1>4. /\ worker.handled \in [Partitions -> Nat] /\ worker.flushed \in [Partitions -> Nat]
      /\ worker'.handled[p] = s
      /\ \A q \in Partitions \ {p} : worker'.handled[q] = worker.handled[q]
  BY <1>1, <1>2, <1>3, FieldTypes DEF ProjectionInv
<1>5. /\ dropped' \in [Partitions -> SUBSET Nat] /\ s \in dropped'[p]
      /\ \A q \in Partitions : /\ dropped[q] \subseteq dropped'[q]
                               /\ \A i : Batched(q, i) => i \in dropped'[q]
  <2>1. ASSUME NEW q \in Partitions
        PROVE  /\ InBatch(q) \subseteq Nat /\ dropped[q] \subseteq Nat
               /\ Lettered.dead[q] \subseteq Nat
               /\ \A i : Batched(q, i) => i \in InBatch(q)
    <3>1. /\ worker.batch[q] \in Seq(Nat) /\ dropped[q] \subseteq Nat
          /\ \A k \in 1..Len(worker.batch[q]) : worker.batch[q][k] \in Nat
      BY PartitionTypes DEF ProjectionInv
    <3>2. DOMAIN worker.batch[q] = 1..Len(worker.batch[q])
      BY <3>1
    <3>3. Lettered.dead[q] \subseteq Nat
      BY <1>2
    <3> QED
      BY <3>1, <3>2, <3>3 DEF InBatch, Batched, Holds
  <2>2. s \in Lettered.dead[p]
    <3>1. worker.dead \in [Partitions -> SUBSET Nat]
      BY FieldTypes DEF ProjectionInv
    <3> QED
      BY <1>1, <1>2, <3>1
  <2>3. \A q \in Partitions : dropped'[q] = dropped[q] \cup InBatch(q) \cup Lettered.dead[q]
    OBVIOUS
  <2>4. \A q \in Partitions : dropped'[q] \in SUBSET Nat
    BY <2>1, <2>3
  <2>5. dropped' \in [Partitions -> SUBSET Nat]
    BY <2>3, <2>4
  <2> QED
    BY <1>1, <2>1, <2>2, <2>3, <2>5
<1>6. LogGrows /\ CoverageGrows
  <2>1. EffectsGrow
    BY <1>5 DEF EffectsGrow, Applied
  <2> QED
    BY <2>1, UnchangedLogGrows, CoverageKept DEF ProjectionInv
<1>7. NamesLog'
  BY <1>1, <1>3, PoppedNames DEF ProjectionInv, NamesLog
<1>8. \A q \in Partitions : worker'.handled[q] \in Nat /\ worker.handled[q] <= worker'.handled[q]
  <2>1. ASSUME NEW q \in Partitions, q # p
        PROVE  worker'.handled[q] \in Nat /\ worker.handled[q] <= worker'.handled[q]
    BY <1>4, <2>1
  <2>2. worker'.handled[p] \in Nat /\ worker.handled[p] <= worker'.handled[p]
    BY <1>1, <1>4
  <2> QED
    BY <2>1, <2>2
<1>9. InOrder'
  BY <1>1, <1>3, <1>4, <1>6, <1>8, PoppedInOrder
<1>10. ASSUME NEW q \in Partitions
       PROVE  BatchInv(q)' /\ AppliedInv(q)' /\ CoveredInv(q)'
  <2>1. /\ checkpoint[q] \in Nat /\ coordinator.flushed[q] \in Nat
        /\ worker.handled[q] \in Nat /\ worker.flushed[q] \in Nat /\ applied[q] \in Seq(Nat)
    BY PartitionTypes DEF ProjectionInv
  <2>2. AppliedInv(q) /\ BatchInv(q) /\ CoveredInv(q)
    BY DEF ProjectionInv
  <2>3. AppliedInv(q)'
    <3>1. Below(applied[q], checkpoint[q]) /\ Below(applied[q], worker.handled[q])
      BY <1>1, <2>2 DEF AppliedInv
    <3>2. Below(applied[q], worker'.handled[q])
      BY <1>8, <2>1, <3>1, BelowLarger
    <3> QED
      BY <1>3, <2>2, <3>1, <3>2 DEF AppliedInv
  <2>4. BatchInv(q)'
    <3>1. worker'.batch[q] = << >> /\ Len(worker'.batch[q]) = 0
      BY <1>3, EmptyTypes
    <3>2. \/ worker'.flushed[q] <= worker'.handled[q]
          \/ InLog(q, worker'.flushed[q]) /\ log[q][worker'.flushed[q]] = "undecodable"
      BY <1>1, <1>3, <1>8, <2>1, <2>2 DEF BatchInv
    <3> QED
      BY <3>1, <3>2 DEF BatchInv, Increasing, Below, Before, InLog
  <2>5. \A i \in 1..worker'.handled[q] : Covered(q, i)'
    <3> SUFFICES ASSUME NEW i \in 1..worker'.handled[q] PROVE Covered(q, i)'
      OBVIOUS
    <3>1. CASE q = p /\ i = s
      BY <1>5, <3>1 DEF Covered
    <3>2. CASE ~(q = p /\ i = s)
      <4>1. Covered(q, i) \/ Batched(q, i)
        <5>1. CASE q = p
          <6>1. i \in 1..s - 1
            BY <1>1, <1>4, <3>2, <5>1
          <6> QED
            BY <1>1, <5>1, <6>1
        <5>2. CASE q # p
          BY <1>1, <1>4, <2>2, <5>2 DEF CoveredInv
        <5> QED
          BY <5>1, <5>2
      <4> QED
        BY <1>5, <1>6, <1>8, <4>1 DEF Covered, CoverageGrows
    <3> QED
      BY <3>1, <3>2
  <2>6. /\ \A i \in 1..checkpoint[q] : Covered(q, i)'
        /\ \A i \in 1..coordinator.flushed[q] : Covered(q, i)'
    <3>1. /\ \A i \in 1..checkpoint[q] : Covered(q, i)
          /\ \A i \in 1..coordinator.flushed[q] : Covered(q, i)
      BY <2>2 DEF CoveredInv
    <3>2. \A i \in Nat : Covered(q, i) => Covered(q, i)'
      BY <1>6 DEF CoverageGrows
    <3> QED
      BY <2>1, <3>1, <3>2
  <2>7. CoveredInv(q)'
    BY <2>5, <2>6 DEF CoveredInv
  <2> QED
    BY <2>3, <2>4, <2>7
<1> QED
  BY <1>1, <1>3, <1>5, <1>7, <1>9, <1>10, WorkerStep DEF ProjectionInv, TypeOK

-----------------------------------------------------------------------------
(* The theorems *)

LEMMA ProjectionInvInit == Init => ProjectionInv
PROOF
<1> SUFFICES ASSUME Init PROVE ProjectionInv
  OBVIOUS
<1> USE EmptyTypes
<1>1. /\ worker \in Workers /\ worker.state = "vacant" /\ worker.mailbox = << >>
      /\ worker.batch = NoBatch /\ worker.dead = NoLetters
  BY WorkerMade DEF Init, Vacant
<1>2. coordinator \in Coordinators /\ coordinator.flushed = Nowhere
  BY DEF Init, Coordinators, Sequences
<1>3. epoch \in Epochs /\ ~epoch.open
  BY DEF Init, ClosedEpoch, Epochs, Sequences
<1>4. supervisor \in Supervisors /\ SupervisorInv
  BY <1>3, ProjectionConstants DEF Init, NewSupervisor, Supervisors, SupervisorInv
<1>5. log \in [Partitions -> Seq(Kinds)] /\ applied \in [Partitions -> Seq(Nat)]
  <2>1. << >> \in Seq(Kinds) /\ << >> \in Seq(Nat)
    OBVIOUS
  <2> QED
    BY <2>1 DEF Init
<1>6. TypeOK
  BY <1>1, <1>2, <1>3, <1>4, <1>5, ProjectionConstants DEF Init, TypeOK, Sequences
<1>7. WorkerShape /\ InOrder /\ ~Alive
  BY <1>1 DEF WorkerShape, InOrder, Alive
<1>8. NamesLog
  BY <1>1 DEF Init, NamesLog
<1>9. ASSUME NEW p \in Partitions
      PROVE  EpochAhead(p) /\ BatchInv(p) /\ AppliedInv(p) /\ CoveredInv(p)
  <2>1. applied[p] = << >> /\ checkpoint[p] = 0 /\ coordinator.flushed[p] = 0
    BY <1>2 DEF Init
  <2> QED
    BY <1>3, <1>7, <2>1 DEF EpochAhead, BatchInv, AppliedInv, CoveredInv, Increasing, Below
<1> QED
  BY <1>4, <1>6, <1>7, <1>8, <1>9 DEF ProjectionInv

LEMMA ProjectionInvNext == ProjectionInv /\ [Next]_vars => ProjectionInv'
PROOF
<1> SUFFICES ASSUME ProjectionInv, [Next]_vars PROVE ProjectionInv'
  OBVIOUS
<1>1. CASE EpochStep \/ StreamFails \/ StreamEnds \/ LinkDied
  BY <1>1, QuietActions DEF EpochStep
<1>2. ASSUME NEW p \in Partitions, Receive(p) PROVE ProjectionInv'
  BY <1>2, QuietActions, DeliverStep, DeliverLostStep, DeadLetterStep DEF Receive
<1>3. CASE HandleNext
  BY <1>3, SkipStep, SyncStep, GoodStep, PoisonStep DEF HandleNext
<1>4. CASE Flush
  <2>1. /\ Alive /\ Commit(worker) /\ UNCHANGED <<log, dropped, coordinator, epoch, supervisor>>
        /\ worker' = [Rested(worker) EXCEPT !.flushed = worker.handled]
    BY <1>4 DEF Flush, Alive
  <2>2. faults' \in 0..MaxFaults
    BY <1>4, FaultTypes DEF Flush
  <2> QED
    BY <2>1, <2>2, FlushStep
<1>5. CASE HandleFails \/ FlushDies
  BY <1>5, WorkerDiesStep
<1>6. CASE Crash
  BY <1>6, CrashStep
<1>7. CASE DropBatch
  <2>1. /\ Alive /\ BatchIsDropped /\ worker' = Rested(worker)
        /\ UNCHANGED <<log, checkpoint, applied, letters, coordinator, epoch, supervisor>>
    BY <1>7 DEF DropBatch, Head1, Alive, tables
  <2>2. faults' \in 0..MaxFaults
    BY <1>7, FaultTypes DEF DropBatch
  <2> QED
    BY <2>1, <2>2, DropStep
<1>8. CASE PoisonOwnTransaction
  BY <1>8, OwnTransactionStep
<1>9. CASE CommitFails
  <2>1. /\ Alive /\ worker' = Rested(worker) /\ UNCHANGED <<log, coordinator, epoch, supervisor>>
        /\ \/ Commit(worker) /\ UNCHANGED dropped
           \/ BatchIsDropped /\ UNCHANGED tables
    BY <1>9 DEF CommitFails, Alive
  <2>2. faults' \in 0..MaxFaults
    BY <1>9, FaultTypes DEF CommitFails
  <2>3. CASE Commit(worker) /\ UNCHANGED dropped
    <3>1. worker' = [Rested(worker) EXCEPT !.flushed = worker.flushed]
      BY <2>1, RestedSame
    <3> QED
      BY <2>1, <2>2, <2>3, <3>1, FlushStep
  <2>4. CASE BatchIsDropped /\ UNCHANGED tables
    BY <2>1, <2>2, <2>4, DropStep DEF tables
  <2> QED
    BY <2>1, <2>3, <2>4
<1>10. CASE PoisonCommitFails
  <2>1. /\ Poisoned /\ worker' = Rested(Lettered)
        /\ UNCHANGED <<log, coordinator, epoch, supervisor>>
        /\ \/ Commit(Lettered) /\ UNCHANGED dropped
           \/ /\ dropped' = [p \in Partitions |->
                              dropped[p] \cup InBatch(p) \cup Lettered.dead[p]]
              /\ UNCHANGED tables
    BY <1>10 DEF PoisonCommitFails
  <2>2. faults' \in 0..MaxFaults
    BY <1>10, FaultTypes DEF PoisonCommitFails
  <2>3. CASE Commit(Lettered) /\ UNCHANGED dropped
    <3>1. worker' = [Rested(Lettered) EXCEPT !.flushed = worker.flushed]
      <4>1. Lettered \in Workers /\ Lettered.flushed = worker.flushed
        BY <2>1, LetteredFields
      <4> SUFFICES ASSUME NEW w \in Workers, w.flushed = worker.flushed
                   PROVE  Rested(w) = [Rested(w) EXCEPT !.flushed = worker.flushed]
        BY <2>1, <4>1
      <4> QED
        BY DEF Rested, Workers
    <3> QED
      BY <2>1, <2>2, <2>3, <3>1, LetterCommitted
  <2>4. CASE /\ dropped' = [p \in Partitions |->
                             dropped[p] \cup InBatch(p) \cup Lettered.dead[p]]
             /\ UNCHANGED tables
    BY <2>1, <2>2, <2>4, LetterDropped DEF tables
  <2> QED
    BY <2>1, <2>3, <2>4
<1>11. CASE UNCHANGED vars
  <2>1. /\ UNCHANGED <<log, checkpoint, applied, letters, dropped, worker, coordinator, epoch,
                       supervisor, faults>>
    BY <1>11 DEF vars
  <2> QED
    BY <2>1, QuietStep DEF ProjectionInv, TypeOK, SupervisorInv
<1> QED
  BY <1>1, <1>2, <1>3, <1>4, <1>5, <1>6, <1>7, <1>8, <1>9, <1>10, <1>11,
     PublishStep DEF Next, Connection

(* The tables, the actors, the epoch and the supervisor keep their types;  *)
(* in particular the supervisor never counts past MAX_ATTEMPTS.            *)
THEOREM ProjectionTypes == Spec => []TypeOK
PROOF
<1>1. ProjectionInv => TypeOK
  BY DEF ProjectionInv
<1> QED
  BY <1>1, ProjectionInvInit, ProjectionInvNext, PTL DEF Spec

(* Exactly-once in order: whatever is redelivered, restarted, crashed or   *)
(* lost, no event of a partition is committed twice or after a later one.  *)
THEOREM EffectsOnceInOrder == Spec => []AppliedOnceInOrder
PROOF
<1>1. ProjectionInv => AppliedOnceInOrder
  <2> SUFFICES ASSUME ProjectionInv, NEW p \in Partitions
               PROVE  \A j, k \in DOMAIN applied[p] : j < k => applied[p][j] < applied[p][k]
    BY DEF AppliedOnceInOrder
  <2>1. applied[p] \in Seq(Nat) /\ Increasing(applied[p])
    BY PartitionTypes DEF ProjectionInv, AppliedInv
  <2>2. DOMAIN applied[p] = 1..Len(applied[p])
    BY <2>1
  <2> QED
    BY <2>1, <2>2 DEF Increasing
<1> QED
  BY <1>1, ProjectionInvInit, ProjectionInvNext, PTL DEF Spec

(* The checkpoint row never claims more than was done: every event up to   *)
(* it is committed or dead-lettered, but for the two losses the code has   *)
(* (overtaken by an undecodable event, dropped with a transaction).        *)
THEOREM CheckpointHonesty == Spec => []CheckpointIsHonest
PROOF
<1>1. ProjectionInv => CheckpointIsHonest
  BY DEF ProjectionInv, CoveredInv, Covered, CheckpointIsHonest
<1> QED
  BY <1>1, ProjectionInvInit, ProjectionInvNext, PTL DEF Spec

-----------------------------------------------------------------------------
(***************************************************************************)
(* One entity of the catalogue.                                            *)
(*                                                                         *)
(* That a row which was sent back and has caught up shows what the events  *)
(* say is not inductive: in the middle of a replay the row shows a state   *)
(* the entity never had.  EntityRowInv says how far off it may be: each    *)
(* column, and each element of the tables that hang off the row, is as it  *)
(* was at some moment between the projector's position and the furthest it *)
(* has been.  An event the projector handles either sets it or leaves it   *)
(* as it was in the entity, so the moment may be taken one event later.    *)
(* Statements guarded by the version leave what they set at the furthest.  *)
(*                                                                         *)
(* For each kind there follow the events a state may emit (Legal), what    *)
(* else is true of its states (Sound), the type of its row and what the    *)
(* row of an entity that exists looks like (Alive).                        *)
(***************************************************************************)

(* Columns written whatever the version of the row. *)
Follows(F, r, c, n, u) == \A f \in F : \E k \in c..n : r[f] = u[k][f]

(* Columns written by guarded statements only. *)
Latest(F, r, n, u) == \A f \in F : r[f] = u[n][f]

(* Tables that hang off the row. *)
MembersFollow(F, r, c, n, u) ==
  \A f \in F : \A x : \E k \in c..n : x \in r[f] <=> x \in u[k][f]

NextVersion(s, e) == e.version = s.version + 1

CreatedOnce(s, blank) == IF s.version = 0 THEN s = blank ELSE s.created

-----------------------------------------------------------------------------
(* Seasons *)

LegalSeason(s, e) ==
  /\ NextVersion(s, e)
  /\ \/ e.type = "SeasonCreated" /\ s = Z!Blank /\ e.arg \in Texts
     \/ e.type = "SeasonRenamed" /\ s.version > 0 /\ e.arg \in Texts
     \/ e.type = "SeasonArchived" /\ s.version > 0

SoundSeason(s) == s \in Z!States /\ (s.version = 0 => s = Z!Blank)

SeasonRows == [present : BOOLEAN, archived : BOOLEAN, version : Nat, title : Texts \cup {"blank"}]

AliveSeason(r, c, n, u) == r.present /\ Follows({"archived", "version", "title"}, r, c, n, u)

-----------------------------------------------------------------------------
(* Episodes *)

LegalEpisode(s, e) ==
  /\ NextVersion(s, e) /\ ~s.deleted
  /\ \/ e.type = "EpisodeCreated" /\ s = E!Blank /\ e.arg \in Texts
     \/ e.type = "EpisodeRenamed" /\ s.created /\ e.arg \in Texts
     \/ e.type = "EpisodeDeleted" /\ s.created

SoundEpisode(s) == s \in E!States /\ CreatedOnce(s, E!Blank)

EpisodeRows == [present : BOOLEAN, version : Nat, name : Texts \cup {"blank"}]

AliveEpisode(r, c, n, u) == r.present /\ Follows({"version", "name"}, r, c, n, u)

-----------------------------------------------------------------------------
(* Blocks *)

LegalBlock(s, e) ==
  /\ NextVersion(s, e) /\ e.arg \in Texts
  /\ \/ e.type = "BlockCreated" /\ s = B!Blank
     \/ e.type = "BlockTimeSpanUpdated" /\ s.version > 0

SoundBlock(s) == s \in B!States /\ (s.version = 0 => s = B!Blank)

BlockRows == [present : BOOLEAN, version : Nat, span : Texts \cup {"none"}]

AliveBlock(r, c, n, u) == r.present /\ Follows({"version", "span"}, r, c, n, u)

-----------------------------------------------------------------------------
(* Categories *)

LegalCategory(s, e) ==
  /\ NextVersion(s, e)
  /\ \/ /\ e.type = "CostumeCategoryCreated" /\ s = K!Blank
        /\ e.arg.name \in Texts \cup {"blank"} /\ e.arg.order \in Texts
     \/ e.type = "CostumeCategoryRenamed" /\ s.version > 0 /\ e.arg \in Texts \cup {"blank"}
     \/ e.type = "CostumeCategoryReordered" /\ s.version > 0 /\ e.arg \in Texts
     \/ e.type = "CostumeCategoryArchived" /\ s.version > 0

SoundCategory(s) == s \in K!States /\ (s.version = 0 => s = K!Blank)

CategoryRows == [present : BOOLEAN, archived : BOOLEAN, version : Nat,
                 name : Texts \cup {"blank"}, order : Texts \cup {"blank"}]

AliveCategory(r, c, n, u) ==
  r.present /\ Follows({"archived", "version", "name", "order"}, r, c, n, u)

-----------------------------------------------------------------------------
(* Characters *)

LegalCharacter(s, e) ==
  /\ NextVersion(s, e) /\ ~s.deleted
  /\ \/ e.type = "CharacterCreated" /\ s = C!Blank /\ e.arg \in Texts \cup {"blank"}
     \/ /\ e.type \in {"MeasurementsUpdated", "ContactInfoUpdated", "CategoryChanged"}
        /\ s.created /\ e.arg \in Texts
     \/ e.type = "CharacterDeleted" /\ s.created

SoundCharacter(s) == s \in C!States /\ CreatedOnce(s, C!Blank)

CharacterRows == [present : BOOLEAN, version : Nat, category : Texts \cup {"blank"},
                  measurements : Texts \cup {"blank"}, contact : Texts \cup {"blank"}]

AliveCharacter(r, c, n, u) ==
  r.present /\ Follows({"version", "category", "measurements", "contact"}, r, c, n, u)

-----------------------------------------------------------------------------
(* Shooting days *)

LegalDay(s, e) ==
  /\ NextVersion(s, e) /\ ~s.deleted
  /\ \/ e.type = "created" /\ s = D!Blank
     \/ e.type \in {"edit", "archive", "wrap", "deleted"} /\ s.created

SoundDay(s) == s \in D!States /\ CreatedOnce(s, D!Blank)

DayRows == [present : BOOLEAN, archived : BOOLEAN, wrapped : BOOLEAN, version : Nat]

AliveDay(r, c, n, u) == r.present /\ Follows({"archived", "wrapped", "version"}, r, c, n, u)

-----------------------------------------------------------------------------
(* Credential bindings: every statement is guarded. *)

LegalSettings(s, e) ==
  /\ NextVersion(s, e)
  /\ \/ e.type = "CredentialBound" /\ s = T!Blank /\ e.arg \in T!Bindings
     \/ e.type = "CredentialRotated" /\ s.version > 0 /\ e.arg \in T!Bindings
     \/ e.type = "CredentialRevoked" /\ s.version > 0

SoundSettings(s) == s \in T!States /\ (s.version = 0 => s = T!Blank)

SettingsRows == [present : BOOLEAN, binding : T!Bindings \cup {T!NoBinding},
                 state : {"none", "active", "revoked"}, version : Nat]

AliveSettings(r, n, u) == r.present /\ Latest({"binding", "state", "version"}, r, n, u)

-----------------------------------------------------------------------------
(* AI configurations: every statement is guarded. *)

Configs == [A!Fields -> {b[f] : b \in Bodies \cup {A!Unset}, f \in A!Fields}]

LegalAiConfig(s, e) ==
  /\ NextVersion(s, e)
  /\ \/ e.type = "Created" /\ s = A!Blank /\ e.arg \in Configs
     \/ e.type = "Updated" /\ s.version > 0 /\ e.arg \in Configs
     \/ e.type = "Revoked" /\ s.version > 0

SoundAiConfig(s) == s \in A!States /\ (s.version = 0 => s = A!Blank)

AiConfigRows == [present : BOOLEAN, config : Configs, revoked : BOOLEAN, version : Nat]

AliveAiConfig(r, n, u) == r.present /\ Latest({"config", "revoked", "version"}, r, n, u)

-----------------------------------------------------------------------------
(* Scene shoots: every statement but the deletion is guarded. *)

LegalShoot(s, e) ==
  /\ NextVersion(s, e) /\ ~s.deleted
  /\ \/ e.type = "planned" /\ s = SH!Blank
     \/ e.type = "deleted" /\ s.created
     \/ /\ e.type \in SH!ShootOps /\ s.created /\ e.arg \in SH!Items(e.type)
        /\ s.shoot.status \notin SH!TerminalStatuses

SoundShoot(s) ==
  /\ s \in SH!States /\ CreatedOnce(s, SH!Blank)
  /\ ~s.deleted => s.shoot.version = s.version

ShootRows == [present : BOOLEAN, version : Nat, shoot : SH!ShootStates]

AliveShoot(r, n, u) == r.present /\ Latest({"version", "shoot"}, r, n, u)

-----------------------------------------------------------------------------
(* Pieces: guarded columns, unguarded tables. *)

LegalPiece(s, e) ==
  /\ NextVersion(s, e) /\ ~s.deleted
  /\ \/ /\ e.type = "PieceCreated" /\ s = P!Blank
        /\ e.arg.name \in Texts \cup {"blank"} /\ e.arg.category \in Categories \cup {"none"}
        /\ e.arg.seasons \in SUBSET Seasons
     \/ /\ s.created
        /\ \/ e.type = "PieceRenamed" /\ e.arg \in Texts \cup {"blank"}
           \/ e.type = "PieceNotesUpdated" /\ e.arg \in Texts
           \/ e.type = "PieceCategorySet" /\ e.arg \in Categories \cup {"none"}
           \/ e.type \in {"PieceAddedToSeason", "PieceRemovedFromSeason"} /\ e.arg \in Seasons
           \/ e.type \in {"PieceDetailAdded", "PieceDetailUpdated"} /\ e.arg \in P!Details
           \/ e.type = "PieceDetailRemoved" /\ e.arg \in DetailIds
           \/ e.type \in {"PiecePhotoLinked", "PiecePhotoUnlinked"} /\ e.arg \in Photos
           \/ e.type = "PieceDeleted"

SoundPiece(s) == s \in P!States /\ CreatedOnce(s, P!Blank)

PieceRows == [present : BOOLEAN, version : Nat, name : Texts \cup {"blank"},
              category : Categories \cup {"none"}, seasons : SUBSET Seasons,
              notes : Texts \cup {"blank"}, details : SUBSET P!Details, photos : SUBSET Photos]

AlivePiece(r, c, n, u) ==
  /\ r.present /\ Latest({"version", "name", "category", "notes"}, r, n, u)
  /\ MembersFollow({"seasons", "details", "photos"}, r, c, n, u)

-----------------------------------------------------------------------------
(* Outfits: as pieces are, with positions for a table. *)

Distinct(q) == \A i, j \in 1..Len(q) : q[i] = q[j] => i = j

HoldsPiece(q, x) == \E i \in 1..Len(q) : q[i] = x

LegalOutfit(s, e) ==
  /\ NextVersion(s, e) /\ ~s.deleted
  /\ \/ /\ e.type \in {"OutfitCreated", "OutfitVariantCreated"} /\ s = O!Blank
        /\ e.arg.name \in Texts \cup {"blank"} /\ e.arg.notes \in Texts \cup {"blank"}
        /\ e.arg.pieces \in Seq(Pieces) /\ Distinct(e.arg.pieces)
     \/ /\ s.created
        /\ \/ e.type = "OutfitRenamed" /\ e.arg \in Texts \cup {"blank"}
           \/ e.type = "OutfitNotesUpdated" /\ e.arg \in Texts
           \/ /\ e.type = "OutfitPieceAdded" /\ e.arg.piece \in Pieces
              /\ e.arg.position \in Nat /\ ~HoldsPiece(s.pieces, e.arg.piece)
           \/ e.type = "OutfitPieceRemoved" /\ e.arg \in Pieces /\ HoldsPiece(s.pieces, e.arg)
           \/ e.type \in {"OutfitPhotoLinked", "OutfitPhotoUnlinked"} /\ e.arg \in Photos
           \/ e.type = "OutfitDeleted"

Placed(s) == \A x \in Pieces : s.positions[x] # -1 => HoldsPiece(s.pieces, x)

SoundOutfit(s) == s \in O!States /\ CreatedOnce(s, O!Blank) /\ Distinct(s.pieces) /\ Placed(s)

OutfitRows == [present : BOOLEAN, version : Nat, name : Texts \cup {"blank"}, variant : BOOLEAN,
               positions : [Pieces -> Nat \cup {-1}], notes : Texts \cup {"blank"},
               photos : SUBSET Photos]

PiecesFollow(r, c, n, u) ==
  \A x \in Pieces : \E k \in c..n : r.positions[x] = u[k].positions[x]

AliveOutfit(r, c, n, u) ==
  /\ r.present /\ Latest({"version", "name", "variant", "notes"}, r, n, u)
  /\ MembersFollow({"photos"}, r, c, n, u) /\ PiecesFollow(r, c, n, u)

-----------------------------------------------------------------------------
(* Scenes: unguarded columns and tables, but beats are guarded by the       *)
(* version column, which the unguarded statements take back.                *)

BeatAt(beats, k, o) == {b \in beats : b.character = k /\ b.order = o}

LegalScene(s, e) ==
  /\ NextVersion(s, e) /\ ~s.deleted
  /\ \/ e.type = "SceneCreated" /\ s = S!Blank /\ e.arg \in Texts
     \/ /\ s.created
        /\ \/ e.type = "SceneDetailsUpdated" /\ e.arg \in Texts
           \/ e.type \in {"CharacterAssigned", "CharacterRemoved", "OutfitBeatsCleared"}
              /\ e.arg \in Characters
           \/ e.type \in {"ShootingDayScheduled", "ShootingDayUnscheduled"} /\ e.arg \in Days
           \/ /\ e.type = "OutfitBeatAdded" /\ e.arg \in S!Beats /\ e.arg.order <= s.version
              /\ BeatAt(s.beats, e.arg.character, e.arg.order) = {}
           \/ /\ e.type \in {"OutfitBeatUpdated", "OutfitBeatRemoved"} /\ e.arg \in S!Beats
              /\ BeatAt(s.beats, e.arg.character, e.arg.order) # {}
           \/ e.type = "SceneDeleted"

SoundScene(s) ==
  /\ s \in S!States /\ CreatedOnce(s, S!Blank)
  /\ \A b \in s.beats : b.order < s.version

SceneRows == [present : BOOLEAN, version : Nat, details : Texts \cup {"none"},
              characters : SUBSET Characters, days : SUBSET Days, beats : SUBSET S!Beats]

BeatsFollow(r, n, u) ==
  \A k \in Characters, o \in Nat : \E i \in r.version..n :
    BeatAt(r.beats, k, o) = BeatAt(u[i].beats, k, o)

AliveScene(r, c, n, u) ==
  /\ r.present /\ Follows({"version", "details"}, r, c, n, u)
  /\ MembersFollow({"characters", "days"}, r, c, n, u) /\ BeatsFollow(r, n, u)

-----------------------------------------------------------------------------
(* Members: no versions, and updates that miss a row do nothing. *)

LegalMembership(s, e) ==
  LET x == e.arg.user
  IN  /\ x \in Users
      /\ \/ e.type \in {"MemberInvited", "OwnerBootstrapped"} /\ s[x] = M!Absent
                                                              /\ e.arg.role \in Roles
         \/ e.type = "InvitationAccepted" /\ s[x].state = "pending" /\ e.arg.role = s[x].role
         \/ e.type = "RoleGranted" /\ s[x].state = "active" /\ e.arg.role \in Roles
         \/ e.type = "MemberRemoved" /\ s[x].state = "active"

AliveMembership(r, c, n, u) ==
  \A x \in Users : /\ \E k \in c..n : r[x].state = u[k][x].state
                   /\ \E k \in c..n : r[x].role = u[k][x].role

-----------------------------------------------------------------------------
(* Any kind *)

Legal(k, s, e) ==
  CASE k = "scene" -> LegalScene(s, e)            [] k = "piece" -> LegalPiece(s, e)
    [] k = "outfit" -> LegalOutfit(s, e)          [] k = "character" -> LegalCharacter(s, e)
    [] k = "season" -> LegalSeason(s, e)          [] k = "episode" -> LegalEpisode(s, e)
    [] k = "block" -> LegalBlock(s, e)            [] k = "category" -> LegalCategory(s, e)
    [] k = "settings" -> LegalSettings(s, e)      [] k = "ai_config" -> LegalAiConfig(s, e)
    [] k = "membership" -> LegalMembership(s, e)  [] k = "day" -> LegalDay(s, e)
    [] k = "shoot" -> LegalShoot(s, e)

(* What a command may emit: the second of two events in the state after the *)
(* first.                                                                   *)
Emitted(k, s, events) ==
  \/ events = << >>
  \/ \E e : events = <<e>> /\ Legal(k, s, e)
  \/ \E e, f : events = <<e, f>> /\ Legal(k, s, e) /\ Legal(k, Apply(k, s, e), f)

Sound(k, s) ==
  CASE k = "scene" -> SoundScene(s)               [] k = "piece" -> SoundPiece(s)
    [] k = "outfit" -> SoundOutfit(s)             [] k = "character" -> SoundCharacter(s)
    [] k = "season" -> SoundSeason(s)             [] k = "episode" -> SoundEpisode(s)
    [] k = "block" -> SoundBlock(s)               [] k = "category" -> SoundCategory(s)
    [] k = "settings" -> SoundSettings(s)         [] k = "ai_config" -> SoundAiConfig(s)
    [] k = "membership" -> s \in M!States         [] k = "day" -> SoundDay(s)
    [] k = "shoot" -> SoundShoot(s)

EntityRows(k) ==
  CASE k = "scene" -> SceneRows         [] k = "piece" -> PieceRows
    [] k = "outfit" -> OutfitRows       [] k = "character" -> CharacterRows
    [] k = "season" -> SeasonRows       [] k = "episode" -> EpisodeRows
    [] k = "block" -> BlockRows         [] k = "category" -> CategoryRows
    [] k = "settings" -> SettingsRows   [] k = "ai_config" -> AiConfigRows
    [] k = "membership" -> M!States     [] k = "day" -> DayRows
    [] k = "shoot" -> ShootRows

AliveRow(k, r, c, n, u) ==
  CASE k = "scene" -> AliveScene(r, c, n, u)      [] k = "piece" -> AlivePiece(r, c, n, u)
    [] k = "outfit" -> AliveOutfit(r, c, n, u)    [] k = "character" -> AliveCharacter(r, c, n, u)
    [] k = "season" -> AliveSeason(r, c, n, u)    [] k = "episode" -> AliveEpisode(r, c, n, u)
    [] k = "block" -> AliveBlock(r, c, n, u)      [] k = "category" -> AliveCategory(r, c, n, u)
    [] k = "settings" -> AliveSettings(r, n, u)   [] k = "ai_config" -> AliveAiConfig(r, n, u)
    [] k = "membership" -> AliveMembership(r, c, n, u)
    [] k = "day" -> AliveDay(r, c, n, u)          [] k = "shoot" -> AliveShoot(r, n, u)

Deletable == {"scene", "piece", "outfit", "character", "episode", "day", "shoot"}

Gone(k, s) == k \in Deletable /\ s.deleted

(* The row of an entity that is not there is none once the projector is at  *)
(* its furthest; before, anything of its type.                              *)
EntityRowInv(k, r, c, n, u) ==
  /\ r \in EntityRows(k) /\ (Versioned(k) => r.version <= n)
  /\ n = 0 \/ Gone(k, u[n]) => (c = n => r = NoRow(k))
  /\ n > 0 /\ ~Gone(k, u[n]) => AliveRow(k, r, c, n, u)

(* Every state of the history is sound and every event legal in the state   *)
(* it was emitted in.                                                       *)
History(k, q, u) ==
  /\ u[0] = Blank(k)
  /\ \A i \in 0..Len(q) : Sound(k, u[i]) /\ (Versioned(k) => u[i].version = i)
  /\ \A i \in 1..Len(q) : Legal(k, u[i - 1], q[i]) /\ u[i] = Apply(k, u[i - 1], q[i])

IsSequence(q) == \E Q : q \in Seq(Q)

PlaceInv ==
  /\ kind \in EntityKinds /\ cursor \in 0..high /\ high \in 0..Len(stream)
  /\ rewinds \in 0..MaxSteps[kind]

HistoryInv ==
  /\ IsSequence(stream) /\ entity = past[Len(stream)] /\ History(kind, stream, past)

(* What the client holds was true of the version it holds, and what it has  *)
(* sent is a request it could make.                                         *)
ClientInv ==
  /\ DOMAIN client = {"phase", "version", "seen", "whole", "cmd"}
  /\ client.phase \in {"idle", "sent"} /\ client.version \in 0..Len(stream)
  /\ Versioned(kind) /\ client.whole /\ client.version > 0
       => client.seen = View(kind, past[client.version])
  /\ client.phase = "sent" => /\ Versioned(kind) => client.version > 0
                              /\ \E r : client.cmd \in Requests(kind, r, client.version)

CatalogueInv ==
  PlaceInv /\ HistoryInv /\ ClientInv /\ EntityRowInv(kind, row, cursor, high, past)

-----------------------------------------------------------------------------
(* Steps of the projector and of its position. *)

LEMMA FollowsStep ==
  ASSUME NEW F, NEW r, NEW q, NEW u, NEW c \in Nat, NEW n \in Nat, NEW m \in Nat,
         c <= n, n <= m, c + 1 <= m, Follows(F, r, c, n, u),
         \A f \in F : q[f] = u[c + 1][f] \/ (q[f] = r[f] /\ u[c + 1][f] = u[c][f])
  PROVE  Follows(F, q, c + 1, m, u)
<1> SUFFICES ASSUME NEW f \in F
             PROVE  \E k \in (c + 1)..m : q[f] = u[k][f]
  BY DEF Follows
<1>1. PICK k \in c..n : r[f] = u[k][f]
  BY DEF Follows
<1>2. CASE q[f] = u[c + 1][f]
  BY <1>2
<1>3. CASE q[f] = r[f] /\ u[c + 1][f] = u[c][f] /\ k = c
  BY <1>1, <1>3
<1>4. CASE q[f] = r[f] /\ k # c
  <2>1. k \in (c + 1)..m
    BY <1>4
  <2> QED
    BY <1>1, <1>4, <2>1
<1> QED
  BY <1>2, <1>3, <1>4

LEMMA MembersStep ==
  ASSUME NEW F, NEW r, NEW q, NEW u, NEW c \in Nat, NEW n \in Nat, NEW m \in Nat,
         c <= n, n <= m, c + 1 <= m, MembersFollow(F, r, c, n, u),
         \A f \in F : \A x : \/ x \in q[f] <=> x \in u[c + 1][f]
                             \/ (x \in q[f] <=> x \in r[f]) /\ (x \in u[c + 1][f] <=> x \in u[c][f])
  PROVE  MembersFollow(F, q, c + 1, m, u)
<1> SUFFICES ASSUME NEW f \in F, NEW x
             PROVE  \E k \in (c + 1)..m : x \in q[f] <=> x \in u[k][f]
  BY DEF MembersFollow
<1>1. PICK k \in c..n : x \in r[f] <=> x \in u[k][f]
  BY DEF MembersFollow
<1>2. CASE x \in q[f] <=> x \in u[c + 1][f]
  BY <1>2
<1>3. CASE (x \in q[f] <=> x \in r[f]) /\ (x \in u[c + 1][f] <=> x \in u[c][f]) /\ k = c
  BY <1>1, <1>3
<1>4. CASE (x \in q[f] <=> x \in r[f]) /\ k # c
  <2>1. k \in (c + 1)..m
    BY <1>4
  <2> QED
    BY <1>1, <1>4, <2>1
<1> QED
  BY <1>2, <1>3, <1>4

LEMMA FollowsKept ==
  ASSUME NEW F, NEW r, NEW u, NEW w, NEW c \in Nat, NEW d \in 0..c, NEW n \in Nat,
         Follows(F, r, c, n, u), \A i \in 0..n : w[i] = u[i]
  PROVE  Follows(F, r, d, n, w)
<1> SUFFICES ASSUME NEW f \in F
             PROVE  \E k \in d..n : r[f] = w[k][f]
  BY DEF Follows
<1>1. PICK k \in c..n : r[f] = u[k][f]
  BY DEF Follows
<1>2. k \in d..n /\ k \in 0..n
  BY <1>1
<1> QED
  BY <1>1, <1>2

LEMMA MembersKept ==
  ASSUME NEW F, NEW r, NEW u, NEW w, NEW c \in Nat, NEW d \in 0..c, NEW n \in Nat,
         MembersFollow(F, r, c, n, u), \A i \in 0..n : w[i] = u[i]
  PROVE  MembersFollow(F, r, d, n, w)
<1> SUFFICES ASSUME NEW f \in F, NEW x
             PROVE  \E k \in d..n : x \in r[f] <=> x \in w[k][f]
  BY DEF MembersFollow
<1>1. PICK k \in c..n : x \in r[f] <=> x \in u[k][f]
  BY DEF MembersFollow
<1>2. k \in d..n /\ k \in 0..n
  BY <1>1
<1> QED
  BY <1>1, <1>2

LEMMA LatestKept ==
  ASSUME NEW F, NEW r, NEW u, NEW w, NEW n \in Nat,
         Latest(F, r, n, u), \A i \in 0..n : w[i] = u[i]
  PROVE  Latest(F, r, n, w)
BY DEF Latest

LEMMA FollowsAt ==
  ASSUME NEW F, NEW r, NEW u, NEW n \in Nat
  PROVE  /\ Follows(F, r, n, n, u) <=> \A f \in F : r[f] = u[n][f]
         /\ MembersFollow(F, r, n, n, u) <=> \A f \in F : \A x : x \in r[f] <=> x \in u[n][f]
<1>1. \A k \in n..n : k = n
  OBVIOUS
<1>2. n \in n..n
  OBVIOUS
<1>3. Follows(F, r, n, n, u) <=> \A f \in F : r[f] = u[n][f]
  BY <1>1, <1>2, Zenon DEF Follows
<1>4. MembersFollow(F, r, n, n, u) <=> \A f \in F : \A x : x \in r[f] <=> x \in u[n][f]
  BY <1>1, <1>2, Zenon DEF MembersFollow
<1> QED
  BY <1>3, <1>4

-----------------------------------------------------------------------------
(* Seasons *)

LEMMA SeasonApplies ==
  ASSUME NEW s, NEW e, SoundSeason(s), LegalSeason(s, e)
  PROVE  SoundSeason(Z!Apply(s, e)) /\ Z!Apply(s, e).version = s.version + 1
<1>1. s.version \in Nat /\ e.version \in Nat
  BY DEF SoundSeason, LegalSeason, NextVersion, Z!States
<1>2. /\ Z!Apply(s, e) \in Z!States /\ Z!Apply(s, e).version = s.version + 1
  BY <1>1 DEF SoundSeason, LegalSeason, NextVersion, Z!States, Z!Apply
<1> QED
  BY <1>1, <1>2 DEF SoundSeason

LEMMA SeasonHandles ==
  ASSUME NEW s, SoundSeason(s), NEW r, NEW v \in Nat, NEW c \in Z!Requests(r, v) \cup Z!Deletions,
         Z!Expected(c, s.version)
  PROVE  /\ \/ Z!Handle(s, c).events = << >>
            \/ \E e : Z!Handle(s, c).events = <<e>> /\ LegalSeason(s, e)
         /\ Z!Expected(c, 0) \/ v = s.version
<1>1. s.version \in Nat
  BY DEF SoundSeason, Z!States
<1>2. Z!Expected(c, 0) \/ v = s.version
  BY <1>1 DEF Z!Requests, Z!CreateSeasonRequests, Z!RenameSeasonRequests, Z!ArchiveSeasonRequests,
      Z!Deletions, Z!Expected, Z!ExpectAny, Z!ExpectEmpty, Z!ExpectExact, Z!Found, Z!Cmd
<1>3. \/ Z!Handle(s, c).events = << >>
      \/ Z!Handle(s, c).events = <<Z!Handle(s, c).events[1]>>
          /\ LegalSeason(s, Z!Handle(s, c).events[1])
  BY <1>1 DEF SoundSeason, LegalSeason, NextVersion, Z!States, Z!Blank, Z!Requests,
      Z!CreateSeasonRequests, Z!RenameSeasonRequests, Z!ArchiveSeasonRequests, Z!Deletions,
      Z!Expected, Z!ExpectAny, Z!ExpectEmpty, Z!ExpectExact, Z!Found, Z!Cmd, Z!Handle,
      Z!CreateSeason, Z!RenameSeason, Z!ArchiveSeason, Z!Given, Z!Created, Z!Emit, Z!Event,
      Z!Accept, Z!Reject, Z!NoOp, Z!Fresh, Z!Delete
<1> QED
  BY <1>2, <1>3

LEMMA SeasonProjects ==
  ASSUME NEW s, NEW e, NEW r \in SeasonRows, SoundSeason(s), LegalSeason(s, e)
  PROVE  Z!Project(r, e) \in SeasonRows /\ Z!Project(r, e).version \in {r.version, e.version, 0}
<1>1. s.version \in Nat /\ e.version \in Nat
  BY DEF SoundSeason, LegalSeason, NextVersion, Z!States
<1> QED
  BY <1>1 DEF SeasonRows, LegalSeason, Z!NoRow, Z!Project, Z!ProjectCreated, Z!Touch, Z!IfPresent

LEMMA SeasonAgrees ==
  ASSUME NEW s, NEW e, NEW r \in SeasonRows, SoundSeason(s), LegalSeason(s, e),
         r.present \/ s = Z!Blank
  PROVE  /\ Z!Project(r, e).present
         /\ \A f \in {"archived", "version", "title"} :
              \/ Z!Project(r, e)[f] = Z!Apply(s, e)[f]
              \/ Z!Project(r, e)[f] = r[f] /\ Z!Apply(s, e)[f] = s[f]
<1>1. s.version \in Nat /\ e.version \in Nat
  BY DEF SoundSeason, LegalSeason, NextVersion, Z!States
<1>2. s = Z!Blank => ~s.archived /\ s.version = 0 /\ s.title = "blank"
  BY DEF Z!Blank
<1>3. e.type # "SeasonCreated" => r.present
  BY <1>1, <1>2 DEF LegalSeason
<1> QED
  BY <1>1, <1>2, <1>3 DEF SeasonRows, SoundSeason, LegalSeason, Z!States, Z!Apply, Z!NoRow,
      Z!Project, Z!ProjectCreated, Z!Touch, Z!IfPresent

LEMMA SeasonBegins ==
  /\ SoundSeason(Z!Blank) /\ Z!Blank.version = 0
  /\ Z!NoRow \in SeasonRows /\ Z!NoRow.version = 0 /\ Z!View(Z!Blank) = Z!NoRow
  /\ \A f \in {"archived", "version", "title"} : Z!NoRow[f] = Z!Blank[f]
BY DEF SoundSeason, SeasonRows, Z!States, Z!Blank, Z!NoRow, Z!View

LEMMA SeasonShows ==
  ASSUME NEW s, NEW r \in SeasonRows, SoundSeason(s), r.present, s.version > 0,
         \A f \in {"archived", "version", "title"} : r[f] = s[f]
  PROVE  r = Z!View(s)
BY DEF SeasonRows, SoundSeason, Z!States, Z!View

LEMMA SeasonViews ==
  ASSUME NEW s, SoundSeason(s)
  PROVE  /\ Z!View(s).version \in {0, s.version}
BY DEF Z!View, Z!NoRow

LEMMA SeasonFollows ==
  ASSUME NEW e, NEW r \in SeasonRows, NEW u, NEW c \in Nat, NEW n \in Nat, NEW m \in Nat,
         c <= n, n <= m, c + 1 <= m, SoundSeason(u[c]), LegalSeason(u[c], e),
         u[c + 1] = Z!Apply(u[c], e), AliveSeason(r, c, n, u)
  PROVE  AliveSeason(Z!Project(r, e), c + 1, m, u)
<1> DEFINE q == Z!Project(r, e)
<1>1. /\ q.present
      /\ \A f \in {"archived", "version", "title"} :
           q[f] = u[c + 1][f] \/ (q[f] = r[f] /\ u[c + 1][f] = u[c][f])
  BY SeasonAgrees DEF AliveSeason
<1> HIDE DEF q
<1>2. Follows({"archived", "version", "title"}, q, c + 1, m, u)
  BY <1>1, FollowsStep DEF AliveSeason
<1> QED
  BY <1>1, <1>2 DEF AliveSeason, q

LEMMA SeasonStarts ==
  ASSUME NEW e, NEW u, LegalSeason(Z!Blank, e), u[1] = Z!Apply(Z!Blank, e)
  PROVE  AliveSeason(Z!Project(Z!NoRow, e), 1, 1, u)
<1>1. /\ Z!Project(Z!NoRow, e).present
      /\ \A f \in {"archived", "version", "title"} : Z!Project(Z!NoRow, e)[f] = u[1][f]
  BY SeasonAgrees, SeasonBegins
<1> QED
  BY <1>1, FollowsAt DEF AliveSeason

LEMMA SeasonCaught ==
  ASSUME NEW r \in SeasonRows, NEW u, NEW n \in Nat, SoundSeason(u[n]), u[n].version > 0,
         AliveSeason(r, n, n, u)
  PROVE  r = Z!View(u[n])
BY SeasonShows, FollowsAt DEF AliveSeason

-----------------------------------------------------------------------------
(* Episodes *)

LEMMA EpisodeApplies ==
  ASSUME NEW s, NEW e, SoundEpisode(s), LegalEpisode(s, e)
  PROVE  SoundEpisode(E!Apply(s, e)) /\ E!Apply(s, e).version = s.version + 1
<1>1. s.version \in Nat /\ e.version \in Nat
  BY DEF SoundEpisode, LegalEpisode, NextVersion, E!States
<1>2. /\ E!Apply(s, e) \in E!States /\ E!Apply(s, e).version = s.version + 1
      /\ E!Apply(s, e).created
  BY <1>1 DEF SoundEpisode, LegalEpisode, NextVersion, CreatedOnce, E!States, E!Apply
<1> QED
  BY <1>1, <1>2 DEF SoundEpisode, CreatedOnce

LEMMA EpisodeHandles ==
  ASSUME NEW s, SoundEpisode(s), NEW r, NEW v \in Nat, NEW c \in E!Requests(r, v) \cup E!Deletions,
         E!Expected(c, s.version)
  PROVE  /\ \/ E!Handle(s, c).events = << >>
            \/ \E e : E!Handle(s, c).events = <<e>> /\ LegalEpisode(s, e)
         /\ E!Expected(c, 0) \/ v = s.version
<1>1. s.version \in Nat
  BY DEF SoundEpisode, E!States
<1>2. E!Expected(c, 0) \/ v = s.version
  BY <1>1 DEF E!Requests, E!CreateEpisodeRequests, E!RenameEpisodeRequests, E!Deletions,
      E!Expected, E!ExpectAny, E!ExpectEmpty, E!ExpectExact, E!Found, E!Cmd
<1>3. \/ E!Handle(s, c).events = << >>
      \/ E!Handle(s, c).events = <<E!Handle(s, c).events[1]>>
          /\ LegalEpisode(s, E!Handle(s, c).events[1])
  BY <1>1 DEF SoundEpisode, LegalEpisode, NextVersion, CreatedOnce, E!States, E!Blank, E!Requests,
      E!CreateEpisodeRequests, E!RenameEpisodeRequests, E!Deletions, E!Expected, E!ExpectAny,
      E!ExpectEmpty, E!ExpectExact, E!Found, E!Cmd, E!Handle, E!CreateEpisode, E!RenameEpisode,
      E!DeleteEpisode, E!Given, E!Created, E!Emit, E!Event, E!Accept, E!Reject, E!NoOp, E!Fresh,
      E!Delete
<1> QED
  BY <1>2, <1>3

LEMMA EpisodeProjects ==
  ASSUME NEW s, NEW e, NEW r \in EpisodeRows, SoundEpisode(s), LegalEpisode(s, e)
  PROVE  E!Project(r, e) \in EpisodeRows /\ E!Project(r, e).version \in {r.version, e.version, 0}
<1>1. s.version \in Nat /\ e.version \in Nat
  BY DEF SoundEpisode, LegalEpisode, NextVersion, E!States
<1> QED
  BY <1>1 DEF EpisodeRows, LegalEpisode, E!NoRow, E!Project, E!Touch, E!IfPresent

LEMMA EpisodeAgrees ==
  ASSUME NEW s, NEW e, NEW r \in EpisodeRows, SoundEpisode(s), LegalEpisode(s, e),
         r.present \/ s = E!Blank, ~E!Apply(s, e).deleted
  PROVE  /\ E!Project(r, e).present
         /\ \A f \in {"version", "name"} :
              \/ E!Project(r, e)[f] = E!Apply(s, e)[f]
              \/ E!Project(r, e)[f] = r[f] /\ E!Apply(s, e)[f] = s[f]
<1>1. s.version \in Nat /\ e.version \in Nat
  BY DEF SoundEpisode, LegalEpisode, NextVersion, E!States
<1>2. s = E!Blank => ~s.deleted /\ ~s.created /\ s.version = 0 /\ s.name = "blank"
  BY DEF E!Blank
<1> QED
  BY <1>1, <1>2 DEF EpisodeRows, SoundEpisode, LegalEpisode, CreatedOnce, E!States, E!Apply,
      E!NoRow, E!Project, E!Touch, E!IfPresent

LEMMA EpisodeBegins ==
  /\ SoundEpisode(E!Blank) /\ E!Blank.version = 0
  /\ E!NoRow \in EpisodeRows /\ E!NoRow.version = 0 /\ E!View(E!Blank) = E!NoRow
  /\ \A f \in {"version", "name"} : E!NoRow[f] = E!Blank[f]
BY DEF SoundEpisode, EpisodeRows, CreatedOnce, E!States, E!Blank, E!NoRow, E!View

LEMMA EpisodeShows ==
  ASSUME NEW s, NEW r \in EpisodeRows, SoundEpisode(s), r.present, s.version > 0, ~s.deleted,
         \A f \in {"version", "name"} : r[f] = s[f]
  PROVE  r = E!View(s)
BY DEF EpisodeRows, SoundEpisode, CreatedOnce, E!States, E!View

LEMMA EpisodeEnds ==
  ASSUME NEW s, NEW e, NEW r, SoundEpisode(s), LegalEpisode(s, e)
  PROVE  /\ ~s.deleted
         /\ E!Apply(s, e).deleted => s # E!Blank /\ E!Project(r, e) = E!NoRow
BY DEF SoundEpisode, LegalEpisode, E!States, E!Blank, E!Apply, E!NoRow, E!Project

LEMMA EpisodeViews ==
  ASSUME NEW s, SoundEpisode(s)
  PROVE  /\ E!View(s).version \in {0, s.version}
         /\ s.deleted => E!View(s) = E!NoRow
BY DEF E!View, E!NoRow

LEMMA EpisodeFollows ==
  ASSUME NEW e, NEW r \in EpisodeRows, NEW u, NEW c \in Nat, NEW n \in Nat, NEW m \in Nat,
         c <= n, n <= m, c + 1 <= m, SoundEpisode(u[c]), LegalEpisode(u[c], e),
         u[c + 1] = E!Apply(u[c], e), ~u[c + 1].deleted, AliveEpisode(r, c, n, u)
  PROVE  AliveEpisode(E!Project(r, e), c + 1, m, u)
<1> DEFINE q == E!Project(r, e)
<1>1. /\ q.present
      /\ \A f \in {"version", "name"} :
           q[f] = u[c + 1][f] \/ (q[f] = r[f] /\ u[c + 1][f] = u[c][f])
  BY EpisodeAgrees DEF AliveEpisode
<1> HIDE DEF q
<1>2. Follows({"version", "name"}, q, c + 1, m, u)
  BY <1>1, FollowsStep DEF AliveEpisode
<1> QED
  BY <1>1, <1>2 DEF AliveEpisode, q

LEMMA EpisodeStarts ==
  ASSUME NEW e, NEW u, LegalEpisode(E!Blank, e), u[1] = E!Apply(E!Blank, e)
  PROVE  AliveEpisode(E!Project(E!NoRow, e), 1, 1, u)
<1>1. /\ E!Project(E!NoRow, e).present
      /\ \A f \in {"version", "name"} : E!Project(E!NoRow, e)[f] = u[1][f]
  BY EpisodeAgrees, EpisodeBegins, EpisodeEnds
<1> QED
  BY <1>1, FollowsAt DEF AliveEpisode

LEMMA EpisodeCaught ==
  ASSUME NEW r \in EpisodeRows, NEW u, NEW n \in Nat, SoundEpisode(u[n]), u[n].version > 0,
         ~u[n].deleted,
         AliveEpisode(r, n, n, u)
  PROVE  r = E!View(u[n])
BY EpisodeShows, FollowsAt DEF AliveEpisode

-----------------------------------------------------------------------------
(* Blocks *)

LEMMA BlockApplies ==
  ASSUME NEW s, NEW e, SoundBlock(s), LegalBlock(s, e)
  PROVE  SoundBlock(B!Apply(s, e)) /\ B!Apply(s, e).version = s.version + 1
<1>1. s.version \in Nat /\ e.version \in Nat
  BY DEF SoundBlock, LegalBlock, NextVersion, B!States
<1>2. /\ B!Apply(s, e) \in B!States /\ B!Apply(s, e).version = s.version + 1
  BY <1>1 DEF SoundBlock, LegalBlock, NextVersion, B!States, B!Apply
<1> QED
  BY <1>1, <1>2 DEF SoundBlock

LEMMA BlockHandles ==
  ASSUME NEW s, SoundBlock(s), NEW r, NEW v \in Nat, NEW c \in B!Requests(r, v) \cup B!Deletions,
         B!Expected(c, s.version)
  PROVE  /\ \/ B!Handle(s, c).events = << >>
            \/ \E e : B!Handle(s, c).events = <<e>> /\ LegalBlock(s, e)
         /\ B!Expected(c, 0) \/ v = s.version
<1>1. s.version \in Nat
  BY DEF SoundBlock, B!States
<1>2. B!Expected(c, 0) \/ v = s.version
  BY <1>1 DEF B!Requests, B!CreateBlockRequests, B!UpdateTimeSpanRequests, B!Deletions,
      B!Expected, B!ExpectAny, B!ExpectEmpty, B!ExpectExact, B!Found, B!Cmd
<1>3. \/ B!Handle(s, c).events = << >>
      \/ B!Handle(s, c).events = <<B!Handle(s, c).events[1]>>
          /\ LegalBlock(s, B!Handle(s, c).events[1])
  BY <1>1 DEF SoundBlock, LegalBlock, NextVersion, B!States, B!Blank, B!Requests,
      B!CreateBlockRequests, B!UpdateTimeSpanRequests, B!Deletions, B!Expected, B!ExpectAny,
      B!ExpectEmpty, B!ExpectExact, B!Found, B!Cmd, B!Handle, B!CreateBlock,
      B!UpdateBlockTimeSpan, B!Given, B!Created, B!Emit, B!Event, B!Accept, B!Reject, B!NoOp,
      B!Fresh, B!Delete
<1> QED
  BY <1>2, <1>3

LEMMA BlockProjects ==
  ASSUME NEW s, NEW e, NEW r \in BlockRows, SoundBlock(s), LegalBlock(s, e)
  PROVE  B!Project(r, e) \in BlockRows /\ B!Project(r, e).version \in {r.version, e.version, 0}
<1>1. s.version \in Nat /\ e.version \in Nat
  BY DEF SoundBlock, LegalBlock, NextVersion, B!States
<1> QED
  BY <1>1 DEF BlockRows, LegalBlock, B!NoRow, B!Project, B!Touch, B!IfPresent

LEMMA BlockAgrees ==
  ASSUME NEW s, NEW e, NEW r \in BlockRows, SoundBlock(s), LegalBlock(s, e),
         r.present \/ s = B!Blank
  PROVE  /\ B!Project(r, e).present
         /\ \A f \in {"version", "span"} :
              \/ B!Project(r, e)[f] = B!Apply(s, e)[f]
              \/ B!Project(r, e)[f] = r[f] /\ B!Apply(s, e)[f] = s[f]
<1>1. s.version \in Nat /\ e.version \in Nat
  BY DEF SoundBlock, LegalBlock, NextVersion, B!States
<1>2. s = B!Blank => s.version = 0 /\ s.span = "none"
  BY DEF B!Blank
<1>3. e.type # "BlockCreated" => r.present
  BY <1>1, <1>2 DEF LegalBlock
<1> QED
  BY <1>1, <1>2, <1>3 DEF BlockRows, SoundBlock, LegalBlock, B!States, B!Apply, B!NoRow,
      B!Project, B!Touch, B!IfPresent

LEMMA BlockBegins ==
  /\ SoundBlock(B!Blank) /\ B!Blank.version = 0
  /\ B!NoRow \in BlockRows /\ B!NoRow.version = 0 /\ B!View(B!Blank) = B!NoRow
  /\ \A f \in {"version", "span"} : B!NoRow[f] = B!Blank[f]
BY DEF SoundBlock, BlockRows, B!States, B!Blank, B!NoRow, B!View

LEMMA BlockShows ==
  ASSUME NEW s, NEW r \in BlockRows, SoundBlock(s), r.present, s.version > 0,
         \A f \in {"version", "span"} : r[f] = s[f]
  PROVE  r = B!View(s)
BY DEF BlockRows, SoundBlock, B!States, B!View

LEMMA BlockViews ==
  ASSUME NEW s, SoundBlock(s)
  PROVE  /\ B!View(s).version \in {0, s.version}
BY DEF B!View, B!NoRow

LEMMA BlockFollows ==
  ASSUME NEW e, NEW r \in BlockRows, NEW u, NEW c \in Nat, NEW n \in Nat, NEW m \in Nat,
         c <= n, n <= m, c + 1 <= m, SoundBlock(u[c]), LegalBlock(u[c], e),
         u[c + 1] = B!Apply(u[c], e), AliveBlock(r, c, n, u)
  PROVE  AliveBlock(B!Project(r, e), c + 1, m, u)
<1> DEFINE q == B!Project(r, e)
<1>1. /\ q.present
      /\ \A f \in {"version", "span"} :
           q[f] = u[c + 1][f] \/ (q[f] = r[f] /\ u[c + 1][f] = u[c][f])
  BY BlockAgrees DEF AliveBlock
<1> HIDE DEF q
<1>2. Follows({"version", "span"}, q, c + 1, m, u)
  BY <1>1, FollowsStep DEF AliveBlock
<1> QED
  BY <1>1, <1>2 DEF AliveBlock, q

LEMMA BlockStarts ==
  ASSUME NEW e, NEW u, LegalBlock(B!Blank, e), u[1] = B!Apply(B!Blank, e)
  PROVE  AliveBlock(B!Project(B!NoRow, e), 1, 1, u)
<1>1. /\ B!Project(B!NoRow, e).present
      /\ \A f \in {"version", "span"} : B!Project(B!NoRow, e)[f] = u[1][f]
  BY BlockAgrees, BlockBegins
<1> QED
  BY <1>1, FollowsAt DEF AliveBlock

LEMMA BlockCaught ==
  ASSUME NEW r \in BlockRows, NEW u, NEW n \in Nat, SoundBlock(u[n]), u[n].version > 0,
         AliveBlock(r, n, n, u)
  PROVE  r = B!View(u[n])
BY BlockShows, FollowsAt DEF AliveBlock

-----------------------------------------------------------------------------
(* Categories *)

LEMMA CategoryApplies ==
  ASSUME NEW s, NEW e, SoundCategory(s), LegalCategory(s, e)
  PROVE  SoundCategory(K!Apply(s, e)) /\ K!Apply(s, e).version = s.version + 1
<1>1. s.version \in Nat /\ e.version \in Nat
  BY DEF SoundCategory, LegalCategory, NextVersion, K!States
<1>2. /\ K!Apply(s, e) \in K!States /\ K!Apply(s, e).version = s.version + 1
  BY <1>1 DEF SoundCategory, LegalCategory, NextVersion, K!States, K!Apply
<1> QED
  BY <1>1, <1>2 DEF SoundCategory

LEMMA CategoryHandles ==
  ASSUME NEW s, SoundCategory(s), NEW r, NEW v \in Nat, NEW c \in K!Requests(r, v) \cup K!Deletions,
         K!Expected(c, s.version)
  PROVE  /\ \/ K!Handle(s, c).events = << >>
            \/ \E e : K!Handle(s, c).events = <<e>> /\ LegalCategory(s, e)
         /\ K!Expected(c, 0) \/ v = s.version
<1>1. s.version \in Nat
  BY DEF SoundCategory, K!States
<1>2. K!Expected(c, 0) \/ v = s.version
  BY <1>1 DEF K!Requests, K!CreateCategoryRequests, K!RenameCategoryRequests,
      K!ReorderCategoryRequests, K!ArchiveCategoryRequests, K!Deletions, K!Expected, K!ExpectAny,
      K!ExpectEmpty, K!ExpectExact, K!Found, K!Cmd
<1>3. \/ K!Handle(s, c).events = << >>
      \/ K!Handle(s, c).events = <<K!Handle(s, c).events[1]>>
          /\ LegalCategory(s, K!Handle(s, c).events[1])
  BY <1>1 DEF SoundCategory, LegalCategory, NextVersion, K!States, K!Blank, K!Requests,
      K!CreateCategoryRequests, K!RenameCategoryRequests, K!ReorderCategoryRequests,
      K!ArchiveCategoryRequests, K!Deletions, K!Expected, K!ExpectAny, K!ExpectEmpty,
      K!ExpectExact, K!Found, K!Cmd, K!Handle, K!CreateCostumeCategory, K!RenameCostumeCategory,
      K!ReorderCostumeCategory, K!ArchiveCostumeCategory, K!Given, K!Created, K!Emit, K!Event,
      K!Accept, K!Reject, K!NoOp, K!Fresh, K!Delete
<1> QED
  BY <1>2, <1>3

LEMMA CategoryProjects ==
  ASSUME NEW s, NEW e, NEW r \in CategoryRows, SoundCategory(s), LegalCategory(s, e)
  PROVE  K!Project(r, e) \in CategoryRows /\ K!Project(r, e).version \in {r.version, e.version, 0}
<1>1. s.version \in Nat /\ e.version \in Nat
  BY DEF SoundCategory, LegalCategory, NextVersion, K!States
<1> QED
  BY <1>1 DEF CategoryRows, LegalCategory, K!NoRow, K!Project, K!ProjectCreated, K!Touch,
      K!IfPresent

LEMMA CategoryAgrees ==
  ASSUME NEW s, NEW e, NEW r \in CategoryRows, SoundCategory(s), LegalCategory(s, e),
         r.present \/ s = K!Blank
  PROVE  /\ K!Project(r, e).present
         /\ \A f \in {"archived", "version", "name", "order"} :
              \/ K!Project(r, e)[f] = K!Apply(s, e)[f]
              \/ K!Project(r, e)[f] = r[f] /\ K!Apply(s, e)[f] = s[f]
<1>1. s.version \in Nat /\ e.version \in Nat
  BY DEF SoundCategory, LegalCategory, NextVersion, K!States
<1>2. s = K!Blank => ~s.archived /\ s.version = 0 /\ s.name = "blank" /\ s.order = "blank"
  BY DEF K!Blank
<1>3. e.type # "CostumeCategoryCreated" => r.present
  BY <1>1, <1>2 DEF LegalCategory
<1> QED
  BY <1>1, <1>2, <1>3 DEF CategoryRows, SoundCategory, LegalCategory, K!States, K!Apply, K!NoRow,
      K!Project, K!ProjectCreated, K!Touch, K!IfPresent

LEMMA CategoryBegins ==
  /\ SoundCategory(K!Blank) /\ K!Blank.version = 0
  /\ K!NoRow \in CategoryRows /\ K!NoRow.version = 0 /\ K!View(K!Blank) = K!NoRow
  /\ \A f \in {"archived", "version", "name", "order"} : K!NoRow[f] = K!Blank[f]
BY DEF SoundCategory, CategoryRows, K!States, K!Blank, K!NoRow, K!View

LEMMA CategoryShows ==
  ASSUME NEW s, NEW r \in CategoryRows, SoundCategory(s), r.present, s.version > 0,
         \A f \in {"archived", "version", "name", "order"} : r[f] = s[f]
  PROVE  r = K!View(s)
BY DEF CategoryRows, SoundCategory, K!States, K!View

LEMMA CategoryViews ==
  ASSUME NEW s, SoundCategory(s)
  PROVE  /\ K!View(s).version \in {0, s.version}
BY DEF K!View, K!NoRow

LEMMA CategoryFollows ==
  ASSUME NEW e, NEW r \in CategoryRows, NEW u, NEW c \in Nat, NEW n \in Nat, NEW m \in Nat,
         c <= n, n <= m, c + 1 <= m, SoundCategory(u[c]), LegalCategory(u[c], e),
         u[c + 1] = K!Apply(u[c], e), AliveCategory(r, c, n, u)
  PROVE  AliveCategory(K!Project(r, e), c + 1, m, u)
<1> DEFINE q == K!Project(r, e)
<1>1. /\ q.present
      /\ \A f \in {"archived", "version", "name", "order"} :
           q[f] = u[c + 1][f] \/ (q[f] = r[f] /\ u[c + 1][f] = u[c][f])
  BY CategoryAgrees DEF AliveCategory
<1> HIDE DEF q
<1>2. Follows({"archived", "version", "name", "order"}, q, c + 1, m, u)
  BY <1>1, FollowsStep DEF AliveCategory
<1> QED
  BY <1>1, <1>2 DEF AliveCategory, q

LEMMA CategoryStarts ==
  ASSUME NEW e, NEW u, LegalCategory(K!Blank, e), u[1] = K!Apply(K!Blank, e)
  PROVE  AliveCategory(K!Project(K!NoRow, e), 1, 1, u)
<1>1. /\ K!Project(K!NoRow, e).present
      /\ \A f \in {"archived", "version", "name", "order"} : K!Project(K!NoRow, e)[f] = u[1][f]
  BY CategoryAgrees, CategoryBegins
<1> QED
  BY <1>1, FollowsAt DEF AliveCategory

LEMMA CategoryCaught ==
  ASSUME NEW r \in CategoryRows, NEW u, NEW n \in Nat, SoundCategory(u[n]), u[n].version > 0,
         AliveCategory(r, n, n, u)
  PROVE  r = K!View(u[n])
BY CategoryShows, FollowsAt DEF AliveCategory

-----------------------------------------------------------------------------
(* Characters *)

LEMMA CharacterApplies ==
  ASSUME NEW s, NEW e, SoundCharacter(s), LegalCharacter(s, e)
  PROVE  SoundCharacter(C!Apply(s, e)) /\ C!Apply(s, e).version = s.version + 1
<1>1. s.version \in Nat /\ e.version \in Nat
  BY DEF SoundCharacter, LegalCharacter, NextVersion, C!States
<1>2. /\ C!Apply(s, e) \in C!States /\ C!Apply(s, e).version = s.version + 1
      /\ C!Apply(s, e).created
  BY <1>1 DEF SoundCharacter, LegalCharacter, NextVersion, CreatedOnce, C!States, C!Apply
<1> QED
  BY <1>1, <1>2 DEF SoundCharacter, CreatedOnce

LEMMA CharacterHandles ==
  ASSUME NEW s, SoundCharacter(s), NEW r, NEW v \in Nat,
         NEW c \in C!Requests(r, v) \cup C!Deletions,
         C!Expected(c, s.version)
  PROVE  /\ \/ C!Handle(s, c).events = << >>
            \/ \E e : C!Handle(s, c).events = <<e>> /\ LegalCharacter(s, e)
         /\ C!Expected(c, 0) \/ v = s.version
<1>1. s.version \in Nat
  BY DEF SoundCharacter, C!States
<1>2. C!Expected(c, 0) \/ v = s.version
  BY <1>1 DEF C!Requests, C!CreateRequests, C!MeasurementsRequests, C!ContactRequests,
      C!CategoryRequests, C!Deletions, C!Expected, C!ExpectAny, C!ExpectEmpty, C!ExpectExact,
      C!Found, C!Cmd
<1>3. \/ C!Handle(s, c).events = << >>
      \/ C!Handle(s, c).events = <<C!Handle(s, c).events[1]>>
          /\ LegalCharacter(s, C!Handle(s, c).events[1])
  BY <1>1 DEF SoundCharacter, LegalCharacter, NextVersion, CreatedOnce, C!States, C!Blank,
      C!Requests, C!CreateRequests, C!MeasurementsRequests, C!ContactRequests, C!CategoryRequests,
      C!Deletions, C!Expected, C!ExpectAny, C!ExpectEmpty, C!ExpectExact, C!Found, C!Cmd,
      C!Handle, C!CreateCharacter, C!UpdateMeasurements, C!UpdateContactInfo,
      C!UpdateCharacterCategory, C!Given, C!Created, C!Emit, C!Event, C!Accept, C!Reject, C!NoOp,
      C!Fresh, C!Delete
<1> QED
  BY <1>2, <1>3

LEMMA CharacterProjects ==
  ASSUME NEW s, NEW e, NEW r \in CharacterRows, SoundCharacter(s), LegalCharacter(s, e)
  PROVE  C!Project(r, e) \in CharacterRows /\ C!Project(r, e).version \in {r.version, e.version, 0}
<1>1. s.version \in Nat /\ e.version \in Nat
  BY DEF SoundCharacter, LegalCharacter, NextVersion, C!States
<1> QED
  BY <1>1 DEF CharacterRows, LegalCharacter, C!NoRow, C!Project, C!Touch, C!IfPresent

LEMMA CharacterAgrees ==
  ASSUME NEW s, NEW e, NEW r \in CharacterRows, SoundCharacter(s), LegalCharacter(s, e),
         r.present \/ s = C!Blank, ~C!Apply(s, e).deleted
  PROVE  /\ C!Project(r, e).present
         /\ \A f \in {"version", "category", "measurements", "contact"} :
              \/ C!Project(r, e)[f] = C!Apply(s, e)[f]
              \/ C!Project(r, e)[f] = r[f] /\ C!Apply(s, e)[f] = s[f]
<1>1. s.version \in Nat /\ e.version \in Nat
  BY DEF SoundCharacter, LegalCharacter, NextVersion, C!States
<1>2. s = C!Blank => ~s.deleted /\ ~s.created /\ s.version = 0 /\ s.category = "blank"
        /\ s.measurements = "blank" /\ s.contact = "blank"
  BY DEF C!Blank
<1> QED
  BY <1>1, <1>2 DEF CharacterRows, SoundCharacter, LegalCharacter, CreatedOnce, C!States, C!Apply,
      C!NoRow, C!Project, C!Touch, C!IfPresent

LEMMA CharacterBegins ==
  /\ SoundCharacter(C!Blank) /\ C!Blank.version = 0
  /\ C!NoRow \in CharacterRows /\ C!NoRow.version = 0 /\ C!View(C!Blank) = C!NoRow
  /\ \A f \in {"version", "category", "measurements", "contact"} : C!NoRow[f] = C!Blank[f]
BY DEF SoundCharacter, CharacterRows, CreatedOnce, C!States, C!Blank, C!NoRow, C!View

LEMMA CharacterShows ==
  ASSUME NEW s, NEW r \in CharacterRows, SoundCharacter(s), r.present, s.version > 0, ~s.deleted,
         \A f \in {"version", "category", "measurements", "contact"} : r[f] = s[f]
  PROVE  r = C!View(s)
BY DEF CharacterRows, SoundCharacter, CreatedOnce, C!States, C!View

LEMMA CharacterEnds ==
  ASSUME NEW s, NEW e, NEW r, SoundCharacter(s), LegalCharacter(s, e)
  PROVE  /\ ~s.deleted
         /\ C!Apply(s, e).deleted => s # C!Blank /\ C!Project(r, e) = C!NoRow
BY DEF SoundCharacter, LegalCharacter, C!States, C!Blank, C!Apply, C!NoRow, C!Project

LEMMA CharacterViews ==
  ASSUME NEW s, SoundCharacter(s)
  PROVE  /\ C!View(s).version \in {0, s.version}
         /\ s.deleted => C!View(s) = C!NoRow
BY DEF C!View, C!NoRow

LEMMA CharacterFollows ==
  ASSUME NEW e, NEW r \in CharacterRows, NEW u, NEW c \in Nat, NEW n \in Nat, NEW m \in Nat,
         c <= n, n <= m, c + 1 <= m, SoundCharacter(u[c]), LegalCharacter(u[c], e),
         u[c + 1] = C!Apply(u[c], e), ~u[c + 1].deleted, AliveCharacter(r, c, n, u)
  PROVE  AliveCharacter(C!Project(r, e), c + 1, m, u)
<1> DEFINE q == C!Project(r, e)
<1>1. /\ q.present
      /\ \A f \in {"version", "category", "measurements", "contact"} :
           q[f] = u[c + 1][f] \/ (q[f] = r[f] /\ u[c + 1][f] = u[c][f])
  BY CharacterAgrees DEF AliveCharacter
<1> HIDE DEF q
<1>2. Follows({"version", "category", "measurements", "contact"}, q, c + 1, m, u)
  BY <1>1, FollowsStep DEF AliveCharacter
<1> QED
  BY <1>1, <1>2 DEF AliveCharacter, q

LEMMA CharacterStarts ==
  ASSUME NEW e, NEW u, LegalCharacter(C!Blank, e), u[1] = C!Apply(C!Blank, e)
  PROVE  AliveCharacter(C!Project(C!NoRow, e), 1, 1, u)
<1>1. /\ C!Project(C!NoRow, e).present
      /\ \A f \in {"version", "category", "measurements", "contact"} : C!Project(C!NoRow, e)[f] = u[1][f]
  BY CharacterAgrees, CharacterBegins, CharacterEnds
<1> QED
  BY <1>1, FollowsAt DEF AliveCharacter

LEMMA CharacterCaught ==
  ASSUME NEW r \in CharacterRows, NEW u, NEW n \in Nat, SoundCharacter(u[n]), u[n].version > 0,
         ~u[n].deleted,
         AliveCharacter(r, n, n, u)
  PROVE  r = C!View(u[n])
BY CharacterShows, FollowsAt DEF AliveCharacter

-----------------------------------------------------------------------------
(* Shooting days *)

LEMMA DayApplies ==
  ASSUME NEW s, NEW e, SoundDay(s), LegalDay(s, e)
  PROVE  SoundDay(D!Apply(s, e)) /\ D!Apply(s, e).version = s.version + 1
<1>1. s.version \in Nat /\ e.version \in Nat
  BY DEF SoundDay, LegalDay, NextVersion, D!States
<1>2. /\ D!Apply(s, e) \in D!States /\ D!Apply(s, e).version = s.version + 1
      /\ D!Apply(s, e).created
  BY <1>1 DEF SoundDay, LegalDay, NextVersion, CreatedOnce, D!States, D!Apply
<1> QED
  BY <1>1, <1>2 DEF SoundDay, CreatedOnce

LEMMA DayHandles ==
  ASSUME NEW s, SoundDay(s), NEW r, NEW v \in Nat, NEW c \in D!Requests(r, v) \cup D!Deletions,
         D!Expected(c, s.version)
  PROVE  /\ \/ D!Handle(s, c).events = << >>
            \/ \E e : D!Handle(s, c).events = <<e>> /\ LegalDay(s, e)
         /\ D!Expected(c, 0) \/ v = s.version
<1>1. s.version \in Nat
  BY DEF SoundDay, D!States
<1>2. D!Expected(c, 0) \/ v = s.version
  BY <1>1 DEF D!Requests, D!CreateDayRequests, D!UpdateDayRequests, D!ArchiveDayRequests,
      D!WrapDayRequests, D!Deletions, D!Expected, D!ExpectAny, D!ExpectEmpty, D!ExpectExact,
      D!Found, D!Cmd
<1>3. \/ D!Handle(s, c).events = << >>
      \/ D!Handle(s, c).events = <<D!Handle(s, c).events[1]>>
          /\ LegalDay(s, D!Handle(s, c).events[1])
  BY <1>1 DEF SoundDay, LegalDay, NextVersion, CreatedOnce, D!States, D!Blank, D!Requests,
      D!CreateDayRequests, D!UpdateDayRequests, D!ArchiveDayRequests, D!WrapDayRequests,
      D!Deletions, D!Expected, D!ExpectAny, D!ExpectEmpty, D!ExpectExact, D!Found, D!Cmd,
      D!Handle, D!DayOps, D!DayRejects, D!DayIgnores, D!Given, D!Created, D!Emit, D!Event,
      D!Accept, D!Reject, D!NoOp, D!Fresh, D!Delete
<1> QED
  BY <1>2, <1>3

LEMMA DayProjects ==
  ASSUME NEW s, NEW e, NEW r \in DayRows, SoundDay(s), LegalDay(s, e)
  PROVE  D!Project(r, e) \in DayRows /\ D!Project(r, e).version \in {r.version, e.version, 0}
<1>1. s.version \in Nat /\ e.version \in Nat
  BY DEF SoundDay, LegalDay, NextVersion, D!States
<1> QED
  BY <1>1 DEF DayRows, LegalDay, D!NoRow, D!Project, D!Touch, D!IfPresent

LEMMA DayAgrees ==
  ASSUME NEW s, NEW e, NEW r \in DayRows, SoundDay(s), LegalDay(s, e),
         r.present \/ s = D!Blank, ~D!Apply(s, e).deleted
  PROVE  /\ D!Project(r, e).present
         /\ \A f \in {"archived", "wrapped", "version"} :
              \/ D!Project(r, e)[f] = D!Apply(s, e)[f]
              \/ D!Project(r, e)[f] = r[f] /\ D!Apply(s, e)[f] = s[f]
<1>1. s.version \in Nat /\ e.version \in Nat
  BY DEF SoundDay, LegalDay, NextVersion, D!States
<1>2. s = D!Blank => ~s.deleted /\ ~s.created /\ ~s.archived /\ ~s.wrapped /\ s.version = 0
  BY DEF D!Blank
<1> QED
  BY <1>1, <1>2 DEF DayRows, SoundDay, LegalDay, CreatedOnce, D!States, D!Apply, D!NoRow,
      D!Project, D!Touch, D!IfPresent

LEMMA DayBegins ==
  /\ SoundDay(D!Blank) /\ D!Blank.version = 0
  /\ D!NoRow \in DayRows /\ D!NoRow.version = 0 /\ D!View(D!Blank) = D!NoRow
  /\ \A f \in {"archived", "wrapped", "version"} : D!NoRow[f] = D!Blank[f]
BY DEF SoundDay, DayRows, CreatedOnce, D!States, D!Blank, D!NoRow, D!View

LEMMA DayShows ==
  ASSUME NEW s, NEW r \in DayRows, SoundDay(s), r.present, s.version > 0, ~s.deleted,
         \A f \in {"archived", "wrapped", "version"} : r[f] = s[f]
  PROVE  r = D!View(s)
BY DEF DayRows, SoundDay, CreatedOnce, D!States, D!View

LEMMA DayEnds ==
  ASSUME NEW s, NEW e, NEW r, SoundDay(s), LegalDay(s, e)
  PROVE  /\ ~s.deleted
         /\ D!Apply(s, e).deleted => s # D!Blank /\ D!Project(r, e) = D!NoRow
BY DEF SoundDay, LegalDay, D!States, D!Blank, D!Apply, D!NoRow, D!Project

LEMMA DayViews ==
  ASSUME NEW s, SoundDay(s)
  PROVE  /\ D!View(s).version \in {0, s.version}
         /\ s.deleted => D!View(s) = D!NoRow
BY DEF D!View, D!NoRow

LEMMA DayFollows ==
  ASSUME NEW e, NEW r \in DayRows, NEW u, NEW c \in Nat, NEW n \in Nat, NEW m \in Nat,
         c <= n, n <= m, c + 1 <= m, SoundDay(u[c]), LegalDay(u[c], e),
         u[c + 1] = D!Apply(u[c], e), ~u[c + 1].deleted, AliveDay(r, c, n, u)
  PROVE  AliveDay(D!Project(r, e), c + 1, m, u)
<1> DEFINE q == D!Project(r, e)
<1>1. /\ q.present
      /\ \A f \in {"archived", "wrapped", "version"} :
           q[f] = u[c + 1][f] \/ (q[f] = r[f] /\ u[c + 1][f] = u[c][f])
  BY DayAgrees DEF AliveDay
<1> HIDE DEF q
<1>2. Follows({"archived", "wrapped", "version"}, q, c + 1, m, u)
  BY <1>1, FollowsStep DEF AliveDay
<1> QED
  BY <1>1, <1>2 DEF AliveDay, q

LEMMA DayStarts ==
  ASSUME NEW e, NEW u, LegalDay(D!Blank, e), u[1] = D!Apply(D!Blank, e)
  PROVE  AliveDay(D!Project(D!NoRow, e), 1, 1, u)
<1>1. /\ D!Project(D!NoRow, e).present
      /\ \A f \in {"archived", "wrapped", "version"} : D!Project(D!NoRow, e)[f] = u[1][f]
  BY DayAgrees, DayBegins, DayEnds
<1> QED
  BY <1>1, FollowsAt DEF AliveDay

LEMMA DayCaught ==
  ASSUME NEW r \in DayRows, NEW u, NEW n \in Nat, SoundDay(u[n]), u[n].version > 0, ~u[n].deleted,
         AliveDay(r, n, n, u)
  PROVE  r = D!View(u[n])
BY DayShows, FollowsAt DEF AliveDay

-----------------------------------------------------------------------------
(* Credential bindings *)

LEMMA SettingsApplies ==
  ASSUME NEW s, NEW e, SoundSettings(s), LegalSettings(s, e)
  PROVE  SoundSettings(T!Apply(s, e)) /\ T!Apply(s, e).version = s.version + 1
<1>1. s.version \in Nat /\ e.version \in Nat
  BY DEF SoundSettings, LegalSettings, NextVersion, T!States
<1>2. /\ T!Apply(s, e) \in T!States /\ T!Apply(s, e).version = s.version + 1
  BY <1>1 DEF SoundSettings, LegalSettings, NextVersion, T!States, T!Apply
<1> QED
  BY <1>1, <1>2 DEF SoundSettings

LEMMA SettingsHandles ==
  ASSUME NEW s, SoundSettings(s), NEW r, NEW v \in Nat, NEW c \in T!Requests(r, v) \cup T!Deletions,
         T!Expected(c, s.version)
  PROVE  /\ \/ T!Handle(s, c).events = << >>
            \/ \E e : T!Handle(s, c).events = <<e>> /\ LegalSettings(s, e)
         /\ T!Expected(c, 0) \/ v = s.version
<1>1. s.version \in Nat
  BY DEF SoundSettings, T!States
<1>2. T!Expected(c, 0) \/ v = s.version
  BY <1>1 DEF T!Requests, T!BindRequests, T!RotateRequests, T!RevokeRequests, T!Deletions,
      T!Expected, T!ExpectAny, T!ExpectEmpty, T!ExpectExact, T!Found, T!Cmd
<1>3. \/ T!Handle(s, c).events = << >>
      \/ T!Handle(s, c).events = <<T!Handle(s, c).events[1]>>
          /\ LegalSettings(s, T!Handle(s, c).events[1])
  BY <1>1 DEF SoundSettings, LegalSettings, NextVersion, T!States, T!Blank, T!Requests,
      T!BindRequests, T!RotateRequests, T!RevokeRequests, T!Deletions, T!Expected, T!ExpectAny,
      T!ExpectEmpty, T!ExpectExact, T!Found, T!Cmd, T!Handle, T!CreateCredentialBinding,
      T!RotateCredentialBinding, T!RevokeCredential, T!Given, T!Created, T!Emit, T!Event,
      T!Accept, T!Reject, T!NoOp, T!Fresh, T!Delete
<1> QED
  BY <1>2, <1>3

LEMMA SettingsProjects ==
  ASSUME NEW s, NEW e, NEW r \in SettingsRows, SoundSettings(s), LegalSettings(s, e)
  PROVE  T!Project(r, e) \in SettingsRows /\ T!Project(r, e).version \in {r.version, e.version, 0}
<1>1. s.version \in Nat /\ e.version \in Nat
  BY DEF SoundSettings, LegalSettings, NextVersion, T!States
<1> QED
  BY <1>1 DEF SettingsRows, LegalSettings, T!NoRow, T!Project, T!Touch, T!Newer, T!IfNewer

LEMMA SettingsAgrees ==
  ASSUME NEW s, NEW e, NEW r \in SettingsRows, SoundSettings(s), LegalSettings(s, e), r.present
  PROVE  /\ r.version >= e.version => T!Project(r, e) = r
         /\ (\A f \in {"binding", "state", "version"} : r[f] = s[f]) =>
              /\ T!Project(r, e).present
              /\ \A f \in {"binding", "state", "version"} : T!Project(r, e)[f] = T!Apply(s, e)[f]
<1>1. s.version \in Nat /\ e.version \in Nat
  BY DEF SoundSettings, LegalSettings, NextVersion, T!States
<1>2. r.version >= e.version => T!Project(r, e) = r
  BY <1>1 DEF SettingsRows, LegalSettings, T!NoRow, T!Project, T!Touch, T!Newer, T!IfNewer
<1>3. SUFFICES ASSUME \A f \in {"binding", "state", "version"} : r[f] = s[f]
      PROVE  /\ T!Project(r, e).present
             /\ \A f \in {"binding", "state", "version"} : T!Project(r, e)[f] = T!Apply(s, e)[f]
  BY <1>2
<1>4. e.version > r.version /\ r.binding = s.binding /\ r.state = s.state /\ r.version = s.version
  BY <1>1, <1>3 DEF LegalSettings, NextVersion
<1> QED
  BY <1>1, <1>4 DEF SettingsRows, SoundSettings, LegalSettings, T!States, T!Apply, T!NoRow,
      T!Project, T!Touch, T!Newer, T!IfNewer

LEMMA SettingsBegins ==
  /\ SoundSettings(T!Blank) /\ T!Blank.version = 0
  /\ T!NoRow \in SettingsRows /\ T!NoRow.version = 0 /\ T!View(T!Blank) = T!NoRow
BY DEF SoundSettings, SettingsRows, T!States, T!Blank, T!NoRow, T!View, T!Bindings, T!NoBinding

LEMMA SettingsStarts ==
  ASSUME NEW e, LegalSettings(T!Blank, e)
  PROVE  /\ T!Project(T!NoRow, e).present
         /\ \A f \in {"binding", "state", "version"} : T!Project(T!NoRow, e)[f] = T!Apply(T!Blank, e)[f]
<1>1. e.type = "CredentialBound" /\ e.version = 1
  BY DEF LegalSettings, NextVersion, T!Blank
<1> QED
  BY <1>1 DEF T!Blank, T!Apply, T!NoRow, T!Project

LEMMA SettingsShows ==
  ASSUME NEW s, NEW r \in SettingsRows, SoundSettings(s), r.present, s.version > 0,
         \A f \in {"binding", "state", "version"} : r[f] = s[f]
  PROVE  r = T!View(s)
BY DEF SettingsRows, SoundSettings, T!States, T!View

LEMMA SettingsViews ==
  ASSUME NEW s, SoundSettings(s)
  PROVE  /\ T!View(s).version \in {0, s.version}
BY DEF T!View, T!NoRow

LEMMA SettingsFollows ==
  ASSUME NEW e, NEW r \in SettingsRows, NEW u, NEW c \in Nat, NEW n \in Nat \ {0}, NEW m \in Nat,
         c <= n, m = IF c + 1 > n THEN c + 1 ELSE n, \A i \in 0..m : u[i].version = i,
         SoundSettings(u[c]), LegalSettings(u[c], e), u[c + 1] = T!Apply(u[c], e),
             AliveSettings(r, n, u)
  PROVE  AliveSettings(T!Project(r, e), m, u)
<1>1. r.present /\ \A f \in {"binding", "state", "version"} : r[f] = u[n][f]
  BY DEF AliveSettings, Latest
<1>2. r.version = n /\ e.version = c + 1 /\ u[c].version = c
  BY <1>1 DEF LegalSettings, NextVersion
<1>3. CASE c = n
  BY <1>1, <1>2, <1>3, SettingsAgrees DEF AliveSettings, Latest
<1>4. CASE c < n
  BY <1>1, <1>2, <1>4, SettingsAgrees DEF AliveSettings, Latest
<1> QED
  BY <1>3, <1>4

LEMMA SettingsCaught ==
  ASSUME NEW r \in SettingsRows, NEW u, NEW n \in Nat, SoundSettings(u[n]), u[n].version > 0,
         AliveSettings(r, n, u)
  PROVE  r = T!View(u[n])
BY SettingsShows DEF AliveSettings, Latest

-----------------------------------------------------------------------------
(* Configurations. *)
LEMMA UnsetIsConfig == A!Unset \in Configs
<1>1. A!Unset = [f \in A!Fields |-> A!Unset[f]]
  BY DEF A!Unset
<1>2. \A f \in A!Fields : A!Unset[f] \in {b[g] : b \in Bodies \cup {A!Unset}, g \in A!Fields}
  OBVIOUS
<1> QED
  BY <1>1, <1>2 DEF Configs

LEMMA BodiesAreConfigs == Bodies \subseteq Configs
<1>1. \A b \in Bodies : b \in [A!Fields -> STRING]
  BY CatalogueConstants
<1> QED
  BY <1>1 DEF Configs

LEMMA MergedConfig ==
  ASSUME NEW x \in Configs, NEW y \in Configs
  PROVE  /\ A!Merge(x, y) \in Configs
         /\ [f \in A!Fields |-> IF f \in A!DecisionFields THEN A!Merge(x, y)[f]
              ELSE y[f]] \in Configs
<1> DEFINE V == {b[f] : b \in Bodies \cup {A!Unset}, f \in A!Fields}
<1>1. Configs = [A!Fields -> V]
  BY DEF Configs
<1> HIDE DEF V
<1>2. A!Merge(x, y) \in Configs
  BY <1>1 DEF A!Merge
<1> QED
  BY <1>1, <1>2

LEMMA ConfigStates == A!States = [config : Configs, revoked : BOOLEAN, version : Nat]
BY DEF A!States, Configs

LEMMA AiConfigApplies ==
  ASSUME NEW s, NEW e, SoundAiConfig(s), LegalAiConfig(s, e)
  PROVE  SoundAiConfig(A!Apply(s, e)) /\ A!Apply(s, e).version = s.version + 1
<1>1. s.version \in Nat /\ e.version \in Nat
  BY DEF SoundAiConfig, LegalAiConfig, NextVersion, A!States
<1>2. A!Apply(s, e) \in A!States /\ A!Apply(s, e).version = s.version + 1
  BY <1>1, ConfigStates, MergedConfig DEF SoundAiConfig, LegalAiConfig, NextVersion, A!Apply
<1> QED
  BY <1>1, <1>2 DEF SoundAiConfig

LEMMA AiConfigHandles ==
  ASSUME NEW s, SoundAiConfig(s), NEW r, NEW v \in Nat, NEW c \in A!Requests(r, v) \cup A!Deletions,
         A!Expected(c, s.version)
  PROVE  /\ \/ A!Handle(s, c).events = << >>
            \/ \E e : A!Handle(s, c).events = <<e>> /\ LegalAiConfig(s, e)
         /\ A!Expected(c, 0) \/ v = s.version
<1>1. s.version \in Nat /\ s.config \in Configs
  BY ConfigStates DEF SoundAiConfig
<1>2. \/ c.type = "CreateAiConfig" /\ c.arg \in Configs
      \/ c.type = "UpdateAiConfig" /\ c.arg \in Configs /\ c.version = v
      \/ c.type = "RevokeAiConfig" /\ c.version = v
  BY BodiesAreConfigs DEF A!Requests, A!CreateRequests, A!UpdateRequests, A!RevokeRequests,
     A!Deletions,
      A!Found, A!Cmd
<1>3. A!Expected(c, 0) \/ v = s.version
  BY <1>1, <1>2 DEF A!Expected, A!ExpectEmpty, A!ExpectExact
<1>4. CASE c.type = "CreateAiConfig"
  <2>1. \/ A!Handle(s, c).events = << >>
        \/ A!Handle(s, c).events = <<A!Event("Created", c.arg, 1)>>
    BY <1>4 DEF A!Handle, A!CreateAiConfig, A!Given, A!Created, A!Accept, A!Reject
  <2>2. s = A!Blank /\ s.version = 0
    BY <1>4 DEF SoundAiConfig, A!Expected, A!ExpectEmpty
  <2>3. LegalAiConfig(s, A!Event("Created", c.arg, 1))
    BY <1>2, <1>4, <2>2 DEF LegalAiConfig, NextVersion, A!Event
  <2> QED
    BY <1>3, <2>1, <2>3
<1>5. CASE c.type = "UpdateAiConfig"
  <2> DEFINE b == [f \in A!Fields |-> IF f \in A!DecisionFields THEN A!Merge(s.config, c.arg)[f]
                                      ELSE c.arg[f]]
  <2>1. b \in Configs
    BY <1>1, <1>2, <1>5, MergedConfig
  <2>2. \/ A!Handle(s, c).events = << >>
        \/ A!Handle(s, c).events = <<A!Event("Updated", b, s.version + 1)>>
    BY <1>5 DEF A!Handle, A!UpdateAiConfig, A!Given, A!Emit, A!Accept, A!Reject
  <2>3. s.version > 0
    BY <1>1, <1>5 DEF A!Expected, A!ExpectExact
  <2>4. LegalAiConfig(s, A!Event("Updated", b, s.version + 1))
    BY <2>1, <2>3 DEF LegalAiConfig, NextVersion, A!Event
  <2> QED
    BY <1>3, <2>2, <2>4
<1>6. CASE c.type = "RevokeAiConfig"
  BY <1>1, <1>3, <1>6 DEF LegalAiConfig, NextVersion, A!Expected, A!ExpectExact,
      A!Handle, A!RevokeAiConfig, A!Given, A!Emit, A!Event, A!Accept, A!Reject
<1> QED
  BY <1>2, <1>4, <1>5, <1>6

LEMMA AiConfigProjects ==
  ASSUME NEW s, NEW e, NEW r \in AiConfigRows, SoundAiConfig(s), LegalAiConfig(s, e)
  PROVE  A!Project(r, e) \in AiConfigRows /\ A!Project(r, e).version \in {r.version, e.version, 0}
<1>1. s.version \in Nat /\ e.version \in Nat
  BY DEF SoundAiConfig, LegalAiConfig, NextVersion, A!States
<1> QED
  BY <1>1, MergedConfig DEF AiConfigRows, LegalAiConfig, A!Project, A!ProjectCreated,
     A!ProjectUpdated, A!Touch,
      A!Newer, A!IfNewer

LEMMA AiConfigAgrees ==
  ASSUME NEW s, NEW e, NEW r \in AiConfigRows, SoundAiConfig(s), LegalAiConfig(s, e), r.present
  PROVE  /\ r.version >= e.version => A!Project(r, e) = r
         /\ (\A f \in {"config", "revoked", "version"} : r[f] = s[f]) =>
              /\ A!Project(r, e).present
              /\ \A f \in {"config", "revoked", "version"} : A!Project(r, e)[f] = A!Apply(s, e)[f]
<1>1. s.version \in Nat /\ e.version \in Nat
  BY DEF SoundAiConfig, LegalAiConfig, NextVersion, A!States
<1>2. r.version >= e.version => A!Project(r, e) = r
  BY <1>1 DEF AiConfigRows, LegalAiConfig, A!NoRow, A!Project, A!ProjectCreated, A!ProjectUpdated,
      A!Touch, A!Newer, A!IfNewer
<1>3. SUFFICES ASSUME \A f \in {"config", "revoked", "version"} : r[f] = s[f]
      PROVE  /\ A!Project(r, e).present
             /\ \A f \in {"config", "revoked", "version"} : A!Project(r, e)[f] = A!Apply(s, e)[f]
  BY <1>2
<1>4. e.version > r.version /\ r.config = s.config /\ r.revoked = s.revoked /\ r.version = s.version
  BY <1>1, <1>3 DEF LegalAiConfig, NextVersion
<1> DEFINE m == A!Merge(s.config, e.arg)
<1>5. A!Merge(r.config, e.arg) = m
  BY <1>4
<1>6. CASE e.type = "Created"
  <2>1. A!Project(r, e) = [r EXCEPT !.config = e.arg, !.revoked = FALSE, !.version = e.version]
    BY <1>1, <1>4, <1>6 DEF AiConfigRows, A!Project, A!ProjectCreated, A!Touch, A!Newer, A!IfNewer
  <2>2. A!Apply(s, e) = [config |-> e.arg, revoked |-> FALSE, version |-> e.version]
    BY <1>6 DEF A!Apply
  <2> QED
    BY <2>1, <2>2 DEF AiConfigRows
<1>7. CASE e.type = "Updated"
  <2> HIDE DEF m
  <2>1. A!Project(r, e) = [r EXCEPT !.config = m, !.revoked = FALSE, !.version = e.version]
    BY <1>1, <1>4, <1>5, <1>7 DEF AiConfigRows, A!Project, A!ProjectUpdated, A!Touch, A!Newer,
       A!IfNewer
  <2>2. A!Apply(s, e) = [config |-> m, revoked |-> FALSE, version |-> e.version]
    BY <1>7 DEF A!Apply, m
  <2> QED
    BY <2>1, <2>2 DEF AiConfigRows
<1>8. CASE e.type = "Revoked"
  BY <1>1, <1>4, <1>8, ConfigStates DEF AiConfigRows, SoundAiConfig, A!Apply,
      A!Project, A!Touch, A!Newer, A!IfNewer
<1> QED
  BY <1>6, <1>7, <1>8 DEF LegalAiConfig

LEMMA AiConfigBegins ==
  /\ SoundAiConfig(A!Blank) /\ A!Blank.version = 0
  /\ A!NoRow \in AiConfigRows /\ A!NoRow.version = 0 /\ A!View(A!Blank) = A!NoRow
BY UnsetIsConfig, ConfigStates DEF SoundAiConfig, AiConfigRows, A!Blank, A!NoRow, A!View

LEMMA AiConfigStarts ==
  ASSUME NEW e, LegalAiConfig(A!Blank, e)
  PROVE  /\ A!Project(A!NoRow, e).present
         /\ \A f \in {"config", "revoked", "version"} : A!Project(A!NoRow, e)[f] = A!Apply(A!Blank, e)[f]
<1>1. e.type = "Created" /\ e.version = 1
  BY DEF LegalAiConfig, NextVersion, A!Blank
<1>2. A!Project(A!NoRow, e) = [present |-> TRUE, config |-> e.arg, revoked |-> FALSE,
                                version |-> e.version]
  BY <1>1 DEF A!Project, A!ProjectCreated, A!NoRow
<1>3. A!Apply(A!Blank, e) = [config |-> e.arg, revoked |-> FALSE, version |-> e.version]
  BY <1>1 DEF A!Apply
<1> QED
  BY <1>2, <1>3

LEMMA AiConfigShows ==
  ASSUME NEW s, NEW r \in AiConfigRows, SoundAiConfig(s), r.present, s.version > 0,
         \A f \in {"config", "revoked", "version"} : r[f] = s[f]
  PROVE  r = A!View(s)
BY DEF AiConfigRows, SoundAiConfig, A!States, A!View

LEMMA AiConfigViews ==
  ASSUME NEW s, SoundAiConfig(s)
  PROVE  /\ A!View(s).version \in {0, s.version}
BY DEF A!View, A!NoRow

LEMMA AiConfigFollows ==
  ASSUME NEW e, NEW r \in AiConfigRows, NEW u, NEW c \in Nat, NEW n \in Nat \ {0}, NEW m \in Nat,
         c <= n, m = IF c + 1 > n THEN c + 1 ELSE n, \A i \in 0..m : u[i].version = i,
         SoundAiConfig(u[c]), LegalAiConfig(u[c], e), u[c + 1] = A!Apply(u[c], e),
             AliveAiConfig(r, n, u)
  PROVE  AliveAiConfig(A!Project(r, e), m, u)
<1>1. r.present /\ \A f \in {"config", "revoked", "version"} : r[f] = u[n][f]
  BY DEF AliveAiConfig, Latest
<1>2. r.version = n /\ e.version = c + 1 /\ u[c].version = c
  BY <1>1 DEF LegalAiConfig, NextVersion
<1>3. CASE c = n
  BY <1>1, <1>2, <1>3, AiConfigAgrees DEF AliveAiConfig, Latest
<1>4. CASE c < n
  BY <1>1, <1>2, <1>4, AiConfigAgrees DEF AliveAiConfig, Latest
<1> QED
  BY <1>3, <1>4

LEMMA AiConfigCaught ==
  ASSUME NEW r \in AiConfigRows, NEW u, NEW n \in Nat, SoundAiConfig(u[n]), u[n].version > 0,
         AliveAiConfig(r, n, u)
  PROVE  r = A!View(u[n])
BY AiConfigShows DEF AliveAiConfig, Latest

-----------------------------------------------------------------------------
(* Shoots: what an event does to the row is what it does to the shoot. *)
LEMMA ShootAppliedTyped ==
  ASSUME NEW x \in SH!ShootStates, NEW op \in SH!ShootOps, NEW i \in SH!Items(op)
  PROVE  /\ SH!ShootApplied(x, [op |-> op, item |-> i]) \in SH!ShootStates
         /\ SH!ShootApplied(x, [op |-> op, item |-> i]).version = x.version + 1
<1>1. x.version + 1 \in Nat
  BY DEF SH!ShootStates
<1>2. CASE op = "replan"
  BY <1>1, <1>2 DEF SH!ShootStates, SH!TerminalStatuses, SH!Items, SH!ShootApplied,
      SH!TransitionOnExecution
<1>3. CASE op = "start"
  BY <1>1, <1>3 DEF SH!ShootStates, SH!TerminalStatuses, SH!Items, SH!ShootApplied,
      SH!TransitionOnExecution
<1>4. CASE op = "set_order"
  BY <1>1, <1>4 DEF SH!ShootStates, SH!TerminalStatuses, SH!Items, SH!ShootApplied,
      SH!TransitionOnExecution
<1>5. CASE op = "finish"
  BY <1>1, <1>5 DEF SH!ShootStates, SH!TerminalStatuses, SH!Items, SH!ShootApplied,
      SH!TransitionOnExecution
<1>6. CASE op = "skip"
  BY <1>1, <1>6 DEF SH!ShootStates, SH!TerminalStatuses, SH!Items, SH!ShootApplied,
      SH!TransitionOnExecution
<1>7. CASE op = "add_note"
  BY <1>1, <1>7 DEF SH!ShootStates, SH!TerminalStatuses, SH!Items, SH!ShootApplied,
      SH!TransitionOnExecution
<1>8. CASE op = "update_note"
  BY <1>1, <1>8 DEF SH!ShootStates, SH!TerminalStatuses, SH!Items, SH!ShootApplied,
      SH!TransitionOnExecution
<1>9. CASE op = "remove_note"
  BY <1>1, <1>9 DEF SH!ShootStates, SH!TerminalStatuses, SH!Items, SH!ShootApplied,
      SH!TransitionOnExecution
<1>10. CASE op = "link_photo"
  BY <1>1, <1>10 DEF SH!ShootStates, SH!TerminalStatuses, SH!Items, SH!ShootApplied,
      SH!TransitionOnExecution
<1>11. CASE op = "unlink_photo"
  BY <1>1, <1>11 DEF SH!ShootStates, SH!TerminalStatuses, SH!Items, SH!ShootApplied,
      SH!TransitionOnExecution
<1> QED
  BY <1>2, <1>3, <1>4, <1>5, <1>6, <1>7, <1>8, <1>9, <1>10, <1>11 DEF SH!ShootOps, SH!FrozenOps,
     SH!OpenOps

LEMMA ProjectShootTyped ==
  ASSUME NEW x \in SH!ShootStates, NEW e, e.type \in SH!ShootOps, e.arg \in SH!Items(e.type),
         e.version \in Nat
  PROVE  SH!ProjectShoot(x, e) \in SH!ShootStates
<1>2. CASE e.type = "replan"
  BY <1>2 DEF SH!ShootStates, SH!TerminalStatuses, SH!Items, SH!ProjectShoot
<1>3. CASE e.type = "start"
  BY <1>3 DEF SH!ShootStates, SH!TerminalStatuses, SH!Items, SH!ProjectShoot
<1>4. CASE e.type = "set_order"
  BY <1>4 DEF SH!ShootStates, SH!TerminalStatuses, SH!Items, SH!ProjectShoot
<1>5. CASE e.type = "finish"
  BY <1>5 DEF SH!ShootStates, SH!TerminalStatuses, SH!Items, SH!ProjectShoot
<1>6. CASE e.type = "skip"
  BY <1>6 DEF SH!ShootStates, SH!TerminalStatuses, SH!Items, SH!ProjectShoot
<1>7. CASE e.type = "add_note"
  BY <1>7 DEF SH!ShootStates, SH!TerminalStatuses, SH!Items, SH!ProjectShoot
<1>8. CASE e.type = "update_note"
  BY <1>8 DEF SH!ShootStates, SH!TerminalStatuses, SH!Items, SH!ProjectShoot
<1>9. CASE e.type = "remove_note"
  BY <1>9 DEF SH!ShootStates, SH!TerminalStatuses, SH!Items, SH!ProjectShoot
<1>10. CASE e.type = "link_photo"
  BY <1>10 DEF SH!ShootStates, SH!TerminalStatuses, SH!Items, SH!ProjectShoot
<1>11. CASE e.type = "unlink_photo"
  BY <1>11 DEF SH!ShootStates, SH!TerminalStatuses, SH!Items, SH!ProjectShoot
<1> QED
  BY <1>2, <1>3, <1>4, <1>5, <1>6, <1>7, <1>8, <1>9, <1>10, <1>11 DEF SH!ShootOps, SH!FrozenOps,
     SH!OpenOps

LEMMA ProjectShootAgrees ==
  ASSUME NEW x \in SH!ShootStates, NEW e, e.type \in SH!ShootOps, e.arg \in SH!Items(e.type),
         e.version = x.version + 1, x.status \notin SH!TerminalStatuses
  PROVE  SH!ProjectShoot(x, e) = SH!ShootApplied(x, [op |-> e.type, item |-> e.arg])
<1>1. x.status \in {"planned", "in_progress"}
  BY DEF SH!ShootStates
<1>2. CASE e.type = "replan"
  BY <1>1, <1>2 DEF SH!ShootStates, SH!Items, SH!ProjectShoot, SH!ShootApplied,
      SH!TransitionOnExecution
<1>3. CASE e.type = "start"
  BY <1>1, <1>3 DEF SH!ShootStates, SH!Items, SH!ProjectShoot, SH!ShootApplied,
      SH!TransitionOnExecution
<1>4. CASE e.type = "set_order"
  BY <1>1, <1>4 DEF SH!ShootStates, SH!Items, SH!ProjectShoot, SH!ShootApplied,
      SH!TransitionOnExecution
<1>5. CASE e.type = "finish"
  BY <1>1, <1>5 DEF SH!ShootStates, SH!Items, SH!ProjectShoot, SH!ShootApplied,
      SH!TransitionOnExecution
<1>6. CASE e.type = "skip"
  BY <1>1, <1>6 DEF SH!ShootStates, SH!Items, SH!ProjectShoot, SH!ShootApplied,
      SH!TransitionOnExecution
<1>7. CASE e.type = "add_note"
  BY <1>1, <1>7 DEF SH!ShootStates, SH!Items, SH!ProjectShoot, SH!ShootApplied,
      SH!TransitionOnExecution
<1>8. CASE e.type = "update_note"
  BY <1>1, <1>8 DEF SH!ShootStates, SH!Items, SH!ProjectShoot, SH!ShootApplied,
      SH!TransitionOnExecution
<1>9. CASE e.type = "remove_note"
  BY <1>1, <1>9 DEF SH!ShootStates, SH!Items, SH!ProjectShoot, SH!ShootApplied,
      SH!TransitionOnExecution
<1>10. CASE e.type = "link_photo"
  BY <1>1, <1>10 DEF SH!ShootStates, SH!Items, SH!ProjectShoot, SH!ShootApplied,
      SH!TransitionOnExecution
<1>11. CASE e.type = "unlink_photo"
  BY <1>1, <1>11 DEF SH!ShootStates, SH!Items, SH!ProjectShoot, SH!ShootApplied,
      SH!TransitionOnExecution
<1> QED
  BY <1>2, <1>3, <1>4, <1>5, <1>6, <1>7, <1>8, <1>9, <1>10, <1>11 DEF SH!ShootOps, SH!FrozenOps,
     SH!OpenOps

LEMMA UnplannedTyped == SH!Unplanned \in SH!ShootStates /\ SH!PlannedShoot \in SH!ShootStates
                        /\ SH!Unplanned.version = 0 /\ SH!PlannedShoot.version = 1
BY DEF SH!Unplanned, SH!PlannedShoot, SH!ShootStates, SH!TerminalStatuses

LEMMA ShootOpsApart == \A op \in {"plan", "planned", "delete", "deleted"} : op \notin SH!ShootOps
BY DEF SH!ShootOps, SH!FrozenOps, SH!OpenOps

LEMMA ShootApplies ==
  ASSUME NEW s, NEW e, SoundShoot(s), LegalShoot(s, e)
  PROVE  SoundShoot(SH!Apply(s, e)) /\ SH!Apply(s, e).version = s.version + 1
<1>1. /\ s \in SH!States /\ s.version \in Nat /\ e.version = s.version + 1 /\ e.version \in Nat
      /\ s.shoot \in SH!ShootStates /\ ~s.deleted /\ s.shoot.version = s.version
  BY DEF SoundShoot, LegalShoot, NextVersion, SH!States
<1> DEFINE t == SH!Apply(s, e)
           x == SH!ShootApplied(s.shoot, [op |-> e.type, item |-> e.arg])
<1>2. /\ t \in SH!States /\ t.version = s.version + 1 /\ t.created
      /\ t.deleted \/ t.shoot.version = t.version
  <2>1. CASE e.type = "planned"
    <3>1. s.version = 0
      BY <2>1, ShootOpsApart DEF LegalShoot, SH!Blank
    <3>2. t = [s EXCEPT !.created = TRUE, !.version = e.version, !.shoot = SH!PlannedShoot]
      BY <2>1 DEF SH!Apply
    <3> HIDE DEF t
    <3>3. t \in SH!States
      BY <1>1, <3>2, UnplannedTyped DEF SH!States
    <3>4. t.version = s.version + 1 /\ t.created = TRUE /\ t.shoot = SH!PlannedShoot
      BY <1>1, <3>2 DEF SH!States
    <3> QED
      BY <3>1, <3>3, <3>4, UnplannedTyped
  <2>2. CASE e.type = "deleted"
    <3>1. t = [s EXCEPT !.deleted = TRUE, !.version = e.version]
      BY <2>2 DEF SH!Apply
    <3>2. s.created
      BY <2>2, ShootOpsApart DEF LegalShoot
    <3> HIDE DEF t
    <3>3. t \in SH!States
      BY <1>1, <3>1 DEF SH!States
    <3>4. t.version = s.version + 1 /\ t.created = s.created /\ t.deleted = TRUE
      BY <1>1, <3>1 DEF SH!States
    <3> QED
      BY <3>2, <3>3, <3>4
  <2>3. CASE e.type \in SH!ShootOps /\ s.created /\ e.arg \in SH!Items(e.type)
    <3>1. x \in SH!ShootStates /\ x.version = s.version + 1
      BY <1>1, <2>3, ShootAppliedTyped
    <3>2. t = [s EXCEPT !.version = e.version, !.shoot = x]
      BY <2>3, ShootOpsApart DEF SH!Apply
    <3> HIDE DEF x, t
    <3>3. t \in SH!States
      BY <1>1, <3>1, <3>2 DEF SH!States
    <3>4. t.version = s.version + 1 /\ t.created = s.created /\ t.shoot = x
      BY <1>1, <3>2 DEF SH!States
    <3> QED
      BY <2>3, <3>1, <3>3, <3>4
  <2> QED
    BY <2>1, <2>2, <2>3 DEF LegalShoot
<1> HIDE DEF t
<1>3. SoundShoot(t)
  BY <1>1, <1>2 DEF SoundShoot, CreatedOnce
<1> QED
  BY <1>2, <1>3 DEF t

LEMMA ShootHandles ==
  ASSUME NEW s, SoundShoot(s), NEW r, NEW v \in Nat, NEW c \in SH!Requests(r, v) \cup SH!Deletions,
         SH!Expected(c, s.version)
  PROVE  /\ \/ SH!Handle(s, c).events = << >>
            \/ \E e : SH!Handle(s, c).events = <<e>> /\ LegalShoot(s, e)
         /\ SH!Expected(c, 0) \/ v = s.version
<1>1. s.version \in Nat /\ s.deleted \in BOOLEAN /\ s.created \in BOOLEAN
  BY DEF SoundShoot, SH!States
<1>2. \/ c.type = "plan"
      \/ c.type = "delete"
      \/ c.type \in SH!ShootOps /\ c.version = v /\ c.arg \in SH!Items(c.type)
  <2>1. CASE c \in SH!PlanRequests \cup SH!Deletions
    BY <2>1 DEF SH!PlanRequests, SH!Deletions, SH!Cmd
  <2>2. CASE c \in SH!ExecutionRequests(r, v)
    BY <2>2 DEF SH!ExecutionRequests, SH!Found, SH!Cmd, SH!ShootOps, SH!FrozenOps
  <2>3. CASE c \in SH!NoteRequests(r, v)
    BY <2>3 DEF SH!NoteRequests, SH!Found, SH!Cmd, SH!ShootOps, SH!FrozenOps
  <2>4. CASE c \in SH!ReplanRequests(r, v)
    BY <2>4 DEF SH!ReplanRequests, SH!Found, SH!Cmd, SH!ShootOps, SH!OpenOps, SH!Items
  <2>5. CASE c \in SH!PhotoRequests(v)
    BY <2>5 DEF SH!PhotoRequests, SH!Cmd, SH!ShootOps, SH!OpenOps, SH!Items
  <2> QED
    BY <2>1, <2>2, <2>3, <2>4, <2>5 DEF SH!Requests
<1>3. SH!Expected(c, 0) \/ v = s.version
  BY <1>1, <1>2 DEF SH!Expected, SH!ExpectAny, SH!ExpectEmpty, SH!ExpectExact
<1>4. CASE c.type = "plan"
  <2>1. SH!Handle(s, c).events \in {<< >>, <<SH!Event("planned", None, 1)>>}
    BY <1>4, ShootOpsApart DEF SH!Handle, SH!Given, SH!Created, SH!Accept, SH!Reject
  <2>2. s = SH!Blank /\ s.version = 0 /\ ~s.deleted
    BY <1>4 DEF SoundShoot, CreatedOnce, SH!Expected, SH!ExpectEmpty, SH!Blank
  <2>3. LegalShoot(s, SH!Event("planned", None, 1))
    BY <2>2 DEF LegalShoot, NextVersion, SH!Event
  <2> QED
    BY <1>3, <2>1, <2>3
<1>5. CASE c.type = "delete"
  <2>1. SH!Handle(s, c) = SH!Delete(s, "deleted")
    BY <1>5, ShootOpsApart DEF SH!Handle
  <2>2. CASE s.deleted \/ ~s.created
    BY <1>3, <2>1, <2>2 DEF SH!Delete, SH!Given, SH!NoOp, SH!Accept, SH!Reject
  <2>3. CASE ~s.deleted /\ s.created
    <3>1. SH!Handle(s, c).events = <<SH!Event("deleted", "none", s.version + 1)>>
      BY <2>1, <2>3 DEF SH!Delete, SH!Given, SH!Emit, SH!Accept
    <3>2. LegalShoot(s, SH!Event("deleted", "none", s.version + 1))
      BY <1>1, <2>3 DEF LegalShoot, NextVersion, SH!Event
    <3> QED
      BY <1>3, <3>1, <3>2
  <2> QED
    BY <1>1, <2>2, <2>3
<1>6. CASE c.type \in SH!ShootOps /\ c.arg \in SH!Items(c.type)
  <2>1. c.type # "plan" /\ c.type # "delete"
    BY <1>6 DEF SH!ShootOps, SH!FrozenOps, SH!OpenOps
  <2> DEFINE op == [op |-> c.type, day |-> s.created, version |-> c.version, item |-> c.arg]
  <2>2. SH!Handle(s, c) = SH!Given(~s.deleted /\ ~SH!ShootRejects(s.shoot, TRUE, op),
                                   IF SH!ShootIgnores(s.shoot, op) THEN SH!NoOp
                                   ELSE SH!Emit(s, c.type, c.arg))
    BY <1>6, <2>1 DEF SH!Handle
  <2>3. CASE ~(~s.deleted /\ ~SH!ShootRejects(s.shoot, TRUE, op))
    <3>1. SH!Handle(s, c) = SH!Reject
      BY <2>2, <2>3, Zenon DEF SH!Given
    <3> QED
      BY <1>3, <3>1 DEF SH!Reject
  <2>4. CASE ~s.deleted /\ ~SH!ShootRejects(s.shoot, TRUE, op)
    <3>1. SH!Handle(s, c) \in {SH!NoOp, SH!Emit(s, c.type, c.arg)}
      BY <2>2, <2>4, Zenon DEF SH!Given
    <3>2. ~s.deleted /\ s.shoot.status \notin SH!TerminalStatuses
      BY <2>4 DEF SH!ShootRejects
    <3>3. s.created
      <4>1. CASE c.type = "add_note"
        BY <1>1, <2>4, <4>1 DEF SH!ShootRejects, SH!FrozenOps
      <4>2. CASE c.type # "add_note"
        BY <1>1, <2>1, <4>2 DEF SoundShoot, CreatedOnce, SH!Expected, SH!ExpectExact
      <4> QED
        BY <4>1, <4>2
    <3>4. LegalShoot(s, SH!Event(c.type, c.arg, s.version + 1))
      BY <1>1, <1>6, <3>2, <3>3 DEF LegalShoot, NextVersion, SH!Event
    <3>5. SH!NoOp.events = << >>
      BY DEF SH!NoOp, SH!Accept
    <3>6. SH!Emit(s, c.type, c.arg).events = <<SH!Event(c.type, c.arg, s.version + 1)>>
      BY DEF SH!Emit, SH!Accept
    <3> QED
      BY <1>3, <3>1, <3>4, <3>5, <3>6
  <2> QED
    BY <2>3, <2>4
<1> QED
  BY <1>2, <1>4, <1>5, <1>6

LEMMA ShootProjects ==
  ASSUME NEW s, NEW e, NEW r \in ShootRows, SoundShoot(s), LegalShoot(s, e)
  PROVE  SH!Project(r, e) \in ShootRows /\ SH!Project(r, e).version \in {r.version, e.version, 0}
<1>1. s.version \in Nat /\ e.version \in Nat
  BY DEF SoundShoot, LegalShoot, NextVersion, SH!States
<1>2. CASE e.type = "planned"
  BY <1>1, <1>2, UnplannedTyped DEF ShootRows, SH!Project
<1>3. CASE e.type = "deleted"
  BY <1>1, <1>3, UnplannedTyped DEF ShootRows, SH!Project, SH!NoRow
<1>4. CASE e.type \in SH!ShootOps /\ e.arg \in SH!Items(e.type)
  <2>1. SH!ProjectShoot(r.shoot, e) \in SH!ShootStates
    BY <1>1, <1>4, ProjectShootTyped DEF ShootRows
  <2> QED
    BY <1>1, <1>4, <2>1, ShootOpsApart DEF ShootRows, SH!Project, SH!IfNewer, SH!Newer, SH!Touch
<1> QED
  BY <1>2, <1>3, <1>4 DEF LegalShoot

LEMMA ShootAgrees ==
  ASSUME NEW s, NEW e, NEW r \in ShootRows, SoundShoot(s), LegalShoot(s, e), r.present,
         ~SH!Apply(s, e).deleted
  PROVE  /\ r.version >= e.version => SH!Project(r, e) = r
         /\ s.version > 0 /\ (\A f \in {"version", "shoot"} : r[f] = s[f]) =>
              /\ SH!Project(r, e).present
              /\ \A f \in {"version", "shoot"} : SH!Project(r, e)[f] = SH!Apply(s, e)[f]
<1>1. /\ s.version \in Nat /\ e.version = s.version + 1 /\ s.shoot \in SH!ShootStates
      /\ s \in SH!States /\ s.shoot.version = s.version
  BY DEF SoundShoot, LegalShoot, NextVersion, SH!States
<1>2. e.type # "deleted"
  BY <1>1 DEF SH!Apply, SH!States
<1>3. r.version >= e.version => SH!Project(r, e) = r
  BY <1>1, <1>2 DEF ShootRows, SH!Project, SH!IfNewer, SH!Newer
<1>4. SUFFICES ASSUME s.version > 0, \A f \in {"version", "shoot"} : r[f] = s[f]
      PROVE  /\ SH!Project(r, e).present
             /\ \A f \in {"version", "shoot"} : SH!Project(r, e)[f] = SH!Apply(s, e)[f]
  BY <1>3
<1>5. e.version > r.version /\ r.version = s.version /\ r.shoot = s.shoot
  BY <1>1, <1>4
<1>6. CASE e.type = "planned"
  BY <1>1, <1>4, <1>6, ShootOpsApart DEF LegalShoot, SH!Blank
<1>7. CASE e.type \in SH!ShootOps /\ e.arg \in SH!Items(e.type)
        /\ s.shoot.status \notin SH!TerminalStatuses
  <2> DEFINE x == SH!ShootApplied(s.shoot, [op |-> e.type, item |-> e.arg])
  <2>1. SH!ProjectShoot(r.shoot, e) = x
    BY <1>1, <1>5, <1>7, ProjectShootAgrees
  <2>2. SH!Project(r, e) = [r EXCEPT !.shoot = x, !.version = e.version]
    BY <1>1, <1>5, <1>7, <2>1, ShootOpsApart DEF ShootRows, SH!Project, SH!IfNewer, SH!Newer,
       SH!Touch
  <2>3. SH!Apply(s, e) = [s EXCEPT !.version = e.version, !.shoot = x]
    BY <1>7, ShootOpsApart DEF SH!Apply
  <2> HIDE DEF x
  <2> QED
    BY <1>1, <2>2, <2>3 DEF ShootRows, SH!States
<1> QED
  BY <1>2, <1>6, <1>7 DEF LegalShoot

LEMMA ShootBegins ==
  /\ SoundShoot(SH!Blank) /\ SH!Blank.version = 0
  /\ SH!NoRow \in ShootRows /\ SH!NoRow.version = 0 /\ SH!View(SH!Blank) = SH!NoRow
BY UnplannedTyped DEF SoundShoot, ShootRows, CreatedOnce, SH!States, SH!Blank, SH!NoRow, SH!View

LEMMA ShootStarts ==
  ASSUME NEW e, LegalShoot(SH!Blank, e)
  PROVE  /\ SH!Project(SH!NoRow, e).present
         /\ \A f \in {"version", "shoot"} : SH!Project(SH!NoRow, e)[f] = SH!Apply(SH!Blank, e)[f]
<1>1. e.type = "planned" /\ e.version = 1
  BY DEF LegalShoot, NextVersion, SH!Blank
<1>2. SH!Project(SH!NoRow, e) = [present |-> TRUE, version |-> e.version, shoot |-> SH!PlannedShoot]
  BY <1>1 DEF SH!Project, SH!NoRow
<1>3. SH!Apply(SH!Blank, e) = [SH!Blank EXCEPT !.created = TRUE, !.version = e.version,
                                               !.shoot = SH!PlannedShoot]
  BY <1>1 DEF SH!Apply
<1>4. SH!Blank \in SH!States
  BY ShootBegins DEF SoundShoot
<1> QED
  BY <1>2, <1>3, <1>4 DEF SH!States

LEMMA ShootShows ==
  ASSUME NEW s, NEW r \in ShootRows, SoundShoot(s), r.present, s.version > 0, ~s.deleted,
         \A f \in {"version", "shoot"} : r[f] = s[f]
  PROVE  r = SH!View(s)
BY DEF ShootRows, SoundShoot, CreatedOnce, SH!States, SH!View

LEMMA ShootEnds ==
  ASSUME NEW s, NEW e, NEW r, SoundShoot(s), LegalShoot(s, e)
  PROVE  /\ ~s.deleted
         /\ SH!Apply(s, e).deleted => s # SH!Blank /\ SH!Project(r, e) = SH!NoRow
<1>1. e.type # "deleted" => SH!Apply(s, e).deleted = s.deleted
  BY DEF SoundShoot, SH!States, SH!Apply
<1>2. e.type = "deleted" => s # SH!Blank /\ SH!Project(r, e) = SH!NoRow
  BY ShootOpsApart DEF LegalShoot, SH!Blank, SH!Project
<1> QED
  BY <1>1, <1>2 DEF LegalShoot

LEMMA ShootViews ==
  ASSUME NEW s, SoundShoot(s)
  PROVE  /\ SH!View(s).version \in {0, s.version}
         /\ s.deleted => SH!View(s) = SH!NoRow
BY DEF SH!View, SH!NoRow

LEMMA ShootFollows ==
  ASSUME NEW e, NEW r \in ShootRows, NEW u, NEW c \in Nat, NEW n \in Nat \ {0}, NEW m \in Nat,
         c <= n, m = IF c + 1 > n THEN c + 1 ELSE n, \A i \in 0..m : u[i].version = i,
         SoundShoot(u[c]), LegalShoot(u[c], e), u[c + 1] = SH!Apply(u[c], e), ~u[c + 1].deleted,
             AliveShoot(r, n, u)
  PROVE  AliveShoot(SH!Project(r, e), m, u)
<1>1. r.present /\ \A f \in {"version", "shoot"} : r[f] = u[n][f]
  BY DEF AliveShoot, Latest
<1>2. r.version = n /\ e.version = c + 1 /\ u[c].version = c
  BY <1>1 DEF LegalShoot, NextVersion
<1>3. CASE c = n
  BY <1>1, <1>2, <1>3, ShootAgrees DEF AliveShoot, Latest
<1>4. CASE c < n
  BY <1>1, <1>2, <1>4, ShootAgrees DEF AliveShoot, Latest
<1> QED
  BY <1>3, <1>4

LEMMA ShootCaught ==
  ASSUME NEW r \in ShootRows, NEW u, NEW n \in Nat, SoundShoot(u[n]), u[n].version > 0,
         ~u[n].deleted,
         AliveShoot(r, n, u)
  PROVE  r = SH!View(u[n])
BY ShootShows DEF AliveShoot, Latest

-----------------------------------------------------------------------------
(* Pieces *)

LEMMA PieceApplies ==
  ASSUME NEW s, NEW e, SoundPiece(s), LegalPiece(s, e)
  PROVE  SoundPiece(P!Apply(s, e)) /\ P!Apply(s, e).version = s.version + 1
<1> DEFINE t == P!Apply(s, e)
           Goal == t \in P!States /\ t.version = s.version + 1 /\ t.created
<1>1. s \in P!States /\ s.version \in Nat /\ e.version \in Nat /\ e.version = s.version + 1
  BY DEF SoundPiece, LegalPiece, NextVersion, P!States
<1> SUFFICES Goal
  BY <1>1 DEF SoundPiece, CreatedOnce
<1>2. CASE e.type = "PieceCreated"
  <2>1. t = [[s EXCEPT !.created = TRUE, !.name = e.arg.name, !.category = e.arg.category,
               !.seasons = e.arg.seasons, !.notes = "blank", !.details = {}, !.photos = {}]
                   EXCEPT !.version = e.version]
    BY <1>2 DEF P!Apply
  <2>2. s.version = 0
    BY <1>2 DEF LegalPiece, P!Blank
  <2> HIDE DEF t
  <2>3. t \in P!States
    BY <1>1, <1>2, <2>1 DEF LegalPiece, P!States, P!Details
  <2> QED
    BY <1>1, <2>1, <2>2, <2>3 DEF P!States
<1>3. CASE e.type = "PieceRenamed"
  <2>1. t = [[s EXCEPT !.name = e.arg] EXCEPT !.version = e.version]
    BY <1>3 DEF P!Apply
  <2>2. s.created
    BY <1>3 DEF LegalPiece
  <2> HIDE DEF t
  <2>3. t \in P!States
    BY <1>1, <1>3, <2>1 DEF LegalPiece, P!States, P!Details
  <2> QED
    BY <1>1, <2>1, <2>2, <2>3 DEF P!States
<1>4. CASE e.type = "PieceNotesUpdated"
  <2>1. t = [[s EXCEPT !.notes = e.arg] EXCEPT !.version = e.version]
    BY <1>4 DEF P!Apply
  <2>2. s.created
    BY <1>4 DEF LegalPiece
  <2> HIDE DEF t
  <2>3. t \in P!States
    BY <1>1, <1>4, <2>1 DEF LegalPiece, P!States, P!Details
  <2> QED
    BY <1>1, <2>1, <2>2, <2>3 DEF P!States
<1>5. CASE e.type = "PieceCategorySet"
  <2>1. t = [[s EXCEPT !.category = e.arg] EXCEPT !.version = e.version]
    BY <1>5 DEF P!Apply
  <2>2. s.created
    BY <1>5 DEF LegalPiece
  <2> HIDE DEF t
  <2>3. t \in P!States
    BY <1>1, <1>5, <2>1 DEF LegalPiece, P!States, P!Details
  <2> QED
    BY <1>1, <2>1, <2>2, <2>3 DEF P!States
<1>6. CASE e.type = "PieceAddedToSeason"
  <2>1. t = [[s EXCEPT !.seasons = @ \cup {e.arg}] EXCEPT !.version = e.version]
    BY <1>6 DEF P!Apply
  <2>2. s.created
    BY <1>6 DEF LegalPiece
  <2> HIDE DEF t
  <2>3. t \in P!States
    BY <1>1, <1>6, <2>1 DEF LegalPiece, P!States, P!Details
  <2> QED
    BY <1>1, <2>1, <2>2, <2>3 DEF P!States
<1>7. CASE e.type = "PieceRemovedFromSeason"
  <2>1. t = [[s EXCEPT !.seasons = @ \ {e.arg}] EXCEPT !.version = e.version]
    BY <1>7 DEF P!Apply
  <2>2. s.created
    BY <1>7 DEF LegalPiece
  <2> HIDE DEF t
  <2>3. t \in P!States
    BY <1>1, <1>7, <2>1 DEF LegalPiece, P!States, P!Details
  <2> QED
    BY <1>1, <2>1, <2>2, <2>3 DEF P!States
<1>8. CASE e.type = "PieceDetailAdded"
  <2>1. t = [[s EXCEPT !.details = P!Others(@, e.arg.id) \cup {e.arg}] EXCEPT !.version = e.version]
    BY <1>8 DEF P!Apply
  <2>2. s.created
    BY <1>8 DEF LegalPiece
  <2> HIDE DEF t
  <2>3. t \in P!States
    BY <1>1, <1>8, <2>1 DEF LegalPiece, P!States, P!Details, P!Others
  <2> QED
    BY <1>1, <2>1, <2>2, <2>3 DEF P!States
<1>9. CASE e.type = "PieceDetailUpdated"
  <2>1. t = [[s EXCEPT !.details = P!Others(@, e.arg.id) \cup {e.arg}] EXCEPT !.version = e.version]
    BY <1>9 DEF P!Apply
  <2>2. s.created
    BY <1>9 DEF LegalPiece
  <2> HIDE DEF t
  <2>3. t \in P!States
    BY <1>1, <1>9, <2>1 DEF LegalPiece, P!States, P!Details, P!Others
  <2> QED
    BY <1>1, <2>1, <2>2, <2>3 DEF P!States
<1>10. CASE e.type = "PieceDetailRemoved"
  <2>1. t = [[s EXCEPT !.details = P!Others(@, e.arg)] EXCEPT !.version = e.version]
    BY <1>10 DEF P!Apply
  <2>2. s.created
    BY <1>10 DEF LegalPiece
  <2> HIDE DEF t
  <2>3. t \in P!States
    BY <1>1, <1>10, <2>1 DEF LegalPiece, P!States, P!Details, P!Others
  <2> QED
    BY <1>1, <2>1, <2>2, <2>3 DEF P!States
<1>11. CASE e.type = "PiecePhotoLinked"
  <2>1. t = [[s EXCEPT !.photos = @ \cup {e.arg}] EXCEPT !.version = e.version]
    BY <1>11 DEF P!Apply
  <2>2. s.created
    BY <1>11 DEF LegalPiece
  <2> HIDE DEF t
  <2>3. t \in P!States
    BY <1>1, <1>11, <2>1 DEF LegalPiece, P!States, P!Details
  <2> QED
    BY <1>1, <2>1, <2>2, <2>3 DEF P!States
<1>12. CASE e.type = "PiecePhotoUnlinked"
  <2>1. t = [[s EXCEPT !.photos = @ \ {e.arg}] EXCEPT !.version = e.version]
    BY <1>12 DEF P!Apply
  <2>2. s.created
    BY <1>12 DEF LegalPiece
  <2> HIDE DEF t
  <2>3. t \in P!States
    BY <1>1, <1>12, <2>1 DEF LegalPiece, P!States, P!Details
  <2> QED
    BY <1>1, <2>1, <2>2, <2>3 DEF P!States
<1>13. CASE e.type = "PieceDeleted"
  <2>1. t = [[s EXCEPT !.deleted = TRUE] EXCEPT !.version = e.version]
    BY <1>13 DEF P!Apply
  <2>2. s.created
    BY <1>13 DEF LegalPiece
  <2> HIDE DEF t
  <2>3. t \in P!States
    BY <1>1, <1>13, <2>1 DEF LegalPiece, P!States, P!Details
  <2> QED
    BY <1>1, <2>1, <2>2, <2>3 DEF P!States
<1> QED
  BY <1>2, <1>3, <1>4, <1>5, <1>6, <1>7, <1>8, <1>9, <1>10, <1>11, <1>12, <1>13 DEF LegalPiece

LEMMA PieceHandles ==
  ASSUME NEW s, SoundPiece(s), NEW r, NEW v \in Nat, NEW c \in P!Requests(r, v) \cup P!Deletions,
         P!Expected(c, s.version)
  PROVE  /\ \/ P!Handle(s, c).events = << >>
            \/ \E e : P!Handle(s, c).events = <<e>> /\ LegalPiece(s, e)
         /\ P!Expected(c, 0) \/ v = s.version
<1> DEFINE Emits(d) == d.events = << >> \/ \E e : d.events = <<e>> /\ LegalPiece(s, e)
<1>1. s.version \in Nat /\ s.created \in BOOLEAN /\ s.deleted \in BOOLEAN
  BY DEF SoundPiece, P!States
<1>2. \/ /\ c.type = "CreatePiece" /\ c.arg.name \in Texts \cup {"blank"}
         /\ c.arg.category \in Categories \cup {"none"} /\ c.arg.seasons \in SUBSET Seasons
      \/ c.type = "DeletePiece"
      \/ /\ c.version = v
         /\ \/ c.type = "RenamePiece" /\ c.arg \in Texts \cup {"blank"}
            \/ c.type = "UpdatePieceNotes" /\ c.arg \in Texts
            \/ c.type \in {"AddPieceToSeason", "RemovePieceFromSeason"} /\ c.arg \in Seasons
            \/ c.type \in {"AddPieceDetail", "UpdatePieceDetail"} /\ c.arg \in P!Details
            \/ c.type = "RemovePieceDetail" /\ c.arg \in DetailIds
            \/ c.type = "SetPieceCategory" /\ c.arg \in Categories \cup {"none"}
            \/ c.type \in {"LinkPiecePhoto", "UnlinkPiecePhoto"} /\ c.arg \in Photos
  BY DEF P!Requests, P!CreatePieceRequests, P!NotesRequests, P!RenameRequests,
      P!AddDetailRequests, P!UpdateDetailRequests, P!RemoveDetailRequests, P!SetCategoryRequests,
      P!AddToSeasonRequests, P!RemoveFromSeasonRequests, P!LinkPhotoRequests,
      P!UnlinkPhotoRequests, P!Deletions, P!Found, P!Cmd
<1>3. P!Expected(c, 0) \/ v = s.version
  BY <1>1, <1>2 DEF P!Expected, P!ExpectAny, P!ExpectEmpty, P!ExpectExact
<1>4. CASE c.type = "CreatePiece"
  BY <1>4, <1>1, <1>2 DEF SoundPiece, LegalPiece, NextVersion, CreatedOnce, P!Blank, P!Expected,
      P!ExpectEmpty, P!Handle, P!CreatePiece, P!Given, P!Created, P!Event, P!Accept, P!Reject,
      P!NoOp, P!Fresh
<1>5. CASE c.type = "RenamePiece"
  BY <1>5, <1>1, <1>2 DEF SoundPiece, LegalPiece, NextVersion, CreatedOnce, P!Blank, P!Expected,
      P!ExpectExact, P!Handle, P!RenamePiece, P!Given, P!Emit, P!Event, P!Accept, P!Reject,
      P!NoOp, P!Fresh
<1>6. CASE c.type = "UpdatePieceNotes"
  BY <1>6, <1>1, <1>2 DEF SoundPiece, LegalPiece, NextVersion, CreatedOnce, P!Blank, P!Expected,
      P!ExpectExact, P!Handle, P!UpdatePieceNotes, P!Given, P!Emit, P!Event, P!Accept, P!Reject,
      P!NoOp, P!Fresh
<1>7. CASE c.type = "AddPieceToSeason"
  BY <1>7, <1>1, <1>2 DEF SoundPiece, LegalPiece, NextVersion, CreatedOnce, P!Blank, P!Expected,
      P!ExpectExact, P!Handle, P!AddPieceToSeason, P!Given, P!Emit, P!Event, P!Accept, P!Reject,
      P!NoOp, P!Fresh
<1>8. CASE c.type = "RemovePieceFromSeason"
  BY <1>8, <1>1, <1>2 DEF SoundPiece, LegalPiece, NextVersion, CreatedOnce, P!Blank, P!Expected,
      P!ExpectExact, P!Handle, P!RemovePieceFromSeason, P!Given, P!Emit, P!Event, P!Accept,
      P!Reject, P!NoOp, P!Fresh
<1>9. CASE c.type = "AddPieceDetail"
  BY <1>9, <1>1, <1>2 DEF SoundPiece, LegalPiece, NextVersion, CreatedOnce, P!Blank, P!Expected,
      P!ExpectExact, P!Handle, P!AddPieceDetail, P!Given, P!Emit, P!Event, P!Accept, P!Reject,
      P!NoOp, P!Fresh
<1>10. CASE c.type = "UpdatePieceDetail"
  BY <1>10, <1>1, <1>2 DEF SoundPiece, LegalPiece, NextVersion, CreatedOnce, P!Blank, P!Expected,
      P!ExpectExact, P!Handle, P!UpdatePieceDetail, P!HasDetail, P!Given, P!Emit, P!Event,
      P!Accept, P!Reject, P!NoOp, P!Fresh
<1>11. CASE c.type = "RemovePieceDetail"
  BY <1>11, <1>1, <1>2 DEF SoundPiece, LegalPiece, NextVersion, CreatedOnce, P!Blank, P!Expected,
      P!ExpectExact, P!Handle, P!RemovePieceDetail, P!HasDetail, P!Given, P!Emit, P!Event,
      P!Accept, P!Reject, P!NoOp, P!Fresh
<1>12. CASE c.type = "SetPieceCategory"
  BY <1>12, <1>1, <1>2 DEF SoundPiece, LegalPiece, NextVersion, CreatedOnce, P!Blank, P!Expected,
      P!ExpectExact, P!Handle, P!SetPieceCategory, P!Given, P!Emit, P!Event, P!Accept, P!Reject,
      P!NoOp, P!Fresh
<1>13. CASE c.type = "LinkPiecePhoto"
  BY <1>13, <1>1, <1>2 DEF SoundPiece, LegalPiece, NextVersion, CreatedOnce, P!Blank, P!Expected,
      P!ExpectExact, P!Handle, P!LinkPiecePhoto, P!Given, P!Emit, P!Event, P!Accept, P!Reject,
      P!NoOp, P!Fresh
<1>14. CASE c.type = "UnlinkPiecePhoto"
  BY <1>14, <1>1, <1>2 DEF SoundPiece, LegalPiece, NextVersion, CreatedOnce, P!Blank, P!Expected,
      P!ExpectExact, P!Handle, P!UnlinkPiecePhoto, P!Given, P!Emit, P!Event, P!Accept, P!Reject,
      P!NoOp, P!Fresh
<1>15. CASE c.type = "DeletePiece"
  <2>1. P!Handle(s, c) = P!Delete(s, "PieceDeleted")
    BY <1>15 DEF P!Handle
  <2>2. CASE s.deleted \/ ~s.created
    BY <1>3, <2>1, <2>2 DEF P!Delete, P!Given, P!NoOp, P!Accept, P!Reject
  <2>3. CASE ~s.deleted /\ s.created
    <3>1. P!Handle(s, c).events = <<P!Event("PieceDeleted", "none", s.version + 1)>>
      BY <2>1, <2>3 DEF P!Delete, P!Given, P!Emit, P!Accept
    <3>2. LegalPiece(s, P!Event("PieceDeleted", "none", s.version + 1))
      BY <1>1, <2>3 DEF LegalPiece, NextVersion, P!Event
    <3> QED
      BY <1>3, <3>1, <3>2
  <2> QED
    BY <1>1, <2>2, <2>3
<1> QED
  BY <1>2, <1>4, <1>5, <1>6, <1>7, <1>8, <1>9, <1>10, <1>11, <1>12, <1>13, <1>14, <1>15

LEMMA PieceProjects ==
  ASSUME NEW s, NEW e, NEW r \in PieceRows, SoundPiece(s), LegalPiece(s, e)
  PROVE  P!Project(r, e) \in PieceRows /\ P!Project(r, e).version \in {r.version, e.version, 0}
<1>1. s.version \in Nat /\ e.version \in Nat
  BY DEF SoundPiece, LegalPiece, NextVersion, P!States
<1>2. CASE e.type = "PieceCreated"
  BY <1>2, <1>1 DEF PieceRows, LegalPiece, P!Details, P!Others, P!Project, P!ProjectCreated,
      P!ProjectColumns, P!ProjectChildren, P!Columns, P!NoRow, P!Touch, P!Newer, P!IfNewer,
      P!TouchIfNewer
<1>3. CASE e.type = "PieceRenamed"
  BY <1>3, <1>1 DEF PieceRows, LegalPiece, P!Details, P!Others, P!Project, P!ProjectCreated,
      P!ProjectColumns, P!ProjectChildren, P!Columns, P!NoRow, P!Touch, P!Newer, P!IfNewer,
      P!TouchIfNewer
<1>4. CASE e.type = "PieceNotesUpdated"
  BY <1>4, <1>1 DEF PieceRows, LegalPiece, P!Details, P!Others, P!Project, P!ProjectCreated,
      P!ProjectColumns, P!ProjectChildren, P!Columns, P!NoRow, P!Touch, P!Newer, P!IfNewer,
      P!TouchIfNewer
<1>5. CASE e.type = "PieceCategorySet"
  BY <1>5, <1>1 DEF PieceRows, LegalPiece, P!Details, P!Others, P!Project, P!ProjectCreated,
      P!ProjectColumns, P!ProjectChildren, P!Columns, P!NoRow, P!Touch, P!Newer, P!IfNewer,
      P!TouchIfNewer
<1>6. CASE e.type = "PieceAddedToSeason"
  BY <1>6, <1>1 DEF PieceRows, LegalPiece, P!Details, P!Others, P!Project, P!ProjectCreated,
      P!ProjectColumns, P!ProjectChildren, P!Columns, P!NoRow, P!Touch, P!Newer, P!IfNewer,
      P!TouchIfNewer
<1>7. CASE e.type = "PieceRemovedFromSeason"
  BY <1>7, <1>1 DEF PieceRows, LegalPiece, P!Details, P!Others, P!Project, P!ProjectCreated,
      P!ProjectColumns, P!ProjectChildren, P!Columns, P!NoRow, P!Touch, P!Newer, P!IfNewer,
      P!TouchIfNewer
<1>8. CASE e.type = "PieceDetailAdded"
  BY <1>8, <1>1 DEF PieceRows, LegalPiece, P!Details, P!Others, P!Project, P!ProjectCreated,
      P!ProjectColumns, P!ProjectChildren, P!Columns, P!NoRow, P!Touch, P!Newer, P!IfNewer,
      P!TouchIfNewer
<1>9. CASE e.type = "PieceDetailUpdated"
  BY <1>9, <1>1 DEF PieceRows, LegalPiece, P!Details, P!Others, P!Project, P!ProjectCreated,
      P!ProjectColumns, P!ProjectChildren, P!Columns, P!NoRow, P!Touch, P!Newer, P!IfNewer,
      P!TouchIfNewer
<1>10. CASE e.type = "PieceDetailRemoved"
  BY <1>10, <1>1 DEF PieceRows, LegalPiece, P!Details, P!Others, P!Project, P!ProjectCreated,
      P!ProjectColumns, P!ProjectChildren, P!Columns, P!NoRow, P!Touch, P!Newer, P!IfNewer,
      P!TouchIfNewer
<1>11. CASE e.type = "PiecePhotoLinked"
  BY <1>11, <1>1 DEF PieceRows, LegalPiece, P!Details, P!Others, P!Project, P!ProjectCreated,
      P!ProjectColumns, P!ProjectChildren, P!Columns, P!NoRow, P!Touch, P!Newer, P!IfNewer,
      P!TouchIfNewer
<1>12. CASE e.type = "PiecePhotoUnlinked"
  BY <1>12, <1>1 DEF PieceRows, LegalPiece, P!Details, P!Others, P!Project, P!ProjectCreated,
      P!ProjectColumns, P!ProjectChildren, P!Columns, P!NoRow, P!Touch, P!Newer, P!IfNewer,
      P!TouchIfNewer
<1>13. CASE e.type = "PieceDeleted"
  BY <1>13, <1>1 DEF PieceRows, LegalPiece, P!Details, P!Others, P!Project, P!ProjectCreated,
      P!ProjectColumns, P!ProjectChildren, P!Columns, P!NoRow, P!Touch, P!Newer, P!IfNewer,
      P!TouchIfNewer
<1> QED
  BY <1>2, <1>3, <1>4, <1>5, <1>6, <1>7, <1>8, <1>9, <1>10, <1>11, <1>12, <1>13 DEF LegalPiece

LEMMA PieceKeepsColumns ==
  ASSUME NEW s, NEW e, NEW r \in PieceRows, SoundPiece(s), LegalPiece(s, e), r.present,
         e.type # "PieceDeleted"
  PROVE  /\ P!Project(r, e).present
         /\ r.version >= e.version => \A f \in {"version", "name", "category", "notes"} : P!Project(r, e)[f] = r[f]
<1>1. s.version \in Nat /\ e.version \in Nat
  BY DEF SoundPiece, LegalPiece, NextVersion, P!States
<1>3. CASE e.type = "PieceCreated"
  <2> DEFINE b == P!IfNewer(r, e, [r EXCEPT !.name = e.arg.name, !.category = e.arg.category,
                                    !.notes = "blank"])
  <2>1. P!Project(r, e) = P!ProjectCreated(r, e)
    BY <1>3 DEF P!Project, P!Columns
  <2>2. P!Project(r, e) = [b EXCEPT !.seasons = @ \cup e.arg.seasons]
    BY <2>1, Zenon DEF P!ProjectCreated
  <2>3. b \in PieceRows /\ b.present /\ (r.version >= e.version => b = r)
    <3>1. b \in PieceRows /\ b.present
      BY <1>1, <1>3 DEF LegalPiece, PieceRows, P!IfNewer, P!Newer, P!Touch
    <3>2. r.version >= e.version => ~P!Newer(r, e)
      BY <1>1 DEF PieceRows, P!Newer
    <3>3. r.version >= e.version => b = r
      BY <3>2, Zenon DEF P!IfNewer
    <3> QED
      BY <3>1, <3>3
  <2> HIDE DEF b
  <2> QED
    BY <2>2, <2>3 DEF PieceRows
<1>4. CASE e.type = "PieceRenamed"
  BY <1>4, <1>1 DEF PieceRows, LegalPiece, P!Others, P!Project, P!ProjectCreated,
      P!ProjectColumns, P!ProjectChildren, P!Columns, P!NoRow, P!Touch, P!Newer, P!IfNewer,
      P!TouchIfNewer
<1>5. CASE e.type = "PieceNotesUpdated"
  BY <1>5, <1>1 DEF PieceRows, LegalPiece, P!Others, P!Project, P!ProjectCreated,
      P!ProjectColumns, P!ProjectChildren, P!Columns, P!NoRow, P!Touch, P!Newer, P!IfNewer,
      P!TouchIfNewer
<1>6. CASE e.type = "PieceCategorySet"
  BY <1>6, <1>1 DEF PieceRows, LegalPiece, P!Others, P!Project, P!ProjectCreated,
      P!ProjectColumns, P!ProjectChildren, P!Columns, P!NoRow, P!Touch, P!Newer, P!IfNewer,
      P!TouchIfNewer
<1>7. CASE e.type = "PieceAddedToSeason"
  BY <1>7, <1>1 DEF PieceRows, LegalPiece, P!Others, P!Project, P!ProjectCreated,
      P!ProjectColumns, P!ProjectChildren, P!Columns, P!NoRow, P!Touch, P!Newer, P!IfNewer,
      P!TouchIfNewer
<1>8. CASE e.type = "PieceRemovedFromSeason"
  BY <1>8, <1>1 DEF PieceRows, LegalPiece, P!Others, P!Project, P!ProjectCreated,
      P!ProjectColumns, P!ProjectChildren, P!Columns, P!NoRow, P!Touch, P!Newer, P!IfNewer,
      P!TouchIfNewer
<1>9. CASE e.type = "PieceDetailAdded"
  BY <1>9, <1>1 DEF PieceRows, LegalPiece, P!Others, P!Project, P!ProjectCreated,
      P!ProjectColumns, P!ProjectChildren, P!Columns, P!NoRow, P!Touch, P!Newer, P!IfNewer,
      P!TouchIfNewer
<1>10. CASE e.type = "PieceDetailUpdated"
  BY <1>10, <1>1 DEF PieceRows, LegalPiece, P!Others, P!Project, P!ProjectCreated,
      P!ProjectColumns, P!ProjectChildren, P!Columns, P!NoRow, P!Touch, P!Newer, P!IfNewer,
      P!TouchIfNewer
<1>11. CASE e.type = "PieceDetailRemoved"
  BY <1>11, <1>1 DEF PieceRows, LegalPiece, P!Others, P!Project, P!ProjectCreated,
      P!ProjectColumns, P!ProjectChildren, P!Columns, P!NoRow, P!Touch, P!Newer, P!IfNewer,
      P!TouchIfNewer
<1>12. CASE e.type = "PiecePhotoLinked"
  BY <1>12, <1>1 DEF PieceRows, LegalPiece, P!Others, P!Project, P!ProjectCreated,
      P!ProjectColumns, P!ProjectChildren, P!Columns, P!NoRow, P!Touch, P!Newer, P!IfNewer,
      P!TouchIfNewer
<1>13. CASE e.type = "PiecePhotoUnlinked"
  BY <1>13, <1>1 DEF PieceRows, LegalPiece, P!Others, P!Project, P!ProjectCreated,
      P!ProjectColumns, P!ProjectChildren, P!Columns, P!NoRow, P!Touch, P!Newer, P!IfNewer,
      P!TouchIfNewer
<1> QED
  BY <1>3, <1>4, <1>5, <1>6, <1>7, <1>8, <1>9, <1>10, <1>11, <1>12, <1>13 DEF LegalPiece

LEMMA PieceSetsColumns ==
  ASSUME NEW s, NEW e, NEW r \in PieceRows, SoundPiece(s), LegalPiece(s, e), r.present,
         e.type # "PieceDeleted", s.version > 0, \A f \in {"version", "name", "category", "notes"} : r[f] = s[f]
  PROVE  \A f \in {"version", "name", "category", "notes"} : P!Project(r, e)[f] = P!Apply(s, e)[f]
<1>1. /\ s.version \in Nat /\ e.version \in Nat /\ e.version > r.version
      /\ r.version = s.version /\ r.name = s.name /\ r.category = s.category /\ r.notes = s.notes
  BY DEF SoundPiece, LegalPiece, NextVersion, P!States
<1>2. e.type # "PieceCreated"
  BY DEF LegalPiece, P!Blank
<1>3. CASE e.type = "PieceRenamed"
  BY <1>3, <1>1, <1>2 DEF PieceRows, SoundPiece, LegalPiece, P!States, P!Apply, P!Others,
      P!Project, P!ProjectCreated, P!ProjectColumns, P!ProjectChildren, P!Columns, P!NoRow,
      P!Touch, P!Newer, P!IfNewer, P!TouchIfNewer
<1>4. CASE e.type = "PieceNotesUpdated"
  BY <1>4, <1>1, <1>2 DEF PieceRows, SoundPiece, LegalPiece, P!States, P!Apply, P!Others,
      P!Project, P!ProjectCreated, P!ProjectColumns, P!ProjectChildren, P!Columns, P!NoRow,
      P!Touch, P!Newer, P!IfNewer, P!TouchIfNewer
<1>5. CASE e.type = "PieceCategorySet"
  BY <1>5, <1>1, <1>2 DEF PieceRows, SoundPiece, LegalPiece, P!States, P!Apply, P!Others,
      P!Project, P!ProjectCreated, P!ProjectColumns, P!ProjectChildren, P!Columns, P!NoRow,
      P!Touch, P!Newer, P!IfNewer, P!TouchIfNewer
<1>6. CASE e.type = "PieceAddedToSeason"
  BY <1>6, <1>1, <1>2 DEF PieceRows, SoundPiece, LegalPiece, P!States, P!Apply, P!Others,
      P!Project, P!ProjectCreated, P!ProjectColumns, P!ProjectChildren, P!Columns, P!NoRow,
      P!Touch, P!Newer, P!IfNewer, P!TouchIfNewer
<1>7. CASE e.type = "PieceRemovedFromSeason"
  BY <1>7, <1>1, <1>2 DEF PieceRows, SoundPiece, LegalPiece, P!States, P!Apply, P!Others,
      P!Project, P!ProjectCreated, P!ProjectColumns, P!ProjectChildren, P!Columns, P!NoRow,
      P!Touch, P!Newer, P!IfNewer, P!TouchIfNewer
<1>8. CASE e.type = "PieceDetailAdded"
  BY <1>8, <1>1, <1>2 DEF PieceRows, SoundPiece, LegalPiece, P!States, P!Apply, P!Others,
      P!Project, P!ProjectCreated, P!ProjectColumns, P!ProjectChildren, P!Columns, P!NoRow,
      P!Touch, P!Newer, P!IfNewer, P!TouchIfNewer
<1>9. CASE e.type = "PieceDetailUpdated"
  BY <1>9, <1>1, <1>2 DEF PieceRows, SoundPiece, LegalPiece, P!States, P!Apply, P!Others,
      P!Project, P!ProjectCreated, P!ProjectColumns, P!ProjectChildren, P!Columns, P!NoRow,
      P!Touch, P!Newer, P!IfNewer, P!TouchIfNewer
<1>10. CASE e.type = "PieceDetailRemoved"
  BY <1>10, <1>1, <1>2 DEF PieceRows, SoundPiece, LegalPiece, P!States, P!Apply, P!Others,
      P!Project, P!ProjectCreated, P!ProjectColumns, P!ProjectChildren, P!Columns, P!NoRow,
      P!Touch, P!Newer, P!IfNewer, P!TouchIfNewer
<1>11. CASE e.type = "PiecePhotoLinked"
  BY <1>11, <1>1, <1>2 DEF PieceRows, SoundPiece, LegalPiece, P!States, P!Apply, P!Others,
      P!Project, P!ProjectCreated, P!ProjectColumns, P!ProjectChildren, P!Columns, P!NoRow,
      P!Touch, P!Newer, P!IfNewer, P!TouchIfNewer
<1>12. CASE e.type = "PiecePhotoUnlinked"
  BY <1>12, <1>1, <1>2 DEF PieceRows, SoundPiece, LegalPiece, P!States, P!Apply, P!Others,
      P!Project, P!ProjectCreated, P!ProjectColumns, P!ProjectChildren, P!Columns, P!NoRow,
      P!Touch, P!Newer, P!IfNewer, P!TouchIfNewer
<1> QED
  BY <1>2, <1>3, <1>4, <1>5, <1>6, <1>7, <1>8, <1>9, <1>10, <1>11, <1>12 DEF LegalPiece

LEMMA PieceSetsMembers ==
  ASSUME NEW s, NEW e, NEW r \in PieceRows, SoundPiece(s), LegalPiece(s, e),
         r.present \/ s = P!Blank,
         e.type # "PieceDeleted", NEW f \in {"seasons", "details", "photos"}, NEW x
  PROVE  \/ x \in P!Project(r, e)[f] <=> x \in P!Apply(s, e)[f]
         \/ /\ x \in P!Project(r, e)[f] <=> x \in r[f]
            /\ x \in P!Apply(s, e)[f] <=> x \in s[f]
<1> DEFINE q == P!Project(r, e)
           t == P!Apply(s, e)
<1> SUFFICES \/ x \in q[f] <=> x \in t[f]
             \/ (x \in q[f] <=> x \in r[f]) /\ (x \in t[f] <=> x \in s[f])
  OBVIOUS
<1>1. s \in P!States /\ s.version \in Nat /\ e.version \in Nat
  BY DEF SoundPiece, LegalPiece, NextVersion, P!States
<1>2. e.type # "PieceCreated" => r.present
  BY DEF LegalPiece, P!Blank
<1>3. CASE e.type = "PieceCreated"
  <2>1. t = [[s EXCEPT !.created = TRUE, !.name = e.arg.name, !.category = e.arg.category,
                       !.seasons = e.arg.seasons, !.notes = "blank", !.details = {}, !.photos = {}]
               EXCEPT !.version = e.version]
    BY <1>3 DEF P!Apply
  <2>2. s.seasons = {} /\ s.details = {} /\ s.photos = {}
    BY <1>3 DEF LegalPiece, P!Blank
  <2> HIDE DEF t
  <2>3. t.seasons = e.arg.seasons /\ t.details = {} /\ t.photos = {}
    BY <1>1, <2>1 DEF P!States
  <2>4. CASE r.present
    <3> DEFINE b == P!IfNewer(r, e, [r EXCEPT !.name = e.arg.name, !.category = e.arg.category,
                                      !.notes = "blank"])
    <3>0. q = P!ProjectCreated(r, e)
      BY <1>3 DEF P!Project, P!Columns
    <3>1. q = [b EXCEPT !.seasons = @ \cup e.arg.seasons]
      BY <2>4, <3>0, Zenon DEF P!ProjectCreated
    <3>2. b \in PieceRows /\ b.seasons = r.seasons /\ b.details = r.details /\ b.photos = r.photos
      BY <1>1, <1>3 DEF LegalPiece, PieceRows, P!IfNewer, P!Newer, P!Touch
    <3> HIDE DEF b, q
    <3>3. q.seasons = r.seasons \cup e.arg.seasons /\ q.details = r.details /\ q.photos = r.photos
      BY <3>1, <3>2 DEF PieceRows
    <3> QED
      BY <2>2, <2>3, <3>3
  <2>5. CASE ~r.present
    <3>0. q = P!ProjectCreated(r, e)
      BY <1>3 DEF P!Project, P!Columns
    <3>1. q = [[P!NoRow EXCEPT !.present = TRUE, !.version = e.version, !.name = e.arg.name,
                               !.category = e.arg.category] EXCEPT !.seasons = @ \cup e.arg.seasons]
      BY <2>5, <3>0, Zenon DEF P!ProjectCreated
    <3> HIDE DEF q
    <3>2. q.seasons = e.arg.seasons /\ q.details = {} /\ q.photos = {}
      BY <3>1 DEF P!NoRow
    <3> QED
      BY <2>3, <3>2
  <2> QED
    BY <2>4, <2>5
<1>4. CASE e.type = "PieceRenamed"
  <2>1. t = [[s EXCEPT !.name = e.arg] EXCEPT !.version = e.version]
    BY <1>4 DEF P!Apply
  <2>2. q \in {r, [[r EXCEPT !.name = e.arg] EXCEPT !.version = e.version]}
    BY <1>1, <1>2, <1>4 DEF P!Project, P!Columns, P!ProjectColumns, P!IfNewer, P!Touch
  <2> HIDE DEF t, q
  <2>3. t.seasons = s.seasons /\ t.details = s.details /\ t.photos = s.photos
    BY <1>1, <2>1 DEF P!States
  <2>4. q.seasons = r.seasons /\ q.details = r.details /\ q.photos = r.photos
    BY <2>2 DEF PieceRows
  <2> QED
    BY <2>3, <2>4
<1>5. CASE e.type = "PieceNotesUpdated"
  <2>1. t = [[s EXCEPT !.notes = e.arg] EXCEPT !.version = e.version]
    BY <1>5 DEF P!Apply
  <2>2. q \in {r, [[r EXCEPT !.notes = e.arg] EXCEPT !.version = e.version]}
    BY <1>1, <1>2, <1>5 DEF P!Project, P!Columns, P!ProjectColumns, P!IfNewer, P!Touch
  <2> HIDE DEF t, q
  <2>3. t.seasons = s.seasons /\ t.details = s.details /\ t.photos = s.photos
    BY <1>1, <2>1 DEF P!States
  <2>4. q.seasons = r.seasons /\ q.details = r.details /\ q.photos = r.photos
    BY <2>2 DEF PieceRows
  <2> QED
    BY <2>3, <2>4
<1>6. CASE e.type = "PieceCategorySet"
  <2>1. t = [[s EXCEPT !.category = e.arg] EXCEPT !.version = e.version]
    BY <1>6 DEF P!Apply
  <2>2. q \in {r, [[r EXCEPT !.category = e.arg] EXCEPT !.version = e.version]}
    BY <1>1, <1>2, <1>6 DEF P!Project, P!Columns, P!ProjectColumns, P!IfNewer, P!Touch
  <2> HIDE DEF t, q
  <2>3. t.seasons = s.seasons /\ t.details = s.details /\ t.photos = s.photos
    BY <1>1, <2>1 DEF P!States
  <2>4. q.seasons = r.seasons /\ q.details = r.details /\ q.photos = r.photos
    BY <2>2 DEF PieceRows
  <2> QED
    BY <2>3, <2>4
<1>7. CASE e.type = "PieceAddedToSeason"
  <2>1. t = [[s EXCEPT !.seasons = @ \cup {e.arg}] EXCEPT !.version = e.version]
    BY <1>7 DEF P!Apply
  <2>2. q \in {[r EXCEPT !.seasons = @ \cup {e.arg}], [[r
          EXCEPT !.seasons = @ \cup {e.arg}] EXCEPT !.version = e.version]}
    BY <1>1, <1>2, <1>7 DEF P!Project, P!Columns, P!ProjectChildren, P!TouchIfNewer, P!Touch
  <2> HIDE DEF t, q
  <2>3. t.seasons = s.seasons \cup {e.arg} /\ t.details = s.details /\ t.photos = s.photos
    BY <1>1, <2>1 DEF P!States
  <2>4. q.seasons = r.seasons \cup {e.arg} /\ q.details = r.details /\ q.photos = r.photos
    BY <2>2 DEF PieceRows
  <2> QED
    BY <2>3, <2>4
<1>8. CASE e.type = "PieceRemovedFromSeason"
  <2>1. t = [[s EXCEPT !.seasons = @ \ {e.arg}] EXCEPT !.version = e.version]
    BY <1>8 DEF P!Apply
  <2>2. q \in {[r EXCEPT !.seasons = @ \ {e.arg}], [[r
          EXCEPT !.seasons = @ \ {e.arg}] EXCEPT !.version = e.version]}
    BY <1>1, <1>2, <1>8 DEF P!Project, P!Columns, P!ProjectChildren, P!TouchIfNewer, P!Touch
  <2> HIDE DEF t, q
  <2>3. t.seasons = s.seasons \ {e.arg} /\ t.details = s.details /\ t.photos = s.photos
    BY <1>1, <2>1 DEF P!States
  <2>4. q.seasons = r.seasons \ {e.arg} /\ q.details = r.details /\ q.photos = r.photos
    BY <2>2 DEF PieceRows
  <2> QED
    BY <2>3, <2>4
<1>9. CASE e.type = "PieceDetailAdded"
  <2>1. t = [[s EXCEPT !.details = P!Others(@, e.arg.id) \cup {e.arg}] EXCEPT !.version = e.version]
    BY <1>9 DEF P!Apply
  <2>2. q \in {[r EXCEPT !.details = P!Others(@, e.arg.id) \cup {e.arg}],
                [[r EXCEPT !.details = P!Others(@, e.arg.id) \cup {e.arg}]
                    EXCEPT !.version = e.version]}
    BY <1>1, <1>2, <1>9 DEF P!Project, P!Columns, P!ProjectChildren, P!TouchIfNewer, P!Touch
  <2> HIDE DEF t, q
  <2>3. t.seasons = s.seasons /\ t.details = P!Others(s.details, e.arg.id) \cup {e.arg}
          /\ t.photos = s.photos
    BY <1>1, <2>1 DEF P!States
  <2>4. q.seasons = r.seasons /\ q.details = P!Others(r.details, e.arg.id) \cup {e.arg}
          /\ q.photos = r.photos
    BY <2>2 DEF PieceRows
  <2> QED
    BY <2>3, <2>4 DEF P!Others
<1>10. CASE e.type = "PieceDetailUpdated"
  <2>1. t = [[s EXCEPT !.details = P!Others(@, e.arg.id) \cup {e.arg}] EXCEPT !.version = e.version]
    BY <1>10 DEF P!Apply
  <2>2. q \in {[r EXCEPT !.details = P!Others(@, e.arg.id) \cup {e.arg}],
                [[r EXCEPT !.details = P!Others(@, e.arg.id) \cup {e.arg}]
                    EXCEPT !.version = e.version]}
    BY <1>1, <1>2, <1>10 DEF P!Project, P!Columns, P!ProjectChildren, P!TouchIfNewer, P!Touch
  <2> HIDE DEF t, q
  <2>3. t.seasons = s.seasons /\ t.details = P!Others(s.details, e.arg.id) \cup {e.arg}
          /\ t.photos = s.photos
    BY <1>1, <2>1 DEF P!States
  <2>4. q.seasons = r.seasons /\ q.details = P!Others(r.details, e.arg.id) \cup {e.arg}
          /\ q.photos = r.photos
    BY <2>2 DEF PieceRows
  <2> QED
    BY <2>3, <2>4 DEF P!Others
<1>11. CASE e.type = "PieceDetailRemoved"
  <2>1. t = [[s EXCEPT !.details = P!Others(@, e.arg)] EXCEPT !.version = e.version]
    BY <1>11 DEF P!Apply
  <2>2. q \in {[r EXCEPT !.details = P!Others(@, e.arg)],
                [[r EXCEPT !.details = P!Others(@, e.arg)] EXCEPT !.version = e.version]}
    BY <1>1, <1>2, <1>11 DEF P!Project, P!Columns, P!ProjectChildren, P!TouchIfNewer, P!Touch
  <2> HIDE DEF t, q
  <2>3. t.seasons = s.seasons /\ t.details = P!Others(s.details, e.arg) /\ t.photos = s.photos
    BY <1>1, <2>1 DEF P!States
  <2>4. q.seasons = r.seasons /\ q.details = P!Others(r.details, e.arg) /\ q.photos = r.photos
    BY <2>2 DEF PieceRows
  <2> QED
    BY <2>3, <2>4 DEF P!Others
<1>12. CASE e.type = "PiecePhotoLinked"
  <2>1. t = [[s EXCEPT !.photos = @ \cup {e.arg}] EXCEPT !.version = e.version]
    BY <1>12 DEF P!Apply
  <2>2. q \in {[r EXCEPT !.photos = @ \cup {e.arg}], [[r
          EXCEPT !.photos = @ \cup {e.arg}] EXCEPT !.version = e.version]}
    BY <1>1, <1>2, <1>12 DEF P!Project, P!Columns, P!ProjectChildren, P!TouchIfNewer, P!Touch
  <2> HIDE DEF t, q
  <2>3. t.seasons = s.seasons /\ t.details = s.details /\ t.photos = s.photos \cup {e.arg}
    BY <1>1, <2>1 DEF P!States
  <2>4. q.seasons = r.seasons /\ q.details = r.details /\ q.photos = r.photos \cup {e.arg}
    BY <2>2 DEF PieceRows
  <2> QED
    BY <2>3, <2>4
<1>13. CASE e.type = "PiecePhotoUnlinked"
  <2>1. t = [[s EXCEPT !.photos = @ \ {e.arg}] EXCEPT !.version = e.version]
    BY <1>13 DEF P!Apply
  <2>2. q \in {[r EXCEPT !.photos = @ \ {e.arg}], [[r
          EXCEPT !.photos = @ \ {e.arg}] EXCEPT !.version = e.version]}
    BY <1>1, <1>2, <1>13 DEF P!Project, P!Columns, P!ProjectChildren, P!TouchIfNewer, P!Touch
  <2> HIDE DEF t, q
  <2>3. t.seasons = s.seasons /\ t.details = s.details /\ t.photos = s.photos \ {e.arg}
    BY <1>1, <2>1 DEF P!States
  <2>4. q.seasons = r.seasons /\ q.details = r.details /\ q.photos = r.photos \ {e.arg}
    BY <2>2 DEF PieceRows
  <2> QED
    BY <2>3, <2>4
<1> QED
  BY <1>3, <1>4, <1>5, <1>6, <1>7, <1>8, <1>9, <1>10, <1>11, <1>12, <1>13 DEF LegalPiece

LEMMA PieceBegins ==
  /\ SoundPiece(P!Blank) /\ P!Blank.version = 0
  /\ P!NoRow \in PieceRows /\ P!NoRow.version = 0 /\ P!View(P!Blank) = P!NoRow
BY DEF SoundPiece, PieceRows, CreatedOnce, P!States, P!Blank, P!NoRow, P!View

LEMMA PieceEnds ==
  ASSUME NEW s, NEW e, NEW r, SoundPiece(s), LegalPiece(s, e)
  PROVE  /\ ~s.deleted
         /\ P!Apply(s, e).deleted => s # P!Blank /\ P!Project(r, e) = P!NoRow
<1>1. ~s.deleted /\ s \in P!States
  BY DEF SoundPiece, LegalPiece
<1>2. CASE e.type = "PieceDeleted"
  <2>1. s # P!Blank
    BY <1>2 DEF LegalPiece, P!Blank
  <2>2. P!Project(r, e) = P!NoRow
    BY <1>2 DEF P!Project, P!Columns
  <2> QED
    BY <1>1, <2>1, <2>2
<1>3. CASE e.type = "PieceCreated"
  <2>1. P!Apply(s, e) = [[s EXCEPT !.created = TRUE, !.name = e.arg.name,
                           !.category = e.arg.category, !.seasons = e.arg.seasons,
                               !.notes = "blank", !.details = {}, !.photos = {}]
                                   EXCEPT !.version = e.version]
    BY <1>3 DEF P!Apply
  <2> QED
    BY <1>1, <2>1 DEF P!States
<1>4. CASE e.type = "PieceRenamed"
  <2>1. P!Apply(s, e) = [[s EXCEPT !.name = e.arg] EXCEPT !.version = e.version]
    BY <1>4 DEF P!Apply
  <2> QED
    BY <1>1, <2>1 DEF P!States
<1>5. CASE e.type = "PieceNotesUpdated"
  <2>1. P!Apply(s, e) = [[s EXCEPT !.notes = e.arg] EXCEPT !.version = e.version]
    BY <1>5 DEF P!Apply
  <2> QED
    BY <1>1, <2>1 DEF P!States
<1>6. CASE e.type = "PieceCategorySet"
  <2>1. P!Apply(s, e) = [[s EXCEPT !.category = e.arg] EXCEPT !.version = e.version]
    BY <1>6 DEF P!Apply
  <2> QED
    BY <1>1, <2>1 DEF P!States
<1>7. CASE e.type = "PieceAddedToSeason"
  <2>1. P!Apply(s, e) = [[s EXCEPT !.seasons = @ \cup {e.arg}] EXCEPT !.version = e.version]
    BY <1>7 DEF P!Apply
  <2> QED
    BY <1>1, <2>1 DEF P!States
<1>8. CASE e.type = "PieceRemovedFromSeason"
  <2>1. P!Apply(s, e) = [[s EXCEPT !.seasons = @ \ {e.arg}] EXCEPT !.version = e.version]
    BY <1>8 DEF P!Apply
  <2> QED
    BY <1>1, <2>1 DEF P!States
<1>9. CASE e.type = "PieceDetailAdded"
  <2>1. P!Apply(s, e) = [[s EXCEPT !.details = P!Others(@, e.arg.id) \cup {e.arg}]
                          EXCEPT !.version = e.version]
    BY <1>9 DEF P!Apply
  <2> QED
    BY <1>1, <2>1 DEF P!States
<1>10. CASE e.type = "PieceDetailUpdated"
  <2>1. P!Apply(s, e) = [[s EXCEPT !.details = P!Others(@, e.arg.id) \cup {e.arg}]
                          EXCEPT !.version = e.version]
    BY <1>10 DEF P!Apply
  <2> QED
    BY <1>1, <2>1 DEF P!States
<1>11. CASE e.type = "PieceDetailRemoved"
  <2>1. P!Apply(s, e) = [[s EXCEPT !.details = P!Others(@, e.arg)] EXCEPT !.version = e.version]
    BY <1>11 DEF P!Apply
  <2> QED
    BY <1>1, <2>1 DEF P!States
<1>12. CASE e.type = "PiecePhotoLinked"
  <2>1. P!Apply(s, e) = [[s EXCEPT !.photos = @ \cup {e.arg}] EXCEPT !.version = e.version]
    BY <1>12 DEF P!Apply
  <2> QED
    BY <1>1, <2>1 DEF P!States
<1>13. CASE e.type = "PiecePhotoUnlinked"
  <2>1. P!Apply(s, e) = [[s EXCEPT !.photos = @ \ {e.arg}] EXCEPT !.version = e.version]
    BY <1>13 DEF P!Apply
  <2> QED
    BY <1>1, <2>1 DEF P!States
<1> QED
  BY <1>1, <1>2, <1>3, <1>4, <1>5, <1>6, <1>7, <1>8, <1>9, <1>10, <1>11, <1>12, <1>13 DEF LegalPiece

LEMMA PieceViews ==
  ASSUME NEW s, SoundPiece(s)
  PROVE  /\ P!View(s).version \in {0, s.version}
         /\ s.deleted => P!View(s) = P!NoRow
BY DEF P!View, P!NoRow

LEMMA PieceFollows ==
  ASSUME NEW e, NEW r \in PieceRows, NEW u, NEW c \in Nat, NEW n \in Nat \ {0}, NEW m \in Nat,
         c <= n, m = IF c + 1 > n THEN c + 1 ELSE n, \A i \in 0..m : u[i].version = i,
         SoundPiece(u[c]), LegalPiece(u[c], e), u[c + 1] = P!Apply(u[c], e), ~u[c + 1].deleted,
         AlivePiece(r, c, n, u)
  PROVE  AlivePiece(P!Project(r, e), c + 1, m, u)
<1> DEFINE q == P!Project(r, e)
<1>1. r.present /\ \A f \in {"version", "name", "category", "notes"} : r[f] = u[n][f]
  BY DEF AlivePiece, Latest
<1>2. r.version = n /\ e.version = c + 1 /\ u[c].version = c
  BY <1>1 DEF LegalPiece, NextVersion
<1>3. e.type # "PieceDeleted"
  <2>1. SUFFICES ASSUME e.type = "PieceDeleted" PROVE FALSE
    OBVIOUS
  <2>2. u[c + 1] = [[u[c] EXCEPT !.deleted = TRUE] EXCEPT !.version = e.version]
    BY <2>1 DEF P!Apply
  <2> QED
    BY <2>2 DEF SoundPiece, P!States
<1>4. q.present /\ Latest({"version", "name", "category", "notes"}, q, m, u)
  <2>1. CASE c = n
    BY <1>1, <1>2, <1>3, <2>1, PieceKeepsColumns, PieceSetsColumns DEF Latest
  <2>2. CASE c < n
    BY <1>1, <1>2, <1>3, <2>2, PieceKeepsColumns DEF Latest
  <2> QED
    BY <2>1, <2>2
<1>5. \A f \in {"seasons", "details", "photos"} : \A x :
        \/ x \in q[f] <=> x \in u[c + 1][f]
        \/ (x \in q[f] <=> x \in r[f]) /\ (x \in u[c + 1][f] <=> x \in u[c][f])
  BY <1>1, <1>3, PieceSetsMembers
<1> HIDE DEF q
<1>6. MembersFollow({"seasons", "details", "photos"}, q, c + 1, m, u)
  BY <1>5, MembersStep DEF AlivePiece
<1> QED
  BY <1>4, <1>6 DEF AlivePiece, q

LEMMA PieceStarts ==
  ASSUME NEW e, NEW u, LegalPiece(P!Blank, e), u[1] = P!Apply(P!Blank, e)
  PROVE  AlivePiece(P!Project(P!NoRow, e), 1, 1, u)
<1>1. /\ e.type = "PieceCreated" /\ e.version = 1 /\ e.arg.name \in Texts \cup {"blank"}
      /\ e.arg.category \in Categories \cup {"none"} /\ e.arg.seasons \in SUBSET Seasons
  BY DEF LegalPiece, NextVersion, P!Blank
<1> DEFINE q == P!Project(P!NoRow, e)
<1>2. q = P!ProjectCreated(P!NoRow, e)
  BY <1>1 DEF P!Project, P!Columns
<1>3. q = [[P!NoRow EXCEPT !.present = TRUE, !.version = e.version, !.name = e.arg.name,
                           !.category = e.arg.category] EXCEPT !.seasons = @ \cup e.arg.seasons]
  BY <1>2 DEF P!ProjectCreated, P!NoRow
<1>4. u[1] = [[P!Blank EXCEPT !.created = TRUE, !.name = e.arg.name, !.category = e.arg.category,
                              !.seasons = e.arg.seasons, !.notes = "blank", !.details = {},
                                  !.photos = {}]
                EXCEPT !.version = e.version]
  BY <1>1 DEF P!Apply
<1> HIDE DEF q
<1>5. q.present /\ \A f \in {"version", "name", "category", "notes", "seasons", "details", "photos"} :
                     q[f] = u[1][f]
  <2>1. /\ q.present /\ q.version = 1 /\ q.name = e.arg.name /\ q.category = e.arg.category
        /\ q.notes = "blank" /\ q.seasons = e.arg.seasons /\ q.details = {} /\ q.photos = {}
    BY <1>1, <1>3 DEF P!NoRow
  <2>2. /\ u[1].version = 1 /\ u[1].name = e.arg.name /\ u[1].category = e.arg.category
        /\ u[1].notes = "blank" /\ u[1].seasons = e.arg.seasons /\ u[1].details = {}
            /\ u[1].photos = {}
    BY <1>1, <1>4 DEF P!Blank
  <2> QED
    BY <2>1, <2>2
<1> QED
  BY <1>5, FollowsAt DEF AlivePiece, Latest, q

LEMMA PieceCaught ==
  ASSUME NEW r \in PieceRows, NEW u, NEW n \in Nat, SoundPiece(u[n]), u[n].version > 0,
         ~u[n].deleted,
         AlivePiece(r, n, n, u)
  PROVE  r = P!View(u[n])
<1> DEFINE s == u[n]
<1>1. \A f \in {"seasons", "details", "photos"} : \A x : x \in r[f] <=> x \in s[f]
  BY FollowsAt DEF AlivePiece
<1>2. r.seasons = s.seasons /\ r.details = s.details /\ r.photos = s.photos
  BY <1>1 DEF PieceRows, SoundPiece, P!States
<1>3. /\ r.present /\ r.version = s.version /\ r.name = s.name /\ r.category = s.category
      /\ r.notes = s.notes
  BY DEF AlivePiece, Latest
<1>4. s.created
  BY DEF SoundPiece, CreatedOnce
<1>5. r = [present |-> TRUE, version |-> s.version, name |-> s.name, category |-> s.category,
           seasons |-> s.seasons, notes |-> s.notes, details |-> s.details, photos |-> s.photos]
  BY <1>2, <1>3 DEF PieceRows
<1> QED
  BY <1>4, <1>5 DEF P!View

-----------------------------------------------------------------------------
(* Outfits: pieces in a sequence, and positions for a table. *)

LEMMA PiecesAppend ==
  ASSUME NEW q \in Seq(Pieces), NEW k \in Pieces, Distinct(q), ~HoldsPiece(q, k)
  PROVE  /\ Append(q, k) \in Seq(Pieces) /\ Distinct(Append(q, k))
         /\ \A x : HoldsPiece(Append(q, k), x) <=> HoldsPiece(q, x) \/ x = k
<1> DEFINE t == Append(q, k)
<1>1. /\ t \in Seq(Pieces) /\ Len(t) = Len(q) + 1 /\ Len(q) \in Nat
      /\ \A i \in 1..Len(q) : t[i] = q[i]
      /\ t[Len(q) + 1] = k
  OBVIOUS
<1> HIDE DEF t
<1>2. Distinct(t)
  BY <1>1 DEF Distinct, HoldsPiece
<1>3. \A x : HoldsPiece(t, x) <=> HoldsPiece(q, x) \/ x = k
  <2> TAKE x
  <2>1. HoldsPiece(q, x) => HoldsPiece(t, x)
    BY <1>1 DEF HoldsPiece
  <2>2. x = k => HoldsPiece(t, x)
    BY <1>1 DEF HoldsPiece
  <2>3. HoldsPiece(t, x) => HoldsPiece(q, x) \/ x = k
    BY <1>1 DEF HoldsPiece
  <2> QED
    BY <2>1, <2>2, <2>3
<1> QED
  BY <1>1, <1>2, <1>3 DEF t

LEMMA PiecesWithout ==
  ASSUME NEW q \in Seq(Pieces), NEW k, Distinct(q), HoldsPiece(q, k)
  PROVE  /\ O!Without(q, k) \in Seq(Pieces) /\ Distinct(O!Without(q, k))
         /\ \A x : HoldsPiece(O!Without(q, k), x) <=> HoldsPiece(q, x) /\ x # k
<1> DEFINE j == CHOOSE i \in DOMAIN q : q[i] = k
           t == O!RemoveAt(q, j)
<1>1. j \in 1..Len(q) /\ q[j] = k /\ Len(q) \in Nat
  BY DEF HoldsPiece
<1>2. O!Without(q, k) = t
  BY DEF O!Without, O!Contains, HoldsPiece
<1> HIDE DEF j
<1>3. /\ t \in Seq(Pieces) /\ Len(t) = Len(q) - 1
      /\ \A i \in 1..(Len(q) - 1) : t[i] = IF i < j THEN q[i] ELSE q[i + 1]
  <2> DEFINE a == SubSeq(q, 1, j - 1)
             b == SubSeq(q, j + 1, Len(q))
  <2>1. a \in Seq(Pieces) /\ Len(a) = j - 1 /\ \A i \in 1..(j - 1) : a[i] = q[i]
    BY <1>1
  <2>2. b \in Seq(Pieces) /\ Len(b) = Len(q) - j /\ \A i \in 1..(Len(q) - j) : b[i] = q[i + j]
    BY <1>1
  <2>3. t = a \o b
    BY DEF O!RemoveAt
  <2> HIDE DEF a, b, t
  <2>4. t \in Seq(Pieces) /\ Len(t) = Len(q) - 1
    BY <1>1, <2>1, <2>2, <2>3
  <2>5. ASSUME NEW i \in 1..(Len(q) - 1)
        PROVE  t[i] = IF i < j THEN q[i] ELSE q[i + 1]
    <3>1. CASE i < j
      BY <1>1, <2>1, <2>2, <2>3, <3>1
    <3>2. CASE ~(i < j)
      <4>1. t[i] = b[i - Len(a)]
        <5>1. i \in 1..(Len(a) + Len(b)) /\ ~(i <= Len(a))
          BY <1>1, <2>1, <2>2, <3>2
        <5> QED
          BY <2>1, <2>2, <2>3, <5>1
      <4>2. i - Len(a) \in 1..(Len(q) - j) /\ (i - Len(a)) + j = i + 1
        BY <1>1, <2>1, <3>2
      <4> QED
        BY <2>2, <3>2, <4>1, <4>2
    <3> QED
      BY <3>1, <3>2
  <2> QED
    BY <2>4, <2>5
<1> HIDE DEF t
<1>4. Distinct(t)
  <2> SUFFICES ASSUME NEW i1 \in 1..Len(t), NEW i2 \in 1..Len(t), t[i1] = t[i2]
               PROVE  i1 = i2
    BY DEF Distinct
  <2> DEFINE j1 == IF i1 < j THEN i1 ELSE i1 + 1
             j2 == IF i2 < j THEN i2 ELSE i2 + 1
  <2>1. j1 \in 1..Len(q) /\ j2 \in 1..Len(q) /\ q[j1] = q[j2]
    BY <1>1, <1>3
  <2>2. j1 = j2
    BY <2>1 DEF Distinct
  <2> QED
    BY <1>1, <1>3, <2>2
<1>5. \A x : HoldsPiece(t, x) <=> HoldsPiece(q, x) /\ x # k
  <2> TAKE x
  <2>1. ASSUME HoldsPiece(t, x) PROVE HoldsPiece(q, x) /\ x # k
    <3>1. PICK i \in 1..Len(t) : t[i] = x
      BY <2>1 DEF HoldsPiece
    <3> DEFINE i1 == IF i < j THEN i ELSE i + 1
    <3>2. i1 \in 1..Len(q) /\ q[i1] = x /\ i1 # j
      BY <1>1, <1>3, <3>1
    <3>3. x # k
      BY <1>1, <3>2 DEF Distinct
    <3> QED
      BY <3>2, <3>3 DEF HoldsPiece
  <2>2. ASSUME HoldsPiece(q, x), x # k PROVE HoldsPiece(t, x)
    <3>1. PICK i \in 1..Len(q) : q[i] = x
      BY <2>2 DEF HoldsPiece
    <3> DEFINE i1 == IF i < j THEN i ELSE i - 1
    <3>2. i # j
      BY <1>1, <2>2, <3>1
    <3>3. i1 \in 1..Len(t) /\ t[i1] = x
      <4>1. CASE i < j
        BY <1>1, <1>3, <3>1, <4>1
      <4>2. CASE i > j
        <5>1. i1 = i - 1 /\ i1 \in 1..(Len(q) - 1) /\ ~(i1 < j) /\ i1 + 1 = i
          BY <1>1, <3>1, <4>2
        <5> QED
          BY <1>3, <3>1, <5>1
      <4> QED
        BY <1>1, <3>2, <4>1, <4>2
    <3> QED
      BY <3>3 DEF HoldsPiece
  <2> QED
    BY <2>1, <2>2
<1> QED
  BY <1>2, <1>3, <1>4, <1>5

LEMMA PiecesContained ==
  /\ \A q, x : O!Contains(q, x) <=> HoldsPiece(q, x)
  /\ \A q \in Seq(Pieces) : \A x : O!PlaceOf(q, x) \in Nat \cup {-1}
  /\ \A q \in Seq(Pieces) : \A x : O!PlaceOf(q, x) # -1 => HoldsPiece(q, x)
<1>1. \A q, x : O!Contains(q, x) <=> HoldsPiece(q, x)
  BY DEF O!Contains, HoldsPiece
<1>2. ASSUME NEW q \in Seq(Pieces), NEW x
      PROVE  O!PlaceOf(q, x) \in Nat \cup {-1} /\ (O!PlaceOf(q, x) # -1 => HoldsPiece(q, x))
  <2>1. CASE HoldsPiece(q, x)
    <3>1. \E i \in DOMAIN q : q[i] = x
      BY <2>1 DEF HoldsPiece
    <3>2. (CHOOSE i \in DOMAIN q : q[i] = x) \in 1..Len(q)
      BY <3>1
    <3> QED
      BY <1>1, <2>1, <3>2 DEF O!PlaceOf
  <2>2. CASE ~HoldsPiece(q, x)
    BY <1>1, <2>2 DEF O!PlaceOf
  <2> QED
    BY <2>1, <2>2
<1> QED
  BY <1>1, <1>2

(* A step sets a piece as its event says, or leaves what an event that   *)
(* changes nothing, or one already overtaken, would set.                 *)
LEMMA PiecesStep ==
  ASSUME NEW r, NEW q, NEW u, NEW c \in Nat, NEW n \in Nat, NEW m \in Nat,
         c <= n, n <= m, c + 1 <= m, PiecesFollow(r, c, n, u),
         \A x \in Pieces :
           \/ q.positions[x] = u[c + 1].positions[x]
           \/ /\ q.positions[x] = r.positions[x]
              /\ u[c + 1].positions[x] = u[c].positions[x] \/ r.positions[x] # u[c].positions[x]
  PROVE  PiecesFollow(q, c + 1, m, u)
<1> SUFFICES ASSUME NEW x \in Pieces
             PROVE  \E k \in (c + 1)..m : q.positions[x] = u[k].positions[x]
  BY DEF PiecesFollow
<1>1. PICK k \in c..n : r.positions[x] = u[k].positions[x]
  BY DEF PiecesFollow
<1>2. c + 1 \in (c + 1)..m /\ (k # c => k \in (c + 1)..m)
  BY <1>1
<1>3. CASE q.positions[x] = u[c + 1].positions[x]
  BY <1>2, <1>3
<1>4. CASE q.positions[x] = r.positions[x] /\ k = c /\ q.positions[x] # u[c + 1].positions[x]
  BY <1>1, <1>4
<1>5. CASE q.positions[x] = r.positions[x] /\ k # c
  BY <1>1, <1>2, <1>5
<1> QED
  BY <1>3, <1>4, <1>5

LEMMA PiecesKept ==
  ASSUME NEW r, NEW u, NEW w, NEW c \in Nat, NEW d \in 0..c, NEW n \in Nat,
         PiecesFollow(r, c, n, u), \A i \in 0..n : w[i] = u[i]
  PROVE  PiecesFollow(r, d, n, w)
<1> SUFFICES ASSUME NEW x \in Pieces
             PROVE  \E k \in d..n : r.positions[x] = w[k].positions[x]
  BY DEF PiecesFollow
<1>1. PICK k \in c..n : r.positions[x] = u[k].positions[x]
  BY DEF PiecesFollow
<1>2. k \in d..n /\ k \in 0..n
  BY <1>1
<1> QED
  BY <1>1, <1>2

LEMMA OutfitApplies ==
  ASSUME NEW s, NEW e, SoundOutfit(s), LegalOutfit(s, e)
  PROVE  SoundOutfit(O!Apply(s, e)) /\ O!Apply(s, e).version = s.version + 1
<1> DEFINE t == O!Apply(s, e)
           Goal == t \in O!States /\ t.version = s.version + 1 /\ t.created /\ Distinct(t.pieces)
                   /\ Placed(t)
<1>1. /\ s \in O!States /\ s.version \in Nat /\ e.version \in Nat /\ e.version = s.version + 1
      /\ s.pieces \in Seq(Pieces) /\ Distinct(s.pieces)
      /\ Placed(s) /\ s.positions \in [Pieces -> Nat \cup {-1}]
  BY DEF SoundOutfit, LegalOutfit, NextVersion, O!States
<1> SUFFICES Goal
  BY <1>1 DEF SoundOutfit, CreatedOnce
<1>2. CASE e.type = "OutfitCreated"
  <2> DEFINE p == [k \in Pieces |-> O!PlaceOf(e.arg.pieces, k)]
  <2>1. t = [[s EXCEPT !.created = TRUE, !.name = e.arg.name, !.pieces = e.arg.pieces,
               !.positions = p, !.variant = (e.type = "OutfitVariantCreated"),
                   !.notes = e.arg.notes, !.photos = {}] EXCEPT !.version = e.version]
    BY <1>2 DEF O!Apply
  <2>2. /\ s.version = 0 /\ e.arg.pieces \in Seq(Pieces) /\ Distinct(e.arg.pieces)
        /\ e.arg.name \in Texts \cup {"blank"} /\ e.arg.notes \in Texts \cup {"blank"}
    BY <1>2 DEF LegalOutfit, O!Blank
  <2> HIDE DEF t
  <2>3. p \in [Pieces -> Nat \cup {-1}] /\ \A x \in Pieces : p[x] # -1
          => HoldsPiece(e.arg.pieces, x)
    BY <2>2, PiecesContained
  <2> HIDE DEF p
  <2>4. t \in O!States
    BY <1>1, <2>1, <2>2, <2>3 DEF O!States
  <2>5. t.version = e.version /\ t.created /\ t.pieces = e.arg.pieces /\ t.positions = p
    BY <1>1, <2>1 DEF O!States
  <2> QED
    BY <1>1, <2>2, <2>3, <2>4, <2>5 DEF Placed
<1>3. CASE e.type = "OutfitVariantCreated"
  <2> DEFINE p == [k \in Pieces |-> O!PlaceOf(e.arg.pieces, k)]
  <2>1. t = [[s EXCEPT !.created = TRUE, !.name = e.arg.name, !.pieces = e.arg.pieces,
               !.positions = p, !.variant = (e.type = "OutfitVariantCreated"),
                   !.notes = e.arg.notes, !.photos = {}] EXCEPT !.version = e.version]
    BY <1>3 DEF O!Apply
  <2>2. /\ s.version = 0 /\ e.arg.pieces \in Seq(Pieces) /\ Distinct(e.arg.pieces)
        /\ e.arg.name \in Texts \cup {"blank"} /\ e.arg.notes \in Texts \cup {"blank"}
    BY <1>3 DEF LegalOutfit, O!Blank
  <2> HIDE DEF t
  <2>3. p \in [Pieces -> Nat \cup {-1}] /\ \A x \in Pieces : p[x] # -1
          => HoldsPiece(e.arg.pieces, x)
    BY <2>2, PiecesContained
  <2> HIDE DEF p
  <2>4. t \in O!States
    BY <1>1, <2>1, <2>2, <2>3 DEF O!States
  <2>5. t.version = e.version /\ t.created /\ t.pieces = e.arg.pieces /\ t.positions = p
    BY <1>1, <2>1 DEF O!States
  <2> QED
    BY <1>1, <2>2, <2>3, <2>4, <2>5 DEF Placed
<1>4. CASE e.type = "OutfitRenamed"
  <2>1. t = [[s EXCEPT !.name = e.arg] EXCEPT !.version = e.version]
    BY <1>4 DEF O!Apply
  <2>2. s.created
    BY <1>4 DEF LegalOutfit
  <2> HIDE DEF t
  <2>3. t \in O!States
    BY <1>1, <1>4, <2>1, <2>2 DEF LegalOutfit, O!States
  <2>4. t.version = e.version /\ t.created /\ t.pieces = s.pieces /\ t.positions = s.positions
    BY <1>1, <2>1, <2>2 DEF O!States
  <2> QED
    BY <1>1, <2>3, <2>4 DEF Placed
<1>5. CASE e.type = "OutfitNotesUpdated"
  <2>1. t = [[s EXCEPT !.notes = e.arg] EXCEPT !.version = e.version]
    BY <1>5 DEF O!Apply
  <2>2. s.created
    BY <1>5 DEF LegalOutfit
  <2> HIDE DEF t
  <2>3. t \in O!States
    BY <1>1, <1>5, <2>1, <2>2 DEF LegalOutfit, O!States
  <2>4. t.version = e.version /\ t.created /\ t.pieces = s.pieces /\ t.positions = s.positions
    BY <1>1, <2>1, <2>2 DEF O!States
  <2> QED
    BY <1>1, <2>3, <2>4 DEF Placed
<1>6. CASE e.type = "OutfitPieceAdded"
  <2>0. e.arg.piece \in Pieces /\ e.arg.position \in Nat /\ ~HoldsPiece(s.pieces, e.arg.piece)
    BY <1>6 DEF LegalOutfit
  <2>1. t = [[s EXCEPT !.pieces = Append(@, e.arg.piece), !.positions[e.arg.piece] = e.arg.position]
              EXCEPT !.version = e.version]
    BY <1>6, <2>0, PiecesContained DEF O!Apply
  <2>2. s.created /\ Append(s.pieces, e.arg.piece) \in Seq(Pieces)
          /\ Distinct(Append(s.pieces, e.arg.piece))
    BY <1>1, <1>6, <2>0, PiecesAppend DEF LegalOutfit
  <2> HIDE DEF t
  <2>3. t \in O!States
    BY <1>1, <2>0, <2>1, <2>2 DEF O!States
  <2>4. /\ t.version = e.version /\ t.created /\ t.pieces = Append(s.pieces, e.arg.piece)
        /\ t.positions = [s.positions EXCEPT ![e.arg.piece] = e.arg.position]
    BY <1>1, <2>1, <2>2 DEF O!States
  <2>5. \A x : HoldsPiece(t.pieces, x) <=> HoldsPiece(s.pieces, x) \/ x = e.arg.piece
    BY <1>1, <2>0, <2>4, PiecesAppend
  <2>6. Placed(t)
    BY <1>1, <2>0, <2>4, <2>5 DEF Placed
  <2> QED
    BY <1>1, <2>2, <2>3, <2>4, <2>6
<1>7. CASE e.type = "OutfitPieceRemoved"
  <2>0. e.arg \in Pieces /\ HoldsPiece(s.pieces, e.arg)
    BY <1>7 DEF LegalOutfit
  <2>1. t = [[s EXCEPT !.pieces = O!Without(@, e.arg), !.positions[e.arg] = -1]
              EXCEPT !.version = e.version]
    BY <1>7, <2>0 DEF O!Apply
  <2>2. s.created /\ O!Without(s.pieces, e.arg) \in Seq(Pieces)
          /\ Distinct(O!Without(s.pieces, e.arg))
    BY <1>1, <1>7, <2>0, PiecesWithout DEF LegalOutfit
  <2> HIDE DEF t
  <2>3. t \in O!States
    BY <1>1, <2>0, <2>1, <2>2 DEF O!States
  <2>4. /\ t.version = e.version /\ t.created /\ t.pieces = O!Without(s.pieces, e.arg)
        /\ t.positions = [s.positions EXCEPT ![e.arg] = -1]
    BY <1>1, <2>1, <2>2 DEF O!States
  <2>5. \A x : HoldsPiece(t.pieces, x) <=> HoldsPiece(s.pieces, x) /\ x # e.arg
    BY <1>1, <2>0, <2>4, PiecesWithout
  <2>6. Placed(t)
    BY <1>1, <2>0, <2>4, <2>5 DEF Placed
  <2> QED
    BY <1>1, <2>2, <2>3, <2>4, <2>6
<1>8. CASE e.type = "OutfitPhotoLinked"
  <2>1. t = [[s EXCEPT !.photos = @ \cup {e.arg}] EXCEPT !.version = e.version]
    BY <1>8 DEF O!Apply
  <2>2. s.created
    BY <1>8 DEF LegalOutfit
  <2> HIDE DEF t
  <2>3. t \in O!States
    BY <1>1, <1>8, <2>1, <2>2 DEF LegalOutfit, O!States
  <2>4. t.version = e.version /\ t.created /\ t.pieces = s.pieces /\ t.positions = s.positions
    BY <1>1, <2>1, <2>2 DEF O!States
  <2> QED
    BY <1>1, <2>3, <2>4 DEF Placed
<1>9. CASE e.type = "OutfitPhotoUnlinked"
  <2>1. t = [[s EXCEPT !.photos = @ \ {e.arg}] EXCEPT !.version = e.version]
    BY <1>9 DEF O!Apply
  <2>2. s.created
    BY <1>9 DEF LegalOutfit
  <2> HIDE DEF t
  <2>3. t \in O!States
    BY <1>1, <1>9, <2>1, <2>2 DEF LegalOutfit, O!States
  <2>4. t.version = e.version /\ t.created /\ t.pieces = s.pieces /\ t.positions = s.positions
    BY <1>1, <2>1, <2>2 DEF O!States
  <2> QED
    BY <1>1, <2>3, <2>4 DEF Placed
<1>10. CASE e.type = "OutfitDeleted"
  <2>1. t = [[s EXCEPT !.deleted = TRUE] EXCEPT !.version = e.version]
    BY <1>10 DEF O!Apply
  <2>2. s.created
    BY <1>10 DEF LegalOutfit
  <2> HIDE DEF t
  <2>3. t \in O!States
    BY <1>1, <1>10, <2>1, <2>2 DEF LegalOutfit, O!States
  <2>4. t.version = e.version /\ t.created /\ t.pieces = s.pieces /\ t.positions = s.positions
    BY <1>1, <2>1, <2>2 DEF O!States
  <2> QED
    BY <1>1, <2>3, <2>4 DEF Placed
<1> QED
  BY <1>2, <1>3, <1>4, <1>5, <1>6, <1>7, <1>8, <1>9, <1>10 DEF LegalOutfit

LEMMA OutfitHandles ==
  ASSUME NEW s, SoundOutfit(s), NEW r, NEW v \in Nat, NEW c \in O!Requests(r, v) \cup O!Deletions,
         O!Expected(c, s.version)
  PROVE  /\ \/ O!Handle(s, c).events = << >>
            \/ \E e : O!Handle(s, c).events = <<e>> /\ LegalOutfit(s, e)
         /\ O!Expected(c, 0) \/ v = s.version
<1>1. /\ s.version \in Nat /\ s.created \in BOOLEAN /\ s.deleted \in BOOLEAN
      /\ s.pieces \in Seq(Pieces) /\ Len(s.pieces) \in Nat
  BY DEF SoundOutfit, O!States
<1>2. \/ /\ c.type \in {"CreateOutfit", "CreateOutfitVariant"}
            /\ c.arg.name \in Texts \cup {"blank"}
         /\ c.arg.notes \in Texts \cup {"blank"} /\ c.arg.pieces \in Seq(Pieces)
             /\ Distinct(c.arg.pieces)
      \/ c.type = "DeleteOutfit"
      \/ /\ c.version = v
         /\ \/ c.type = "RenameOutfit" /\ c.arg \in Texts \cup {"blank"}
            \/ c.type = "UpdateOutfitNotes" /\ c.arg \in Texts
            \/ c.type \in {"AddPieceToOutfit", "RemovePieceFromOutfit"} /\ c.arg \in Pieces
            \/ c.type \in {"LinkOutfitPhoto", "UnlinkOutfitPhoto"} /\ c.arg \in Photos
  <2>1. \A q \in O!PieceLists : q \in Seq(Pieces) /\ Distinct(q)
    <3>1. << >> \in Seq(Pieces) /\ Distinct(<< >>)
      BY DEF Distinct
    <3>2. ASSUME NEW k \in Pieces PROVE <<k>> \in Seq(Pieces) /\ Distinct(<<k>>)
      <4>1. <<k>> \in Seq(Pieces) /\ Len(<<k>>) = 1
        OBVIOUS
      <4> QED
        BY <4>1 DEF Distinct
    <3>3. ASSUME NEW k \in Pieces, NEW l \in Pieces, k # l
          PROVE  <<k, l>> \in Seq(Pieces) /\ Distinct(<<k, l>>)
      <4>1. <<k, l>> \in Seq(Pieces) /\ Len(<<k, l>>) = 2 /\ <<k, l>>[1] = k /\ <<k, l>>[2] = l
        OBVIOUS
      <4> QED
        BY <3>3, <4>1 DEF Distinct
    <3>4. ASSUME NEW q \in Pieces \X Pieces, q[1] # q[2]
          PROVE  q \in Seq(Pieces) /\ Distinct(q)
      <4>1. q = <<q[1], q[2]>> /\ q[1] \in Pieces /\ q[2] \in Pieces
        OBVIOUS
      <4>2. <<q[1], q[2]>> \in Seq(Pieces) /\ Distinct(<<q[1], q[2]>>)
        BY <3>3, <3>4, <4>1
      <4> QED
        BY <4>1, <4>2, Zenon
    <3> QED
      BY <3>1, <3>2, <3>4 DEF O!PieceLists
  <2>2. CASE c \in O!CreateOutfitRequests
    BY <2>1, <2>2 DEF O!CreateOutfitRequests, O!OutfitBodies, O!Cmd
  <2>3. CASE c \in O!VariantRequests
    <3>1. PICK b \in O!OutfitBodies,
            t \in Texts : c = O!Cmd("CreateOutfitVariant", 0, [b EXCEPT !.notes = t])
      BY <2>3 DEF O!VariantRequests
    <3>2. c.type = "CreateOutfitVariant" /\ c.arg = [b EXCEPT !.notes = t]
      BY <3>1 DEF O!Cmd
    <3>3. c.arg.name = b.name /\ c.arg.pieces = b.pieces /\ c.arg.notes = t
      BY <3>2 DEF O!OutfitBodies
    <3> QED
      BY <2>1, <3>2, <3>3 DEF O!OutfitBodies
  <2>4. CASE c \in O!RenameRequests(r, v) \cup O!NotesRequests(r, v) \cup O!Deletions
    BY <2>4 DEF O!RenameRequests, O!NotesRequests, O!Deletions, O!Found, O!Cmd
  <2>5. CASE c \in O!AddPieceRequests(r, v) \cup O!RemovePieceRequests(r, v)
    BY <2>5 DEF O!AddPieceRequests, O!RemovePieceRequests, O!Found, O!Cmd
  <2>6. CASE c \in O!LinkPhotoRequests(r, v) \cup O!UnlinkPhotoRequests(r, v)
    BY <2>6 DEF O!LinkPhotoRequests, O!UnlinkPhotoRequests, O!Found, O!Cmd
  <2> QED
    BY <2>2, <2>3, <2>4, <2>5, <2>6 DEF O!Requests
<1>3. O!Expected(c, 0) \/ v = s.version
  BY <1>1, <1>2 DEF O!Expected, O!ExpectAny, O!ExpectEmpty, O!ExpectExact
<1>4. CASE c.type = "CreateOutfit"
  BY <1>4, <1>1, <1>2, <1>3, PiecesContained DEF SoundOutfit, LegalOutfit, NextVersion,
      CreatedOnce, O!Blank, O!Expected, O!ExpectEmpty, O!Handle, O!CreateOutfit, O!Given,
      O!Created, O!Event, O!Accept, O!Reject, O!NoOp, O!Fresh
<1>5. CASE c.type = "CreateOutfitVariant"
  BY <1>5, <1>1, <1>2, <1>3, PiecesContained DEF SoundOutfit, LegalOutfit, NextVersion,
      CreatedOnce, O!Blank, O!Expected, O!ExpectEmpty, O!Handle, O!CreateOutfitVariant, O!Given,
      O!Created, O!Event, O!Accept, O!Reject, O!NoOp, O!Fresh
<1>6. CASE c.type = "RenameOutfit"
  BY <1>6, <1>1, <1>2, <1>3, PiecesContained DEF SoundOutfit, LegalOutfit, NextVersion,
      CreatedOnce, O!Blank, O!Expected, O!ExpectExact, O!Handle, O!RenameOutfit, O!Given, O!Emit,
      O!Event, O!Accept, O!Reject, O!NoOp, O!Fresh
<1>7. CASE c.type = "UpdateOutfitNotes"
  BY <1>7, <1>1, <1>2, <1>3, PiecesContained DEF SoundOutfit, LegalOutfit, NextVersion,
      CreatedOnce, O!Blank, O!Expected, O!ExpectExact, O!Handle, O!UpdateOutfitNotes, O!Given,
      O!Emit, O!Event, O!Accept, O!Reject, O!NoOp, O!Fresh
<1>8. CASE c.type = "AddPieceToOutfit"
  BY <1>8, <1>1, <1>2, <1>3, PiecesContained DEF SoundOutfit, LegalOutfit, NextVersion,
      CreatedOnce, O!Blank, O!Expected, O!ExpectExact, O!Handle, O!AddPieceToOutfit, O!Given,
      O!Emit, O!Event, O!Accept, O!Reject, O!NoOp, O!Fresh
<1>9. CASE c.type = "RemovePieceFromOutfit"
  BY <1>9, <1>1, <1>2, <1>3, PiecesContained DEF SoundOutfit, LegalOutfit, NextVersion,
      CreatedOnce, O!Blank, O!Expected, O!ExpectExact, O!Handle, O!RemovePieceFromOutfit, O!Given,
      O!Emit, O!Event, O!Accept, O!Reject, O!NoOp, O!Fresh
<1>10. CASE c.type = "LinkOutfitPhoto"
  BY <1>10, <1>1, <1>2, <1>3, PiecesContained DEF SoundOutfit, LegalOutfit, NextVersion,
      CreatedOnce, O!Blank, O!Expected, O!ExpectExact, O!Handle, O!LinkOutfitPhoto, O!Given,
      O!Emit, O!Event, O!Accept, O!Reject, O!NoOp, O!Fresh
<1>11. CASE c.type = "UnlinkOutfitPhoto"
  BY <1>11, <1>1, <1>2, <1>3, PiecesContained DEF SoundOutfit, LegalOutfit, NextVersion,
      CreatedOnce, O!Blank, O!Expected, O!ExpectExact, O!Handle, O!UnlinkOutfitPhoto, O!Given,
      O!Emit, O!Event, O!Accept, O!Reject, O!NoOp, O!Fresh
<1>12. CASE c.type = "DeleteOutfit"
  <2>1. O!Handle(s, c) = O!Delete(s, "OutfitDeleted")
    BY <1>12 DEF O!Handle
  <2>2. CASE s.deleted \/ ~s.created
    BY <1>3, <2>1, <2>2 DEF O!Delete, O!Given, O!NoOp, O!Accept, O!Reject
  <2>3. CASE ~s.deleted /\ s.created
    <3>1. O!Handle(s, c).events = <<O!Event("OutfitDeleted", "none", s.version + 1)>>
      BY <2>1, <2>3 DEF O!Delete, O!Given, O!Emit, O!Accept
    <3>2. LegalOutfit(s, O!Event("OutfitDeleted", "none", s.version + 1))
      BY <1>1, <2>3 DEF LegalOutfit, NextVersion, O!Event
    <3> QED
      BY <1>3, <3>1, <3>2
  <2> QED
    BY <1>1, <2>2, <2>3
<1> QED
  BY <1>2, <1>4, <1>5, <1>6, <1>7, <1>8, <1>9, <1>10, <1>11, <1>12

(* What the upsert of a creation does to a row, old or new. *)
LEMMA OutfitUpserts ==
  ASSUME NEW r \in OutfitRows, NEW e, e.version \in Nat, e.arg.name \in Texts \cup {"blank"},
         e.arg.notes \in Texts \cup {"blank"}, e.arg.pieces \in Seq(Pieces),
         e.type \in {"OutfitCreated", "OutfitVariantCreated"}
  PROVE  /\ O!Project(r, e) \in OutfitRows /\ O!Project(r, e).present
         /\ O!Project(r, e).version \in {r.version, e.version} /\ O!Project(r, e).photos = r.photos
         /\ \A x \in Pieces : O!Project(r, e).positions[x] = IF r.positions[x] = -1
             THEN O!PlaceOf(e.arg.pieces, x)
                                                          ELSE r.positions[x]
         /\ r.present /\ r.version >= e.version =>
              \A f \in {"version", "name", "variant", "notes"} : O!Project(r, e)[f] = r[f]
         /\ ~r.present => /\ O!Project(r, e).version = e.version
                             /\ O!Project(r, e).name = e.arg.name
                          /\ O!Project(r, e).variant = (e.type = "OutfitVariantCreated")
                          /\ O!Project(r, e).notes = e.arg.notes
<1> DEFINE q == O!Project(r, e)
           b == O!Upsert(r, e)
           p == [k \in Pieces |-> IF b.positions[k] = -1 THEN O!PlaceOf(e.arg.pieces, k)
                                 ELSE b.positions[k]]
           w == [O!NoRow EXCEPT !.present = TRUE, !.version = e.version, !.name = e.arg.name,
                                !.variant = (e.type = "OutfitVariantCreated"),
                                    !.notes = e.arg.notes]
           v == [w EXCEPT !.positions = r.positions, !.photos = r.photos]
<1>1. q = O!ProjectCreated(r, e)
  BY DEF O!Project
<1>2. q = [b EXCEPT !.positions = p]
  BY <1>1, Zenon DEF O!ProjectCreated
<1>3. b = IF O!Newer(r, e) \/ ~r.present THEN v ELSE r
  BY Zenon DEF O!Upsert
<1>4. /\ v \in OutfitRows /\ v.present /\ v.positions = r.positions /\ v.photos = r.photos
      /\ v.version = e.version /\ v.name = e.arg.name /\ v.notes = e.arg.notes
      /\ v.variant = (e.type = "OutfitVariantCreated")
  <2>1. w \in OutfitRows
    BY DEF OutfitRows, O!NoRow
  <2>2. /\ w.present /\ w.version = e.version /\ w.name = e.arg.name /\ w.notes = e.arg.notes
        /\ w.variant = (e.type = "OutfitVariantCreated")
    BY DEF O!NoRow
  <2> HIDE DEF w
  <2>3. v \in OutfitRows /\ v.positions = r.positions /\ v.photos = r.photos
    BY <2>1 DEF OutfitRows
  <2>4. \A f \in {"present", "version", "name", "notes", "variant"} : v[f] = w[f]
    BY <2>1 DEF OutfitRows
  <2> QED
    BY <2>2, <2>3, <2>4
<1> HIDE DEF v
<1>5. b \in OutfitRows /\ b.present /\ b.positions = r.positions /\ b.photos = r.photos
  BY <1>3, <1>4
<1>6. r.present /\ r.version >= e.version => b = r
  <2>1. r.version >= e.version => ~O!Newer(r, e)
    BY DEF O!Newer, OutfitRows
  <2> QED
    BY <1>3, <2>1
<1>7. ~r.present => b = v
  BY <1>3
<1>8. b.version \in {r.version, e.version}
  BY <1>3, <1>4
<1> HIDE DEF b
<1>9. p \in [Pieces -> Nat \cup {-1}]
  BY <1>5, PiecesContained DEF OutfitRows
<1>10. \A x \in Pieces : p[x] = IF r.positions[x] = -1 THEN O!PlaceOf(e.arg.pieces, x)
         ELSE r.positions[x]
  BY <1>5
<1> HIDE DEF p, q
<1>11. q \in OutfitRows /\ q.positions = p
  BY <1>2, <1>5, <1>9 DEF OutfitRows
<1>12. \A f \in {"present", "photos", "version", "name", "variant", "notes"} : q[f] = b[f]
  BY <1>2, <1>5 DEF OutfitRows
<1>13. ~r.present => /\ q.version = e.version /\ q.name = e.arg.name /\ q.notes = e.arg.notes
                    /\ q.variant = (e.type = "OutfitVariantCreated")
  BY <1>4, <1>7, <1>12
<1>14. /\ q \in OutfitRows /\ q.present /\ q.photos = r.photos
          /\ q.version \in {r.version, e.version}
  BY <1>5, <1>8, <1>11, <1>12
<1>15. r.present /\ r.version >= e.version => \A f \in {"version", "name", "variant", "notes"} : q[f] = r[f]
  BY <1>6, <1>12
<1> QED
  BY <1>10, <1>11, <1>13, <1>14, <1>15 DEF q

(* What an event does to the row of an outfit that exists, and to the outfit. *)
LEMMA OutfitChanges ==
  ASSUME NEW s, NEW e, NEW r \in OutfitRows, SoundOutfit(s), LegalOutfit(s, e), r.present,
         e.type \notin {"OutfitCreated", "OutfitVariantCreated", "OutfitDeleted"}
  PROVE  /\ /\ O!Project(r, e) \in OutfitRows /\ O!Project(r, e).present
            /\ O!Project(r, e).version \in {r.version, e.version}
            /\ r.version >= e.version => \A f \in {"version", "name", "variant", "notes"} : O!Project(r, e)[f] = r[f]
            /\ r.version < e.version /\ (\A f \in {"version", "name", "variant", "notes"} : r[f] = s[f]) =>
                 \A f \in {"version", "name", "variant", "notes"} : O!Project(r, e)[f] = O!Apply(s, e)[f]
         /\ \A x :
              \/ x \in O!Project(r, e).photos <=> x \in O!Apply(s, e).photos
              \/ /\ x \in O!Project(r, e).photos <=> x \in r.photos
                 /\ x \in O!Apply(s, e).photos <=> x \in s.photos
         /\ \A x \in Pieces :
              \/ O!Project(r, e).positions[x] = O!Apply(s, e).positions[x]
              \/ /\ O!Project(r, e).positions[x] = r.positions[x]
                 /\ \/ O!Apply(s, e).positions[x] = s.positions[x]
                    \/ r.positions[x] # s.positions[x]
<1> DEFINE q == O!Project(r, e)
           t == O!Apply(s, e)
           Columns == /\ q \in OutfitRows /\ q.present /\ q.version \in {r.version, e.version}
                      /\ r.version >= e.version => \A f \in {"version", "name", "variant", "notes"} : q[f] = r[f]
                      /\ r.version < e.version /\ (\A f \in {"version", "name", "variant", "notes"} : r[f] = s[f]) =>
                           \A f \in {"version", "name", "variant", "notes"} : q[f] = t[f]
           Photographs == \A x :
                            \/ x \in q.photos <=> x \in t.photos
                            \/ (x \in q.photos <=> x \in r.photos)
                                /\ (x \in t.photos <=> x \in s.photos)
           Positions == \A x \in Pieces :
                          \/ q.positions[x] = t.positions[x]
                          \/ /\ q.positions[x] = r.positions[x]
                             /\ t.positions[x] = s.positions[x] \/ r.positions[x] # s.positions[x]
<1> SUFFICES Columns /\ Photographs /\ Positions
  OBVIOUS
<1>1. /\ s \in O!States /\ s.version \in Nat /\ e.version \in Nat
      /\ s.positions \in [Pieces -> Nat \cup {-1}] /\ Placed(s)
  BY DEF SoundOutfit, LegalOutfit, NextVersion, O!States
<1>2. CASE e.type = "OutfitRenamed"
  <2>1. t = [[s EXCEPT !.name = e.arg] EXCEPT !.version = e.version]
    BY <1>2 DEF O!Apply
  <2>2. q = IF r.version < e.version THEN [[r EXCEPT !.name = e.arg] EXCEPT !.version = e.version]
          ELSE r
    BY <1>2 DEF O!Project, O!ProjectColumns, O!IfNewer, O!Newer, O!Touch
  <2> HIDE DEF t, q
  <2>3. t.version = e.version /\ t.name = e.arg /\ t.variant = s.variant /\ t.notes = s.notes
          /\ t.positions = s.positions /\ t.photos = s.photos
    BY <1>1, <2>1 DEF O!States
  <2>4. q \in OutfitRows /\ q.present /\ q.positions = r.positions /\ q.photos = r.photos
    BY <1>1, <1>2, <2>2 DEF LegalOutfit, OutfitRows
  <2>5. r.version < e.version => q.version = e.version /\ q.name = e.arg /\ q.variant = r.variant
          /\ q.notes = r.notes
    BY <2>2 DEF OutfitRows
  <2>6. ~(r.version < e.version) => q.version = r.version /\ q.name = r.name
          /\ q.variant = r.variant /\ q.notes = r.notes
    BY <2>2 DEF OutfitRows
  <2>7. Positions
    <3>1. t.positions = s.positions /\ q.positions = r.positions
      BY <2>3, <2>4
    <3> QED
      BY <3>1, Zenon
  <2>8. Columns
    BY <1>1, <2>3, <2>4, <2>5, <2>6 DEF OutfitRows
  <2>9. Photographs
    BY <2>3, <2>4
  <2> QED
    BY <2>7, <2>8, <2>9
<1>3. CASE e.type = "OutfitNotesUpdated"
  <2>1. t = [[s EXCEPT !.notes = e.arg] EXCEPT !.version = e.version]
    BY <1>3 DEF O!Apply
  <2>2. q = IF r.version < e.version THEN [[r EXCEPT !.notes = e.arg] EXCEPT !.version = e.version]
          ELSE r
    BY <1>3 DEF O!Project, O!ProjectColumns, O!IfNewer, O!Newer, O!Touch
  <2> HIDE DEF t, q
  <2>3. t.version = e.version /\ t.name = s.name /\ t.variant = s.variant /\ t.notes = e.arg
          /\ t.positions = s.positions /\ t.photos = s.photos
    BY <1>1, <2>1 DEF O!States
  <2>4. q \in OutfitRows /\ q.present /\ q.positions = r.positions /\ q.photos = r.photos
    BY <1>1, <1>3, <2>2 DEF LegalOutfit, OutfitRows
  <2>5. r.version < e.version => q.version = e.version /\ q.name = r.name /\ q.variant = r.variant
          /\ q.notes = e.arg
    BY <2>2 DEF OutfitRows
  <2>6. ~(r.version < e.version) => q.version = r.version /\ q.name = r.name
          /\ q.variant = r.variant /\ q.notes = r.notes
    BY <2>2 DEF OutfitRows
  <2>7. Positions
    <3>1. t.positions = s.positions /\ q.positions = r.positions
      BY <2>3, <2>4
    <3> QED
      BY <3>1, Zenon
  <2>8. Columns
    BY <1>1, <2>3, <2>4, <2>5, <2>6 DEF OutfitRows
  <2>9. Photographs
    BY <2>3, <2>4
  <2> QED
    BY <2>7, <2>8, <2>9
<1>4. CASE e.type = "OutfitPieceAdded"
  <2>0. e.arg.piece \in Pieces /\ e.arg.position \in Nat /\ ~HoldsPiece(s.pieces, e.arg.piece)
    BY <1>4 DEF LegalOutfit
  <2>1. t = [[s EXCEPT !.pieces = Append(@, e.arg.piece), !.positions[e.arg.piece] = e.arg.position]
              EXCEPT !.version = e.version]
    BY <1>4, <2>0, PiecesContained DEF O!Apply
  <2>2. q = IF r.version < e.version
          THEN [[r EXCEPT !.positions = O!InsertPiece(@, e.arg.piece, e.arg.position)]
                 EXCEPT !.version = e.version]
                     ELSE [r EXCEPT !.positions = O!InsertPiece(@, e.arg.piece, e.arg.position)]
    BY <1>4 DEF O!Project, O!ProjectChildren, O!TouchIfNewer, O!Newer, O!Touch
  <2> HIDE DEF t, q
  <2>3. t.version = e.version /\ t.name = s.name /\ t.variant = s.variant /\ t.notes = s.notes
          /\ t.positions = [s.positions EXCEPT ![e.arg.piece] = e.arg.position]
              /\ t.photos = s.photos
    BY <1>1, <2>1 DEF O!States
  <2>4. q \in OutfitRows /\ q.present
          /\ q.positions = O!InsertPiece(r.positions, e.arg.piece, e.arg.position)
              /\ q.photos = r.photos
    BY <1>1, <1>4, <2>2, <2>0 DEF LegalOutfit, OutfitRows, O!InsertPiece
  <2>5. r.version < e.version => q.version = e.version /\ q.name = r.name /\ q.variant = r.variant
          /\ q.notes = r.notes
    BY <2>2 DEF OutfitRows
  <2>6. ~(r.version < e.version) => q.version = r.version /\ q.name = r.name
          /\ q.variant = r.variant /\ q.notes = r.notes
    BY <2>2 DEF OutfitRows
  <2>7. Positions
    <3>1. \A y \in Pieces : q.positions[y] = IF y = e.arg.piece /\ r.positions[y] = -1
            THEN e.arg.position ELSE r.positions[y]
      BY <2>0, <2>4 DEF O!InsertPiece, OutfitRows
    <3>2. \A y \in Pieces : t.positions[y] = IF y = e.arg.piece THEN e.arg.position
            ELSE s.positions[y]
      BY <1>1, <2>0, <2>3
    <3>3. s.positions[e.arg.piece] = -1
      BY <1>1, <2>0 DEF Placed
    <3> QED
      BY <2>0, <3>1, <3>2, <3>3
  <2>8. Columns
    BY <1>1, <2>3, <2>4, <2>5, <2>6 DEF OutfitRows
  <2>9. Photographs
    BY <2>3, <2>4
  <2> QED
    BY <2>7, <2>8, <2>9
<1>5. CASE e.type = "OutfitPieceRemoved"
  <2>0. e.arg \in Pieces /\ HoldsPiece(s.pieces, e.arg)
    BY <1>5 DEF LegalOutfit
  <2>1. t = [[s EXCEPT !.pieces = O!Without(@, e.arg), !.positions[e.arg] = -1]
              EXCEPT !.version = e.version]
    BY <1>5 DEF O!Apply
  <2>2. q = IF r.version < e.version THEN [[r EXCEPT !.positions[e.arg] = -1]
          EXCEPT !.version = e.version] ELSE [r EXCEPT !.positions[e.arg] = -1]
    BY <1>5 DEF O!Project, O!ProjectChildren, O!TouchIfNewer, O!Newer, O!Touch
  <2> HIDE DEF t, q
  <2>3. t.version = e.version /\ t.name = s.name /\ t.variant = s.variant /\ t.notes = s.notes
          /\ t.positions = [s.positions EXCEPT ![e.arg] = -1] /\ t.photos = s.photos
    BY <1>1, <2>1 DEF O!States
  <2>4. q \in OutfitRows /\ q.present /\ q.positions = [r.positions EXCEPT ![e.arg] = -1]
          /\ q.photos = r.photos
    BY <1>1, <1>5, <2>2, <2>0 DEF LegalOutfit, OutfitRows
  <2>5. r.version < e.version => q.version = e.version /\ q.name = r.name /\ q.variant = r.variant
          /\ q.notes = r.notes
    BY <2>2 DEF OutfitRows
  <2>6. ~(r.version < e.version) => q.version = r.version /\ q.name = r.name
          /\ q.variant = r.variant /\ q.notes = r.notes
    BY <2>2 DEF OutfitRows
  <2>7. Positions
    <3>1. \A y \in Pieces : q.positions[y] = IF y = e.arg THEN -1 ELSE r.positions[y]
      BY <2>0, <2>4 DEF OutfitRows
    <3>2. \A y \in Pieces : t.positions[y] = IF y = e.arg THEN -1 ELSE s.positions[y]
      BY <1>1, <2>0, <2>3
    <3> QED
      BY <3>1, <3>2
  <2>8. Columns
    BY <1>1, <2>3, <2>4, <2>5, <2>6 DEF OutfitRows
  <2>9. Photographs
    BY <2>3, <2>4
  <2> QED
    BY <2>7, <2>8, <2>9
<1>6. CASE e.type = "OutfitPhotoLinked"
  <2>1. t = [[s EXCEPT !.photos = @ \cup {e.arg}] EXCEPT !.version = e.version]
    BY <1>6 DEF O!Apply
  <2>2. q = IF r.version < e.version THEN [[r EXCEPT !.photos = @ \cup {e.arg}]
          EXCEPT !.version = e.version] ELSE [r EXCEPT !.photos = @ \cup {e.arg}]
    BY <1>6 DEF O!Project, O!ProjectChildren, O!TouchIfNewer, O!Newer, O!Touch
  <2> HIDE DEF t, q
  <2>3. t.version = e.version /\ t.name = s.name /\ t.variant = s.variant /\ t.notes = s.notes
          /\ t.positions = s.positions /\ t.photos = s.photos \cup {e.arg}
    BY <1>1, <2>1 DEF O!States
  <2>4. q \in OutfitRows /\ q.present /\ q.positions = r.positions
          /\ q.photos = r.photos \cup {e.arg}
    BY <1>1, <1>6, <2>2 DEF LegalOutfit, OutfitRows
  <2>5. r.version < e.version => q.version = e.version /\ q.name = r.name /\ q.variant = r.variant
          /\ q.notes = r.notes
    BY <2>2 DEF OutfitRows
  <2>6. ~(r.version < e.version) => q.version = r.version /\ q.name = r.name
          /\ q.variant = r.variant /\ q.notes = r.notes
    BY <2>2 DEF OutfitRows
  <2>7. Positions
    <3>1. t.positions = s.positions /\ q.positions = r.positions
      BY <2>3, <2>4
    <3> QED
      BY <3>1, Zenon
  <2>8. Columns
    BY <1>1, <2>3, <2>4, <2>5, <2>6 DEF OutfitRows
  <2>9. Photographs
    <3>1. t.photos = s.photos \cup {e.arg} /\ q.photos = r.photos \cup {e.arg}
      BY <2>3, <2>4
    <3> TAKE x
    <3>2. CASE x = e.arg
      <4>1. x \in q.photos /\ x \in t.photos
        BY <3>1, <3>2
      <4> QED
        BY <4>1
    <3>3. CASE x # e.arg
      BY <3>1, <3>3
    <3> QED
      BY <3>2, <3>3
  <2> QED
    BY <2>7, <2>8, <2>9
<1>7. CASE e.type = "OutfitPhotoUnlinked"
  <2>1. t = [[s EXCEPT !.photos = @ \ {e.arg}] EXCEPT !.version = e.version]
    BY <1>7 DEF O!Apply
  <2>2. q = IF r.version < e.version
          THEN [[r EXCEPT !.photos = @ \ {e.arg}] EXCEPT !.version = e.version]
              ELSE [r EXCEPT !.photos = @ \ {e.arg}]
    BY <1>7 DEF O!Project, O!ProjectChildren, O!TouchIfNewer, O!Newer, O!Touch
  <2> HIDE DEF t, q
  <2>3. t.version = e.version /\ t.name = s.name /\ t.variant = s.variant /\ t.notes = s.notes
          /\ t.positions = s.positions /\ t.photos = s.photos \ {e.arg}
    BY <1>1, <2>1 DEF O!States
  <2>4. q \in OutfitRows /\ q.present /\ q.positions = r.positions /\ q.photos = r.photos \ {e.arg}
    BY <1>1, <1>7, <2>2 DEF LegalOutfit, OutfitRows
  <2>5. r.version < e.version => q.version = e.version /\ q.name = r.name /\ q.variant = r.variant
          /\ q.notes = r.notes
    BY <2>2 DEF OutfitRows
  <2>6. ~(r.version < e.version) => q.version = r.version /\ q.name = r.name
          /\ q.variant = r.variant /\ q.notes = r.notes
    BY <2>2 DEF OutfitRows
  <2>7. Positions
    <3>1. t.positions = s.positions /\ q.positions = r.positions
      BY <2>3, <2>4
    <3> QED
      BY <3>1, Zenon
  <2>8. Columns
    BY <1>1, <2>3, <2>4, <2>5, <2>6 DEF OutfitRows
  <2>9. Photographs
    <3>1. t.photos = s.photos \ {e.arg} /\ q.photos = r.photos \ {e.arg}
      BY <2>3, <2>4
    <3> TAKE x
    <3>2. CASE x = e.arg
      <4>1. x \notin q.photos /\ x \notin t.photos
        BY <3>1, <3>2
      <4> QED
        BY <4>1
    <3>3. CASE x # e.arg
      BY <3>1, <3>3
    <3> QED
      BY <3>2, <3>3
  <2> QED
    BY <2>7, <2>8, <2>9
<1> QED
  BY <1>2, <1>3, <1>4, <1>5, <1>6, <1>7 DEF LegalOutfit

LEMMA OutfitProjects ==
  ASSUME NEW s, NEW e, NEW r \in OutfitRows, SoundOutfit(s), LegalOutfit(s, e)
  PROVE  O!Project(r, e) \in OutfitRows /\ O!Project(r, e).version \in {r.version, e.version, 0}
<1>1. s.version \in Nat /\ e.version \in Nat
  BY DEF SoundOutfit, LegalOutfit, NextVersion, O!States
<1>2. CASE e.type = "OutfitDeleted"
  BY <1>2 DEF O!Project, O!NoRow, OutfitRows
<1>3. CASE e.type \in {"OutfitCreated", "OutfitVariantCreated"}
  BY <1>1, <1>3, OutfitUpserts DEF LegalOutfit
<1>4. CASE e.type \notin {"OutfitCreated", "OutfitVariantCreated", "OutfitDeleted"}
  <2>1. CASE r.present
    BY <1>4, <2>1, OutfitChanges
  <2>2. CASE ~r.present
    <3>1. O!Project(r, e) = r
      <4>1. CASE e.type \in {"OutfitRenamed", "OutfitNotesUpdated"}
        BY <1>4, <2>2, <4>1 DEF O!Project, O!ProjectColumns, O!IfNewer, O!Newer
      <4>2. CASE e.type \notin {"OutfitRenamed", "OutfitNotesUpdated"}
        BY <1>4, <2>2, <4>2 DEF O!Project
      <4> QED
        BY <4>1, <4>2
    <3> QED
      BY <3>1
  <2> QED
    BY <2>1, <2>2
<1> QED
  BY <1>2, <1>3, <1>4

LEMMA OutfitBegins ==
  /\ SoundOutfit(O!Blank) /\ O!Blank.version = 0
  /\ O!NoRow \in OutfitRows /\ O!NoRow.version = 0 /\ O!View(O!Blank) = O!NoRow
<1>1. O!Blank \in O!States
  BY DEF O!States, O!Blank
<1>2. O!NoRow \in OutfitRows
  BY DEF OutfitRows, O!NoRow
<1>3. O!Blank.version = 0 /\ O!Blank.created = FALSE /\ O!Blank.pieces = << >>
        /\ O!NoRow.version = 0
  BY DEF O!Blank, O!NoRow
<1>4. Distinct(<< >>) /\ Placed(O!Blank)
  BY DEF Distinct, Placed, O!Blank
<1> QED
  BY <1>1, <1>2, <1>3, <1>4 DEF SoundOutfit, CreatedOnce, O!View

LEMMA OutfitEnds ==
  ASSUME NEW s, NEW e, NEW r, SoundOutfit(s), LegalOutfit(s, e)
  PROVE  /\ ~s.deleted
         /\ O!Apply(s, e).deleted => /\ s # O!Blank /\ O!Project(r, e) = O!NoRow
                                     /\ e.type = "OutfitDeleted"
         /\ e.type = "OutfitDeleted" => O!Apply(s, e).deleted
<1>1. ~s.deleted /\ s \in O!States
  BY DEF SoundOutfit, LegalOutfit
<1>2. CASE e.type = "OutfitDeleted"
  <2>1. s # O!Blank
    BY <1>2 DEF LegalOutfit, O!Blank
  <2>2. O!Project(r, e) = O!NoRow
    BY <1>2 DEF O!Project
  <2>3. O!Apply(s, e) = [[s EXCEPT !.deleted = TRUE] EXCEPT !.version = e.version]
    BY <1>2 DEF O!Apply
  <2>4. O!Apply(s, e).deleted
    BY <1>1, <2>3 DEF O!States
  <2> QED
    BY <1>1, <1>2, <2>1, <2>2, <2>4
<1>3. CASE e.type = "OutfitCreated"
  <2>1. O!Apply(s, e) = [[s EXCEPT !.created = TRUE, !.name = e.arg.name, !.pieces = e.arg.pieces,
                           !.positions = [k \in Pieces |-> O!PlaceOf(e.arg.pieces, k)],
                               !.variant = (e.type = "OutfitVariantCreated"),
                                   !.notes = e.arg.notes, !.photos = {}]
                                       EXCEPT !.version = e.version]
    BY <1>3 DEF O!Apply
  <2> QED
    BY <1>1, <1>3, <2>1 DEF O!States
<1>4. CASE e.type = "OutfitVariantCreated"
  <2>1. O!Apply(s, e) = [[s EXCEPT !.created = TRUE, !.name = e.arg.name, !.pieces = e.arg.pieces,
                           !.positions = [k \in Pieces |-> O!PlaceOf(e.arg.pieces, k)],
                               !.variant = (e.type = "OutfitVariantCreated"),
                                   !.notes = e.arg.notes, !.photos = {}]
                                       EXCEPT !.version = e.version]
    BY <1>4 DEF O!Apply
  <2> QED
    BY <1>1, <1>4, <2>1 DEF O!States
<1>5. CASE e.type = "OutfitRenamed"
  <2>1. O!Apply(s, e) = [[s EXCEPT !.name = e.arg] EXCEPT !.version = e.version]
    BY <1>5 DEF O!Apply
  <2> QED
    BY <1>1, <1>5, <2>1 DEF O!States
<1>6. CASE e.type = "OutfitNotesUpdated"
  <2>1. O!Apply(s, e) = [[s EXCEPT !.notes = e.arg] EXCEPT !.version = e.version]
    BY <1>6 DEF O!Apply
  <2> QED
    BY <1>1, <1>6, <2>1 DEF O!States
<1>7. CASE e.type = "OutfitPieceAdded"
  <2>1. O!Apply(s, e) = [(IF O!Contains(s.pieces, e.arg.piece)
                           THEN s ELSE [s EXCEPT !.pieces = Append(@, e.arg.piece),
                               !.positions[e.arg.piece] = e.arg.position])
                                   EXCEPT !.version = e.version]
    BY <1>7 DEF O!Apply
  <2> QED
    BY <1>1, <1>7, <2>1 DEF O!States
<1>8. CASE e.type = "OutfitPieceRemoved"
  <2>1. O!Apply(s, e) = [[s EXCEPT !.pieces = O!Without(@, e.arg), !.positions[e.arg] = -1]
                          EXCEPT !.version = e.version]
    BY <1>8 DEF O!Apply
  <2> QED
    BY <1>1, <1>8, <2>1 DEF O!States
<1>9. CASE e.type = "OutfitPhotoLinked"
  <2>1. O!Apply(s, e) = [[s EXCEPT !.photos = @ \cup {e.arg}] EXCEPT !.version = e.version]
    BY <1>9 DEF O!Apply
  <2> QED
    BY <1>1, <1>9, <2>1 DEF O!States
<1>10. CASE e.type = "OutfitPhotoUnlinked"
  <2>1. O!Apply(s, e) = [[s EXCEPT !.photos = @ \ {e.arg}] EXCEPT !.version = e.version]
    BY <1>10 DEF O!Apply
  <2> QED
    BY <1>1, <1>10, <2>1 DEF O!States
<1> QED
  BY <1>1, <1>2, <1>3, <1>4, <1>5, <1>6, <1>7, <1>8, <1>9, <1>10 DEF LegalOutfit

LEMMA OutfitViews ==
  ASSUME NEW s, SoundOutfit(s)
  PROVE  /\ O!View(s).version \in {0, s.version}
         /\ s.deleted => O!View(s) = O!NoRow
BY DEF O!View, O!NoRow

(* A creation that is projected again sets nothing back. *)
LEMMA OutfitRepeats ==
  ASSUME NEW s, NEW e, NEW r \in OutfitRows, SoundOutfit(s), LegalOutfit(s, e), r.present,
         e.type \in {"OutfitCreated", "OutfitVariantCreated"}
  PROVE  /\ O!Project(r, e).present
         /\ r.version >= e.version =>
              \A f \in {"version", "name", "variant", "notes"} : O!Project(r, e)[f] = r[f]
         /\ \A x :
              \/ x \in O!Project(r, e).photos <=> x \in O!Apply(s, e).photos
              \/ /\ x \in O!Project(r, e).photos <=> x \in r.photos
                 /\ x \in O!Apply(s, e).photos <=> x \in s.photos
         /\ \A x \in Pieces :
              \/ O!Project(r, e).positions[x] = O!Apply(s, e).positions[x]
              \/ /\ O!Project(r, e).positions[x] = r.positions[x]
                 /\ \/ O!Apply(s, e).positions[x] = s.positions[x]
                    \/ r.positions[x] # s.positions[x]
<1> DEFINE q == O!Project(r, e)
           t == O!Apply(s, e)
<1>1. /\ s = O!Blank /\ s \in O!States /\ e.version \in Nat /\ e.arg.name \in Texts \cup {"blank"}
      /\ e.arg.notes \in Texts \cup {"blank"} /\ e.arg.pieces \in Seq(Pieces)
  BY DEF SoundOutfit, LegalOutfit, NextVersion, O!States
<1>2. t = [[s EXCEPT !.created = TRUE, !.name = e.arg.name, !.pieces = e.arg.pieces,
                     !.positions = [k \in Pieces |-> O!PlaceOf(e.arg.pieces, k)],
                     !.variant = (e.type = "OutfitVariantCreated"), !.notes = e.arg.notes,
                     !.photos = {}] EXCEPT !.version = e.version]
  BY DEF O!Apply
<1>3. /\ q.present /\ q.photos = r.photos
      /\ \A x \in Pieces : q.positions[x] = IF r.positions[x] = -1 THEN O!PlaceOf(e.arg.pieces, x)
          ELSE r.positions[x]
      /\ r.version >= e.version => \A f \in {"version", "name", "variant", "notes"} : q[f] = r[f]
  BY <1>1, OutfitUpserts
<1> HIDE DEF q, t
<1>4. t.photos = {} /\ \A x \in Pieces : t.positions[x] = O!PlaceOf(e.arg.pieces, x)
  BY <1>1, <1>2 DEF O!States
<1>5. s.photos = {} /\ \A x \in Pieces : s.positions[x] = -1
  BY <1>1 DEF O!Blank
<1>6. \A x : (x \in q.photos <=> x \in r.photos) /\ (x \in t.photos <=> x \in s.photos)
  BY <1>3, <1>4, <1>5
<1>7. ASSUME NEW x \in Pieces
      PROVE  \/ q.positions[x] = t.positions[x]
             \/ q.positions[x] = r.positions[x] /\ r.positions[x] # s.positions[x]
  BY <1>3, <1>4, <1>5
<1> QED
  BY <1>3, <1>6, <1>7 DEF q, t

LEMMA OutfitFollows ==
  ASSUME NEW e, NEW r \in OutfitRows, NEW u, NEW c \in Nat, NEW n \in Nat \ {0}, NEW m \in Nat,
         c <= n, m = IF c + 1 > n THEN c + 1 ELSE n, \A i \in 0..m : u[i].version = i,
         SoundOutfit(u[c]), LegalOutfit(u[c], e), u[c + 1] = O!Apply(u[c], e), ~u[c + 1].deleted,
         AliveOutfit(r, c, n, u)
  PROVE  AliveOutfit(O!Project(r, e), c + 1, m, u)
<1> DEFINE q == O!Project(r, e)
           t == u[c + 1]
           s == u[c]
<1>1. r.present /\ \A f \in {"version", "name", "variant", "notes"} : r[f] = u[n][f]
  BY DEF AliveOutfit, Latest
<1>2. r.version = n /\ e.version = c + 1 /\ u[c].version = c
  BY <1>1 DEF LegalOutfit, NextVersion
<1>3. e.type # "OutfitDeleted"
  BY OutfitEnds
<1>4. /\ q.present
      /\ r.version >= e.version => \A f \in {"version", "name", "variant", "notes"} : q[f] = r[f]
      /\ \A x :
           \/ x \in q.photos <=> x \in t.photos
           \/ (x \in q.photos <=> x \in r.photos) /\ (x \in t.photos <=> x \in s.photos)
      /\ \A x \in Pieces :
           \/ q.positions[x] = t.positions[x]
           \/ /\ q.positions[x] = r.positions[x]
              /\ t.positions[x] = s.positions[x] \/ r.positions[x] # s.positions[x]
  <2>1. CASE e.type \in {"OutfitCreated", "OutfitVariantCreated"}
    BY <1>1, <2>1, OutfitRepeats
  <2>2. CASE e.type \notin {"OutfitCreated", "OutfitVariantCreated"}
    <3>1. e.type \notin {"OutfitCreated", "OutfitVariantCreated", "OutfitDeleted"}
      BY <1>3, <2>2
    <3> QED
      BY <1>1, <3>1, OutfitChanges
  <2> QED
    BY <2>1, <2>2
<1>5. c = n => \A f \in {"version", "name", "variant", "notes"} : q[f] = u[c + 1][f]
  <2> SUFFICES ASSUME c = n
               PROVE  \A f \in {"version", "name", "variant", "notes"} : q[f] = u[c + 1][f]
    OBVIOUS
  <2>1. e.type \notin {"OutfitCreated", "OutfitVariantCreated", "OutfitDeleted"}
    BY <1>2, <1>3 DEF LegalOutfit, O!Blank
  <2>2. r.version < e.version
    BY <1>2
  <2> QED
    BY <1>1, <2>1, <2>2, OutfitChanges
<1> HIDE DEF q
<1>6. Latest({"version", "name", "variant", "notes"}, q, m, u)
  <2>1. CASE c = n
    BY <1>5, <2>1 DEF Latest
  <2>2. CASE c < n
    BY <1>1, <1>2, <1>4, <2>2 DEF Latest
  <2> QED
    BY <2>1, <2>2
<1>7. MembersFollow({"photos"}, q, c + 1, m, u)
  BY <1>4, MembersStep DEF AliveOutfit
<1>8. PiecesFollow(q, c + 1, m, u)
  BY <1>4, PiecesStep DEF AliveOutfit
<1> QED
  BY <1>4, <1>6, <1>7, <1>8 DEF AliveOutfit, q

LEMMA OutfitStarts ==
  ASSUME NEW e, NEW u, LegalOutfit(O!Blank, e), u[1] = O!Apply(O!Blank, e)
  PROVE  AliveOutfit(O!Project(O!NoRow, e), 1, 1, u)
<1> DEFINE q == O!Project(O!NoRow, e)
<1>1. /\ e.type \in {"OutfitCreated", "OutfitVariantCreated"} /\ e.version = 1
      /\ e.arg.name \in Texts \cup {"blank"} /\ e.arg.notes \in Texts \cup {"blank"}
      /\ e.arg.pieces \in Seq(Pieces)
  BY DEF LegalOutfit, NextVersion, O!Blank
<1>2. ~O!NoRow.present /\ O!NoRow.photos = {} /\ \A x \in Pieces : O!NoRow.positions[x] = -1
  BY DEF O!NoRow
<1>3. /\ q.present /\ q.photos = {} /\ q.version = 1 /\ q.name = e.arg.name /\ q.notes = e.arg.notes
      /\ q.variant = (e.type = "OutfitVariantCreated")
      /\ \A x \in Pieces : q.positions[x] = O!PlaceOf(e.arg.pieces, x)
  BY <1>1, <1>2, OutfitUpserts, OutfitBegins
<1>4. u[1] = [[O!Blank EXCEPT !.created = TRUE, !.name = e.arg.name, !.pieces = e.arg.pieces,
                     !.positions = [k \in Pieces |-> O!PlaceOf(e.arg.pieces, k)],
                     !.variant = (e.type = "OutfitVariantCreated"), !.notes = e.arg.notes,
                     !.photos = {}] EXCEPT !.version = e.version]
  BY <1>1 DEF O!Apply
<1>5. u[1].positions = [k \in Pieces |-> O!PlaceOf(e.arg.pieces, k)]
  BY <1>4 DEF O!Blank
<1>6. /\ u[1].photos = {} /\ u[1].version = 1 /\ u[1].name = e.arg.name /\ u[1].notes = e.arg.notes
      /\ u[1].variant = (e.type = "OutfitVariantCreated")
  BY <1>1, <1>4 DEF O!Blank
<1> HIDE DEF q
<1>7. Latest({"version", "name", "variant", "notes"}, q, 1, u)
  BY <1>3, <1>6 DEF Latest
<1>8. MembersFollow({"photos"}, q, 1, 1, u)
  BY <1>3, <1>6, FollowsAt
<1>9. PiecesFollow(q, 1, 1, u)
  BY <1>3, <1>5 DEF PiecesFollow
<1> QED
  BY <1>3, <1>7, <1>8, <1>9 DEF AliveOutfit, q

LEMMA OutfitCaught ==
  ASSUME NEW r \in OutfitRows, NEW u, NEW n \in Nat, SoundOutfit(u[n]), u[n].version > 0,
         ~u[n].deleted,
         AliveOutfit(r, n, n, u)
  PROVE  r = O!View(u[n])
<1> DEFINE s == u[n]
<1>1. /\ r.present /\ r.version = s.version /\ r.name = s.name /\ r.variant = s.variant
      /\ r.notes = s.notes
  BY DEF AliveOutfit, Latest
<1>2. r.photos = s.photos
  <2>1. \A x : x \in r.photos <=> x \in s.photos
    BY FollowsAt DEF AliveOutfit
  <2> QED
    BY <2>1 DEF OutfitRows, SoundOutfit, O!States
<1>3. r.positions = s.positions
  <2>1. \A x \in Pieces : r.positions[x] = s.positions[x]
    BY DEF AliveOutfit, PiecesFollow
  <2> QED
    BY <2>1 DEF OutfitRows, SoundOutfit, O!States
<1>4. s.created
  BY DEF SoundOutfit, CreatedOnce
<1> QED
  BY <1>1, <1>2, <1>3, <1>4 DEF OutfitRows, O!View

-----------------------------------------------------------------------------
(* Scenes: beats are known by character and order. *)

LEMMA GreatestOfBounded ==
  ASSUME NEW W, W \subseteq Nat, W # {}, NEW b \in Nat, \A n \in W : n < b
  PROVE  S!Max(W) \in W /\ \A n \in W : n <= S!Max(W)
<1> DEFINE U == {b - n : n \in W}
<1>1. U \subseteq Nat /\ U # {}
  <2>1. \A n \in W : b - n \in Nat
    OBVIOUS
  <2> QED
    BY <2>1
<1>2. PICK x \in U : \A y \in U : ~(<<y, x>> \in OpToRel(<, Nat))
  <2> HIDE DEF U
  <2> QED
    BY <1>1, NatLessThanWellFounded, WFMin
<1>3. \A y \in U : ~(y < x)
  <2> TAKE y \in U
  <2>1. x \in Nat /\ y \in Nat /\ <<y, x>> \in Nat \X Nat
    BY <1>1
  <2>2. y < x => <<y, x>> \in OpToRel(<, Nat)
    BY <2>1 DEF OpToRel
  <2> QED
    BY <1>2, <2>2
<1>4. PICK v \in W : x = b - v
  OBVIOUS
<1>5. \A n \in W : v >= n
  <2> TAKE n \in W
  <2>1. b - n \in U /\ ~(b - n < b - v)
    BY <1>3, <1>4
  <2> QED
    BY <2>1
<1>6. S!Max(W) \in W /\ \A n \in W : S!Max(W) >= n
  BY <1>5 DEF S!Max
<1> QED
  BY <1>6

LEMMA NextOrderIsFree ==
  ASSUME NEW s, SoundScene(s), NEW k \in Characters
  PROVE  /\ S!NextOrder(s, k) \in Nat /\ S!NextOrder(s, k) <= s.version
         /\ BeatAt(s.beats, k, S!NextOrder(s, k)) = {}
<1>1. s.beats \subseteq S!Beats /\ s.version \in Nat /\ \A b \in s.beats : b.order \in Nat
        /\ b.order < s.version
  BY DEF SoundScene, S!States, S!Beats
<1>2. CASE S!BeatsOf(s, k) = {}
  <2>1. S!NextOrder(s, k) = 0
    BY <1>2 DEF S!NextOrder
  <2>2. BeatAt(s.beats, k, 0) = {}
    BY <1>2 DEF S!BeatsOf, BeatAt
  <2> QED
    BY <1>1, <2>1, <2>2
<1>3. CASE S!BeatsOf(s, k) # {}
  <2> DEFINE W == {b.order : b \in S!BeatsOf(s, k)}
  <2>1. W \subseteq Nat /\ W # {} /\ \A n \in W : n < s.version
    BY <1>1, <1>3 DEF S!BeatsOf
  <2>2. S!NextOrder(s, k) = S!Max(W) + 1
    BY <1>3 DEF S!NextOrder
  <2>3. \A b \in s.beats : b.character = k => b.order \in W
    BY DEF S!BeatsOf
  <2> HIDE DEF W
  <2>4. S!Max(W) \in W /\ \A n \in W : n <= S!Max(W)
    BY <1>1, <2>1, GreatestOfBounded
  <2>5. S!Max(W) \in Nat /\ S!Max(W) < s.version
    BY <2>1, <2>4
  <2>6. \A b \in s.beats : b.character = k => b.order # S!Max(W) + 1
    BY <2>1, <2>3, <2>4, <2>5
  <2> QED
    BY <1>1, <2>2, <2>5, <2>6 DEF BeatAt
<1> QED
  BY <1>2, <1>3

LEMMA BeatsTaken ==
  ASSUME NEW r, NEW k, NEW o, NEW j
  PROVE  BeatAt(r.beats \ S!BeatsOf(r, j), k, o) = IF k = j THEN {} ELSE BeatAt(r.beats, k, o)
BY DEF BeatAt, S!BeatsOf

(* UPDATE of the beat's row *)
Reset(beats, a) == {IF b.character = a.character /\ b.order = a.order THEN a ELSE b : b \in beats}

LEMMA BeatsSet ==
  ASSUME NEW beats, NEW a, NEW k, NEW o
  PROVE  BeatAt(Reset(beats, a), k, o)
           = IF k = a.character /\ o = a.order /\ BeatAt(beats, k, o) # {}
               THEN {a} ELSE BeatAt(beats, k, o)
<1> DEFINE g(b) == IF b.character = a.character /\ b.order = a.order THEN a ELSE b
           new == Reset(beats, a)
<1> USE DEF Reset
<1>1. CASE k = a.character /\ o = a.order
  <2>1. \A b : b \in BeatAt(beats, k, o) <=> b \in beats /\ b.character = k /\ b.order = o
    BY DEF BeatAt
  <2>2. \A x : x \in BeatAt(new, k, o) <=> x = a /\ \E b \in beats : b.character = k /\ b.order = o
    BY <1>1 DEF BeatAt
  <2>3. CASE BeatAt(beats, k, o) = {}
    <3>1. \A x : x \notin BeatAt(new, k, o)
      BY <2>1, <2>2, <2>3
    <3> QED
      BY <1>1, <2>3, <3>1
  <2>4. CASE BeatAt(beats, k, o) # {}
    <3>1. \A x : x \in BeatAt(new, k, o) <=> x = a
      BY <2>1, <2>2, <2>4
    <3> QED
      BY <1>1, <2>4, <3>1
  <2> QED
    BY <2>3, <2>4
<1>2. CASE ~(k = a.character /\ o = a.order)
  <2>1. \A x : x \in BeatAt(new, k, o) <=> x \in BeatAt(beats, k, o)
    BY <1>2 DEF BeatAt
  <2>2. BeatAt(new, k, o) = BeatAt(beats, k, o)
    BY <2>1
  <2> QED
    BY <1>2, <2>2
<1> QED
  BY <1>1, <1>2

LEMMA SceneApplies ==
  ASSUME NEW s, NEW e, SoundScene(s), LegalScene(s, e)
  PROVE  SoundScene(S!Apply(s, e)) /\ S!Apply(s, e).version = s.version + 1
<1> DEFINE t == S!Apply(s, e)
           Goal == /\ t \in S!States /\ t.version = s.version + 1 /\ t.created
                   /\ \A b \in t.beats : b.order < t.version
<1>1. /\ s \in S!States /\ s.version \in Nat /\ e.version \in Nat /\ e.version = s.version + 1
      /\ s.beats \subseteq S!Beats /\ \A b \in s.beats : b.order \in Nat /\ b.order < s.version
  BY DEF SoundScene, LegalScene, NextVersion, S!States, S!Beats
<1> SUFFICES Goal
  BY <1>1 DEF SoundScene, CreatedOnce
<1>2. CASE e.type = "SceneCreated"
  <2>0. s.version = 0 /\ s.beats = {}
    BY <1>2 DEF LegalScene, S!Blank
  <2>1. t = [[s EXCEPT !.created = TRUE, !.details = e.arg, !.characters = {}, !.days = {}]
              EXCEPT !.version = e.version]
    BY <1>2 DEF S!Apply, S!CastEvents, S!ApplyCast
  <2> HIDE DEF t
  <2>2. t.beats = s.beats /\ t.version = s.version + 1 /\ t.created
    BY <1>1, <2>0, <2>1 DEF S!States
  <2>4. \A b \in t.beats : b.order < t.version
    BY <1>1, <2>0, <2>2 DEF S!Beats
  <2>5. t \in S!States
    BY <1>1, <1>2, <2>0, <2>1 DEF LegalScene, S!States
  <2> QED
    BY <2>2, <2>4, <2>5
<1>3. CASE e.type = "SceneDetailsUpdated"
  <2>0. s.created
    BY <1>3 DEF LegalScene
  <2>1. t = [[s EXCEPT !.details = e.arg] EXCEPT !.version = e.version]
    BY <1>3 DEF S!Apply, S!CastEvents, S!ApplyCast
  <2> HIDE DEF t
  <2>2. t.beats = s.beats /\ t.version = s.version + 1 /\ t.created
    BY <1>1, <2>0, <2>1 DEF S!States
  <2>4. \A b \in t.beats : b.order < t.version
    BY <1>1, <2>0, <2>2 DEF S!Beats
  <2>5. t \in S!States
    BY <1>1, <1>3, <2>0, <2>1 DEF LegalScene, S!States
  <2> QED
    BY <2>2, <2>4, <2>5
<1>4. CASE e.type = "CharacterAssigned"
  <2>0. s.created
    BY <1>4 DEF LegalScene
  <2>1. t = [[s EXCEPT !.characters = @ \cup {e.arg}] EXCEPT !.version = e.version]
    BY <1>4 DEF S!Apply, S!CastEvents, S!ApplyCast
  <2> HIDE DEF t
  <2>2. t.beats = s.beats /\ t.version = s.version + 1 /\ t.created
    BY <1>1, <2>0, <2>1 DEF S!States
  <2>4. \A b \in t.beats : b.order < t.version
    BY <1>1, <2>0, <2>2 DEF S!Beats
  <2>5. t \in S!States
    BY <1>1, <1>4, <2>0, <2>1 DEF LegalScene, S!States
  <2> QED
    BY <2>2, <2>4, <2>5
<1>5. CASE e.type = "CharacterRemoved"
  <2>0. s.created
    BY <1>5 DEF LegalScene
  <2>1. t = [[s EXCEPT !.characters = @ \ {e.arg}] EXCEPT !.version = e.version]
    BY <1>5 DEF S!Apply, S!CastEvents, S!ApplyCast
  <2> HIDE DEF t
  <2>2. t.beats = s.beats /\ t.version = s.version + 1 /\ t.created
    BY <1>1, <2>0, <2>1 DEF S!States
  <2>4. \A b \in t.beats : b.order < t.version
    BY <1>1, <2>0, <2>2 DEF S!Beats
  <2>5. t \in S!States
    BY <1>1, <1>5, <2>0, <2>1 DEF LegalScene, S!States
  <2> QED
    BY <2>2, <2>4, <2>5
<1>6. CASE e.type = "ShootingDayScheduled"
  <2>0. s.created
    BY <1>6 DEF LegalScene
  <2>1. t = [[s EXCEPT !.days = @ \cup {e.arg}] EXCEPT !.version = e.version]
    BY <1>6 DEF S!Apply, S!CastEvents, S!ApplyRest
  <2> HIDE DEF t
  <2>2. t.beats = s.beats /\ t.version = s.version + 1 /\ t.created
    BY <1>1, <2>0, <2>1 DEF S!States
  <2>4. \A b \in t.beats : b.order < t.version
    BY <1>1, <2>0, <2>2 DEF S!Beats
  <2>5. t \in S!States
    BY <1>1, <1>6, <2>0, <2>1 DEF LegalScene, S!States
  <2> QED
    BY <2>2, <2>4, <2>5
<1>7. CASE e.type = "ShootingDayUnscheduled"
  <2>0. s.created
    BY <1>7 DEF LegalScene
  <2>1. t = [[s EXCEPT !.days = @ \ {e.arg}] EXCEPT !.version = e.version]
    BY <1>7 DEF S!Apply, S!CastEvents, S!ApplyRest
  <2> HIDE DEF t
  <2>2. t.beats = s.beats /\ t.version = s.version + 1 /\ t.created
    BY <1>1, <2>0, <2>1 DEF S!States
  <2>4. \A b \in t.beats : b.order < t.version
    BY <1>1, <2>0, <2>2 DEF S!Beats
  <2>5. t \in S!States
    BY <1>1, <1>7, <2>0, <2>1 DEF LegalScene, S!States
  <2> QED
    BY <2>2, <2>4, <2>5
<1>8. CASE e.type = "OutfitBeatAdded"
  <2>0. s.created /\ e.arg \in S!Beats /\ e.arg.order <= s.version
    BY <1>8 DEF LegalScene
  <2>1. t = [[s EXCEPT !.beats = @ \cup {e.arg}] EXCEPT !.version = e.version]
    BY <1>8 DEF S!Apply, S!CastEvents, S!ApplyRest
  <2> HIDE DEF t
  <2>2. t.beats = s.beats \cup {e.arg} /\ t.version = s.version + 1 /\ t.created
    BY <1>1, <2>0, <2>1 DEF S!States
  <2>4. \A b \in t.beats : b.order < t.version
    BY <1>1, <2>0, <2>2 DEF S!Beats
  <2>5. t \in S!States
    BY <1>1, <1>8, <2>0, <2>1 DEF LegalScene, S!States
  <2> QED
    BY <2>2, <2>4, <2>5
<1>9. CASE e.type = "OutfitBeatUpdated"
  <2>0. s.created /\ e.arg \in S!Beats /\ BeatAt(s.beats, e.arg.character, e.arg.order) # {}
    BY <1>9 DEF LegalScene
  <2>1. t = [[s EXCEPT !.beats = {b \in @ : b.character # e.arg.character
                                   \/ b.order # e.arg.order} \cup {e.arg}]
                                       EXCEPT !.version = e.version]
    BY <1>9 DEF S!Apply, S!CastEvents, S!ApplyRest
  <2> HIDE DEF t
  <2>2. t.beats = {b \in s.beats : b.character # e.arg.character
                    \/ b.order # e.arg.order} \cup {e.arg} /\ t.version = s.version + 1 /\ t.created
    BY <1>1, <2>0, <2>1 DEF S!States
  <2>3. e.arg.order \in Nat /\ e.arg.order < s.version
    BY <1>1, <2>0 DEF BeatAt, S!Beats
  <2>4. \A b \in t.beats : b.order < t.version
    BY <1>1, <2>2, <2>3 DEF S!Beats
  <2>5. t \in S!States
    BY <1>1, <1>9, <2>0, <2>1 DEF LegalScene, S!States
  <2> QED
    BY <2>2, <2>4, <2>5
<1>10. CASE e.type = "OutfitBeatRemoved"
  <2>0. s.created
    BY <1>10 DEF LegalScene
  <2>1. t = [[s EXCEPT !.beats = {b \in @ : b.character # e.arg.character \/ b.order # e.arg.order}]
              EXCEPT !.version = e.version]
    BY <1>10 DEF S!Apply, S!CastEvents, S!ApplyRest
  <2> HIDE DEF t
  <2>2. t.beats = {b \in s.beats : b.character # e.arg.character \/ b.order # e.arg.order}
          /\ t.version = s.version + 1 /\ t.created
    BY <1>1, <2>0, <2>1 DEF S!States
  <2>4. \A b \in t.beats : b.order < t.version
    BY <1>1, <2>0, <2>2 DEF S!Beats
  <2>5. t \in S!States
    BY <1>1, <1>10, <2>0, <2>1 DEF LegalScene, S!States
  <2> QED
    BY <2>2, <2>4, <2>5
<1>11. CASE e.type = "OutfitBeatsCleared"
  <2>0. s.created
    BY <1>11 DEF LegalScene
  <2>1. t = [[s EXCEPT !.beats = @ \ S!BeatsOf(s, e.arg)] EXCEPT !.version = e.version]
    BY <1>11 DEF S!Apply, S!CastEvents, S!ApplyRest
  <2> HIDE DEF t
  <2>2. t.beats = s.beats \ S!BeatsOf(s, e.arg) /\ t.version = s.version + 1 /\ t.created
    BY <1>1, <2>0, <2>1 DEF S!States
  <2>4. \A b \in t.beats : b.order < t.version
    BY <1>1, <2>0, <2>2 DEF S!Beats, S!BeatsOf
  <2>5. t \in S!States
    BY <1>1, <1>11, <2>0, <2>1 DEF LegalScene, S!States
  <2> QED
    BY <2>2, <2>4, <2>5
<1>12. CASE e.type = "SceneDeleted"
  <2>0. s.created
    BY <1>12 DEF LegalScene
  <2>1. t = [[s EXCEPT !.deleted = TRUE] EXCEPT !.version = e.version]
    BY <1>12 DEF S!Apply, S!CastEvents, S!ApplyCast
  <2> HIDE DEF t
  <2>2. t.beats = s.beats /\ t.version = s.version + 1 /\ t.created
    BY <1>1, <2>0, <2>1 DEF S!States
  <2>4. \A b \in t.beats : b.order < t.version
    BY <1>1, <2>0, <2>2 DEF S!Beats
  <2>5. t \in S!States
    BY <1>1, <1>12, <2>0, <2>1 DEF LegalScene, S!States
  <2> QED
    BY <2>2, <2>4, <2>5
<1> QED
  BY <1>2, <1>3, <1>4, <1>5, <1>6, <1>7, <1>8, <1>9, <1>10, <1>11, <1>12 DEF LegalScene

LEMMA SceneHandles ==
  ASSUME NEW s, SoundScene(s), NEW r, NEW v \in Nat, NEW c \in S!Requests(r, v) \cup S!Deletions,
         S!Expected(c, s.version)
  PROVE  /\ \/ S!Handle(s, c).events = << >>
            \/ \E e : S!Handle(s, c).events = <<e>> /\ LegalScene(s, e)
            \/ \E e, f : /\ S!Handle(s, c).events = <<e, f>>
                        /\ LegalScene(s, e) /\ LegalScene(S!Apply(s, e), f)
         /\ S!Expected(c, 0) \/ v = s.version
<1> DEFINE Emits(d) == \/ d.events = << >>
                       \/ \E e : d.events = <<e>> /\ LegalScene(s, e)
                       \/ \E e, f : d.events = <<e, f>> /\ LegalScene(s, e)
                           /\ LegalScene(S!Apply(s, e), f)
<1>1. s \in S!States /\ s.version \in Nat /\ s.created \in BOOLEAN /\ s.deleted \in BOOLEAN
  BY DEF SoundScene, S!States
<1>2. \/ c.type = "CreateScene" /\ c.arg \in Texts
      \/ c.type = "DeleteScene"
      \/ /\ c.version = v
         /\ \/ c.type = "UpdateSceneDetails" /\ c.arg \in Texts
            \/ c.type \in {"AssignCharacter", "RemoveCharacter", "ClearOutfitBeats"}
                /\ c.arg \in Characters
            \/ c.type \in {"ScheduleScene", "UnscheduleScene"} /\ c.arg \in Days
            \/ c.type \in {"AddOutfitBeat", "UpdateOutfitBeat", "RemoveOutfitBeat"}
                /\ c.arg \in S!Beats
  <2>1. CASE c \in S!CreateSceneRequests \cup S!Deletions \cup S!UpdateDetailsRequests(r, v)
    BY <2>1 DEF S!CreateSceneRequests, S!Deletions, S!UpdateDetailsRequests, S!Found, S!Cmd
  <2>2. CASE c \in S!AssignCharacterRequests(r, v) \cup S!RemoveCharacterRequests(r, v) \cup S!ClearBeatsRequests(r, v)
    BY <2>2 DEF S!AssignCharacterRequests, S!RemoveCharacterRequests, S!ClearBeatsRequests,
       S!Found, S!Cmd
  <2>3. CASE c \in S!ScheduleRequests(v) \cup S!UnscheduleRequests(v)
    BY <2>3 DEF S!ScheduleRequests, S!UnscheduleRequests, S!Cmd
  <2>4. S!BeatBodies({0}) \subseteq S!Beats /\ S!BeatBodies({0, 1}) \subseteq S!Beats
    BY DEF S!BeatBodies, S!Beats
  <2>5. CASE c \in S!AddBeatRequests(r, v) \cup S!UpdateBeatRequests(r, v)
    BY <2>4, <2>5 DEF S!AddBeatRequests, S!UpdateBeatRequests, S!Found, S!Cmd
  <2>6. CASE c \in S!RemoveBeatRequests(r, v)
    <3> DEFINE bodies == {x \in S!BeatBodies({0, 1}) : x.look = CHOOSE l \in Looks : TRUE}
    <3>1. bodies \subseteq S!Beats
      BY <2>4
    <3>2. \E b \in bodies : c = S!Cmd("RemoveOutfitBeat", v, b)
      BY <2>6 DEF S!RemoveBeatRequests, S!Found
    <3> HIDE DEF bodies
    <3> QED
      BY <3>1, <3>2 DEF S!Cmd
  <2> QED
    BY <2>1, <2>2, <2>3, <2>5, <2>6 DEF S!Requests
<1>3. S!Expected(c, 0) \/ v = s.version
  BY <1>1, <1>2 DEF S!Expected, S!ExpectAny, S!ExpectEmpty, S!ExpectExact
<1> SUFFICES Emits(S!Handle(s, c))
  BY <1>3, Zenon
<1>4. c.type \notin {"CreateScene", "DeleteScene"} => s.created
  BY <1>1 DEF SoundScene, CreatedOnce, S!Expected, S!ExpectExact
<1>5. Emits(S!Reject) /\ Emits(S!NoOp)
  BY DEF S!Reject, S!NoOp, S!Accept
<1>6. ASSUME NEW type, NEW arg, LegalScene(s, S!Event(type, arg, s.version + 1))
      PROVE  Emits(S!Emit(s, type, arg))
  <2>1. S!Emit(s, type, arg).events = <<S!Event(type, arg, s.version + 1)>>
    BY DEF S!Emit, S!Accept
  <2> QED
    BY <1>6, <2>1, Zenon
<1> HIDE DEF Emits
<1>7. CASE c.type = "UpdateSceneDetails"
  <2>1. \/ S!Handle(s, c) = S!Reject
        \/ S!Handle(s, c) = S!NoOp
        \/ /\ S!Handle(s, c) = S!Emit(s, "SceneDetailsUpdated", c.arg) /\ ~s.deleted
    BY <1>7, Zenon DEF S!Handle, S!UpdateSceneDetails, S!Given, S!Fresh
  <2>2. ~s.deleted => LegalScene(s, S!Event("SceneDetailsUpdated", c.arg, s.version + 1))
    BY <1>1, <1>2, <1>4, <1>7 DEF LegalScene, NextVersion, S!Event
  <2> QED
    BY <1>5, <1>6, <2>1, <2>2, Zenon
<1>8. CASE c.type = "AssignCharacter"
  <2>1. \/ S!Handle(s, c) = S!Reject
        \/ S!Handle(s, c) = S!NoOp
        \/ /\ S!Handle(s, c) = S!Emit(s, "CharacterAssigned", c.arg) /\ ~s.deleted
    BY <1>8, Zenon DEF S!Handle, S!AssignCharacter, S!Given, S!Fresh
  <2>2. ~s.deleted => LegalScene(s, S!Event("CharacterAssigned", c.arg, s.version + 1))
    BY <1>1, <1>2, <1>4, <1>8 DEF LegalScene, NextVersion, S!Event
  <2> QED
    BY <1>5, <1>6, <2>1, <2>2, Zenon
<1>9. CASE c.type = "ScheduleScene"
  <2>1. \/ S!Handle(s, c) = S!Reject
        \/ S!Handle(s, c) = S!NoOp
        \/ /\ S!Handle(s, c) = S!Emit(s, "ShootingDayScheduled", c.arg) /\ ~s.deleted
    BY <1>9, Zenon DEF S!Handle, S!ScheduleScene, S!Given, S!IsScheduled, S!Fresh
  <2>2. ~s.deleted => LegalScene(s, S!Event("ShootingDayScheduled", c.arg, s.version + 1))
    BY <1>1, <1>2, <1>4, <1>9 DEF LegalScene, NextVersion, S!Event
  <2> QED
    BY <1>5, <1>6, <2>1, <2>2, Zenon
<1>10. CASE c.type = "UnscheduleScene"
  <2>1. \/ S!Handle(s, c) = S!Reject
        \/ S!Handle(s, c) = S!NoOp
        \/ /\ S!Handle(s, c) = S!Emit(s, "ShootingDayUnscheduled", c.arg) /\ ~s.deleted
    BY <1>10, Zenon DEF S!Handle, S!UnscheduleScene, S!Given, S!Fresh
  <2>2. ~s.deleted => LegalScene(s, S!Event("ShootingDayUnscheduled", c.arg, s.version + 1))
    BY <1>1, <1>2, <1>4, <1>10 DEF LegalScene, NextVersion, S!Event
  <2> QED
    BY <1>5, <1>6, <2>1, <2>2, Zenon
<1>11. CASE c.type = "UpdateOutfitBeat"
  <2>1. \/ S!Handle(s, c) = S!Reject
        \/ S!Handle(s, c) = S!NoOp
        \/ /\ S!Handle(s, c) = S!Emit(s, "OutfitBeatUpdated", c.arg) /\ ~s.deleted
           /\ S!HasBeat(s, c.arg)
    BY <1>11, Zenon DEF S!Handle, S!UpdateOutfitBeat, S!Given, S!Fresh
  <2>2. ~s.deleted /\ S!HasBeat(s, c.arg)
          => LegalScene(s, S!Event("OutfitBeatUpdated", c.arg, s.version + 1))
    BY <1>1, <1>2, <1>4, <1>11 DEF LegalScene, NextVersion, S!Event, S!HasBeat, S!BeatsOf, BeatAt
  <2> QED
    BY <1>5, <1>6, <2>1, <2>2, Zenon
<1>12. CASE c.type = "RemoveOutfitBeat"
  <2>1. \/ S!Handle(s, c) = S!Reject
        \/ S!Handle(s, c) = S!NoOp
        \/ /\ S!Handle(s, c) = S!Emit(s, "OutfitBeatRemoved", c.arg) /\ ~s.deleted
           /\ S!HasBeat(s, c.arg)
    BY <1>12, Zenon DEF S!Handle, S!RemoveOutfitBeat, S!Given, S!Fresh
  <2>2. ~s.deleted /\ S!HasBeat(s, c.arg)
          => LegalScene(s, S!Event("OutfitBeatRemoved", c.arg, s.version + 1))
    BY <1>1, <1>2, <1>4, <1>12 DEF LegalScene, NextVersion, S!Event, S!HasBeat, S!BeatsOf, BeatAt
  <2> QED
    BY <1>5, <1>6, <2>1, <2>2, Zenon
<1>13. CASE c.type = "ClearOutfitBeats"
  <2>1. \/ S!Handle(s, c) = S!Reject
        \/ S!Handle(s, c) = S!NoOp
        \/ /\ S!Handle(s, c) = S!Emit(s, "OutfitBeatsCleared", c.arg) /\ ~s.deleted
    BY <1>13, Zenon DEF S!Handle, S!ClearOutfitBeats, S!Given, S!Fresh
  <2>2. ~s.deleted => LegalScene(s, S!Event("OutfitBeatsCleared", c.arg, s.version + 1))
    BY <1>1, <1>2, <1>4, <1>13 DEF LegalScene, NextVersion, S!Event
  <2> QED
    BY <1>5, <1>6, <2>1, <2>2, Zenon
<1>14. CASE c.type = "CreateScene"
  <2>1. S!Handle(s, c) \in {S!Reject, S!Emit(s, "SceneCreated", c.arg)}
    <3>1. s.version = 0
      BY <1>14 DEF S!Expected, S!ExpectEmpty
    <3>2. S!Emit(s, "SceneCreated", c.arg) = S!Created("SceneCreated", c.arg)
      BY <3>1 DEF S!Emit, S!Created
    <3> QED
      BY <1>14, <3>2, Zenon DEF S!Handle, S!CreateScene, S!Given
  <2>2. s = S!Blank /\ ~s.deleted
    BY <1>14 DEF SoundScene, CreatedOnce, S!Expected, S!ExpectEmpty, S!Blank
  <2>3. LegalScene(s, S!Event("SceneCreated", c.arg, s.version + 1))
    BY <1>1, <1>2, <1>14, <2>2 DEF LegalScene, NextVersion, S!Event
  <2> QED
    BY <1>5, <1>6, <2>1, <2>3
<1>15. CASE c.type = "DeleteScene"
  <2>1. S!Handle(s, c) = S!Delete(s, "SceneDeleted")
    BY <1>15 DEF S!Handle
  <2>2. CASE s.deleted \/ ~s.created
    <3>1. S!Handle(s, c) \in {S!NoOp, S!Reject}
      BY <2>1, <2>2, Zenon DEF S!Delete, S!Given
    <3> QED
      BY <1>5, <3>1
  <2>3. CASE ~s.deleted /\ s.created
    <3>1. S!Handle(s, c) = S!Emit(s, "SceneDeleted", "none")
      BY <2>1, <2>3, Zenon DEF S!Delete, S!Given
    <3>2. LegalScene(s, S!Event("SceneDeleted", "none", s.version + 1))
      BY <1>1, <2>3 DEF LegalScene, NextVersion, S!Event
    <3> QED
      BY <1>6, <3>1, <3>2
  <2> QED
    BY <1>1, <2>2, <2>3
<1>16. CASE c.type = "AddOutfitBeat"
  <2> DEFINE k == c.arg.character
             b == [c.arg EXCEPT !.order = S!NextOrder(s, k)]
  <2>1. \/ S!Handle(s, c) = S!Reject
        \/ S!Handle(s, c) = S!Emit(s, "OutfitBeatAdded", b) /\ ~s.deleted
    <3>1. S!Handle(s, c) = S!AddOutfitBeat(s, c)
      BY <1>16 DEF S!Handle
    <3> QED
      BY <3>1, Zenon DEF S!AddOutfitBeat, S!Given, S!Fresh
  <2>2. k \in Characters /\ c.arg \in S!Beats
    BY <1>2, <1>16 DEF S!Beats
  <2>3. /\ S!NextOrder(s, k) \in Nat /\ S!NextOrder(s, k) <= s.version
        /\ BeatAt(s.beats, k, S!NextOrder(s, k)) = {}
    BY <2>2, NextOrderIsFree
  <2>4. b \in S!Beats /\ b.character = k /\ b.order = S!NextOrder(s, k)
    BY <2>2, <2>3 DEF S!Beats
  <2> HIDE DEF b
  <2>5. ~s.deleted => LegalScene(s, S!Event("OutfitBeatAdded", b, s.version + 1))
    BY <1>1, <1>4, <1>16, <2>3, <2>4 DEF LegalScene, NextVersion, S!Event
  <2> QED
    BY <1>5, <1>6, <2>1, <2>5
<1>17. CASE c.type = "RemoveCharacter"
  <2> DEFINE e == S!Event("OutfitBeatsCleared", c.arg, s.version + 1)
             f == S!Event("CharacterRemoved", c.arg, s.version + 2)
  <2>1. \/ S!Handle(s, c) = S!Reject
        \/ S!Handle(s, c) = S!Emit(s, "CharacterRemoved", c.arg) /\ ~s.deleted
        \/ S!Handle(s, c) = S!Accept(<<e, f>>) /\ ~s.deleted
    <3>1. S!Handle(s, c) = S!RemoveCharacter(s, c)
      BY <1>17 DEF S!Handle
    <3> QED
      BY <3>1, Zenon DEF S!RemoveCharacter, S!Given, S!Fresh
  <2>2. c.arg \in Characters
    BY <1>2, <1>17
  <2>3. CASE S!Handle(s, c) = S!Accept(<<e, f>>) /\ ~s.deleted
    <3>1. e.type = "OutfitBeatsCleared" /\ e.version = s.version + 1 /\ e.arg = c.arg
      BY DEF S!Event
    <3>2. f.type = "CharacterRemoved" /\ f.version = s.version + 2 /\ f.arg = c.arg
      BY DEF S!Event
    <3> HIDE DEF e, f
    <3>3. LegalScene(s, e)
      BY <1>4, <1>17, <2>2, <2>3, <3>1 DEF LegalScene, NextVersion
    <3>4. S!Apply(s, e) = [[s EXCEPT !.beats = @ \ S!BeatsOf(s, e.arg)]
                            EXCEPT !.version = e.version]
      BY <3>1 DEF S!Apply, S!CastEvents, S!ApplyRest
    <3>5. S!Apply(s, e).version = s.version + 1 /\ ~S!Apply(s, e).deleted /\ S!Apply(s, e).created
      BY <1>1, <1>4, <1>17, <2>3, <3>1, <3>4 DEF S!States
    <3>6. LegalScene(S!Apply(s, e), f)
      BY <1>1, <2>2, <3>2, <3>5 DEF LegalScene, NextVersion
    <3>7. S!Handle(s, c).events = <<e, f>>
      BY <2>3 DEF S!Accept
    <3> QED
      BY <3>3, <3>6, <3>7, Zenon DEF Emits
  <2>4. ~s.deleted => LegalScene(s, S!Event("CharacterRemoved", c.arg, s.version + 1))
    BY <1>1, <1>4, <1>17, <2>2 DEF LegalScene, NextVersion, S!Event
  <2> QED
    BY <1>5, <1>6, <2>1, <2>3, <2>4
<1> QED
  BY <1>2, <1>7, <1>8, <1>9, <1>10, <1>11, <1>12, <1>13, <1>14, <1>15, <1>16, <1>17

LEMMA BeatsLeft ==
  ASSUME NEW beats, NEW a
  PROVE  {b \in beats : ~(b.character = a.character /\ b.order = a.order)}
           = {b \in beats : b.character # a.character \/ b.order # a.order}
OBVIOUS

(* What an event does to the row of a scene that exists, and to the scene.  *)
(* The update of a beat the row does not have is lost on it; the scene had  *)
(* the beat then, so the row has seen a later event that removed it.        *)
SceneChanged(r, q, s, t, v) ==
  /\ q \in SceneRows /\ q.present
  /\ q.details = t.details \/ (q.details = r.details /\ t.details = s.details)
  /\ \A x : /\ \/ x \in q.characters <=> x \in t.characters
               \/ (x \in q.characters <=> x \in r.characters)
                   /\ (x \in t.characters <=> x \in s.characters)
            /\ \/ x \in q.days <=> x \in t.days
               \/ (x \in q.days <=> x \in r.days) /\ (x \in t.days <=> x \in s.days)
  /\ \/ r.version >= v /\ q = r
     \/ /\ q.version = v
        /\ \A k, o :
             \/ BeatAt(q.beats, k, o) = BeatAt(t.beats, k, o)
             \/ /\ BeatAt(q.beats, k, o) = BeatAt(r.beats, k, o)
                /\ \/ BeatAt(t.beats, k, o) = BeatAt(s.beats, k, o)
                   \/ BeatAt(r.beats, k, o) # BeatAt(s.beats, k, o)

LEMMA SceneChanges ==
  ASSUME NEW s, NEW e, NEW r \in SceneRows, SoundScene(s), LegalScene(s, e), r.present,
         e.type # "SceneDeleted", NEW q, q = S!Project(r, e), NEW t, t = S!Apply(s, e)
  PROVE  SceneChanged(r, q, s, t, e.version)
<1> DEFINE Members == \A x :
                        /\ \/ x \in q.characters <=> x \in t.characters
                           \/ (x \in q.characters <=> x \in r.characters)
                               /\ (x \in t.characters <=> x \in s.characters)
                        /\ \/ x \in q.days <=> x \in t.days
                           \/ (x \in q.days <=> x \in r.days) /\ (x \in t.days <=> x \in s.days)
           BeatStep(k, o) == \/ BeatAt(q.beats, k, o) = BeatAt(t.beats, k, o)
                             \/ /\ BeatAt(q.beats, k, o) = BeatAt(r.beats, k, o)
                                /\ \/ BeatAt(t.beats, k, o) = BeatAt(s.beats, k, o)
                                   \/ BeatAt(r.beats, k, o) # BeatAt(s.beats, k, o)
           Beaten == \A k, o : BeatStep(k, o)
<1> SUFFICES /\ q \in SceneRows /\ q.present
             /\ q.details = t.details \/ (q.details = r.details /\ t.details = s.details)
             /\ Members
             /\ (r.version >= e.version /\ q = r) \/ (q.version = e.version /\ Beaten)
  BY DEF SceneChanged
<1>1. s \in S!States /\ s.version \in Nat /\ e.version \in Nat /\ r.version \in Nat
  BY DEF SoundScene, LegalScene, NextVersion, S!States, SceneRows
<1> HIDE DEF Members, BeatStep, Beaten
<1>2. CASE e.type = "SceneCreated"
  <2>1. e.arg \in Texts /\ s.characters = {} /\ s.days = {}
    BY <1>2 DEF LegalScene, S!Blank
  <2>2. t = [[s EXCEPT !.created = TRUE, !.details = e.arg, !.characters = {}, !.days = {}]
              EXCEPT !.version = e.version]
    BY <1>2 DEF S!Apply, S!CastEvents, S!ApplyCast
  <2>3. q = [[r EXCEPT !.present = TRUE, !.details = e.arg] EXCEPT !.version = e.version]
    BY <1>2 DEF S!Project, S!ProjectRow, S!IfPresent, S!Touch
  <2>4. t.details = e.arg /\ t.characters = {} /\ t.days = {} /\ t.beats = s.beats
    BY <1>1, <2>2 DEF S!States
  <2>5. q.present /\ q.version = e.version /\ q.details = e.arg /\ q.characters = r.characters
          /\ q.days = r.days /\ q.beats = r.beats
    BY <2>3 DEF SceneRows
  <2>6. q \in SceneRows
    BY <1>1, <2>1, <2>3 DEF SceneRows
  <2>7. Members
    BY <2>1, <2>4, <2>5 DEF Members
  <2>8. Beaten
    BY <2>4, <2>5 DEF Beaten, BeatStep
  <2> QED
    BY <2>4, <2>5, <2>6, <2>7, <2>8
<1>3. CASE e.type = "SceneDetailsUpdated"
  <2>1. e.arg \in Texts
    BY <1>3 DEF LegalScene
  <2>2. t = [[s EXCEPT !.details = e.arg] EXCEPT !.version = e.version]
    BY <1>3 DEF S!Apply, S!CastEvents, S!ApplyCast
  <2>3. q = [[r EXCEPT !.details = e.arg] EXCEPT !.version = e.version]
    BY <1>3 DEF S!Project, S!ProjectRow, S!IfPresent, S!Touch
  <2>4. t.details = e.arg /\ t.characters = s.characters /\ t.days = s.days /\ t.beats = s.beats
    BY <1>1, <2>2 DEF S!States
  <2>5. q.present /\ q.version = e.version /\ q.details = e.arg /\ q.characters = r.characters
          /\ q.days = r.days /\ q.beats = r.beats
    BY <2>3 DEF SceneRows
  <2>6. q \in SceneRows
    BY <1>1, <2>1, <2>3 DEF SceneRows
  <2>7. Members
    BY <2>1, <2>4, <2>5 DEF Members
  <2>8. Beaten
    BY <2>4, <2>5 DEF Beaten, BeatStep
  <2> QED
    BY <2>4, <2>5, <2>6, <2>7, <2>8
<1>4. CASE e.type = "CharacterAssigned"
  <2>1. e.arg \in Characters
    BY <1>4 DEF LegalScene
  <2>2. t = [[s EXCEPT !.characters = @ \cup {e.arg}] EXCEPT !.version = e.version]
    BY <1>4 DEF S!Apply, S!CastEvents, S!ApplyCast
  <2>3. q = [[r EXCEPT !.characters = @ \cup {e.arg}] EXCEPT !.version = e.version]
    BY <1>4 DEF S!Project, S!ProjectLinks, S!IfPresent, S!Touch
  <2>4. t.details = s.details /\ t.characters = s.characters \cup {e.arg} /\ t.days = s.days
          /\ t.beats = s.beats
    BY <1>1, <2>2 DEF S!States
  <2>5. q.present /\ q.version = e.version /\ q.details = r.details
          /\ q.characters = r.characters \cup {e.arg} /\ q.days = r.days /\ q.beats = r.beats
    BY <2>3 DEF SceneRows
  <2>6. q \in SceneRows
    BY <1>1, <2>1, <2>3 DEF SceneRows
  <2>7. Members
    <3> SUFFICES ASSUME NEW x
                 PROVE  /\ \/ x \in q.characters <=> x \in t.characters
                           \/ (x \in q.characters <=> x \in r.characters)
                               /\ (x \in t.characters <=> x \in s.characters)
                        /\ \/ x \in q.days <=> x \in t.days
                           \/ (x \in q.days <=> x \in r.days) /\ (x \in t.days <=> x \in s.days)
      BY DEF Members
    <3>1. CASE x = e.arg
      BY <2>4, <2>5, <3>1
    <3>2. CASE x # e.arg
      BY <2>4, <2>5, <3>2
    <3> QED
      BY <3>1, <3>2
  <2>8. Beaten
    BY <2>4, <2>5 DEF Beaten, BeatStep
  <2> QED
    BY <2>4, <2>5, <2>6, <2>7, <2>8
<1>5. CASE e.type = "CharacterRemoved"
  <2>1. e.arg \in Characters
    BY <1>5 DEF LegalScene
  <2>2. t = [[s EXCEPT !.characters = @ \ {e.arg}] EXCEPT !.version = e.version]
    BY <1>5 DEF S!Apply, S!CastEvents, S!ApplyCast
  <2>3. q = [[r EXCEPT !.characters = @ \ {e.arg}] EXCEPT !.version = e.version]
    BY <1>5 DEF S!Project, S!ProjectLinks, S!IfPresent, S!Touch
  <2>4. t.details = s.details /\ t.characters = s.characters \ {e.arg} /\ t.days = s.days
          /\ t.beats = s.beats
    BY <1>1, <2>2 DEF S!States
  <2>5. q.present /\ q.version = e.version /\ q.details = r.details
          /\ q.characters = r.characters \ {e.arg} /\ q.days = r.days /\ q.beats = r.beats
    BY <2>3 DEF SceneRows
  <2>6. q \in SceneRows
    BY <1>1, <2>1, <2>3 DEF SceneRows
  <2>7. Members
    <3> SUFFICES ASSUME NEW x
                 PROVE  /\ \/ x \in q.characters <=> x \in t.characters
                           \/ (x \in q.characters <=> x \in r.characters)
                               /\ (x \in t.characters <=> x \in s.characters)
                        /\ \/ x \in q.days <=> x \in t.days
                           \/ (x \in q.days <=> x \in r.days) /\ (x \in t.days <=> x \in s.days)
      BY DEF Members
    <3>1. CASE x = e.arg
      BY <2>4, <2>5, <3>1
    <3>2. CASE x # e.arg
      BY <2>4, <2>5, <3>2
    <3> QED
      BY <3>1, <3>2
  <2>8. Beaten
    BY <2>4, <2>5 DEF Beaten, BeatStep
  <2> QED
    BY <2>4, <2>5, <2>6, <2>7, <2>8
<1>6. CASE e.type = "ShootingDayScheduled"
  <2>1. e.arg \in Days
    BY <1>6 DEF LegalScene
  <2>2. t = [[s EXCEPT !.days = @ \cup {e.arg}] EXCEPT !.version = e.version]
    BY <1>6 DEF S!Apply, S!CastEvents, S!ApplyRest
  <2>3. q = [[r EXCEPT !.days = @ \cup {e.arg}] EXCEPT !.version = e.version]
    BY <1>6 DEF S!Project, S!ProjectLinks, S!IfPresent, S!Touch
  <2>4. t.details = s.details /\ t.characters = s.characters /\ t.days = s.days \cup {e.arg}
          /\ t.beats = s.beats
    BY <1>1, <2>2 DEF S!States
  <2>5. q.present /\ q.version = e.version /\ q.details = r.details /\ q.characters = r.characters
          /\ q.days = r.days \cup {e.arg} /\ q.beats = r.beats
    BY <2>3 DEF SceneRows
  <2>6. q \in SceneRows
    BY <1>1, <2>1, <2>3 DEF SceneRows
  <2>7. Members
    <3> SUFFICES ASSUME NEW x
                 PROVE  /\ \/ x \in q.characters <=> x \in t.characters
                           \/ (x \in q.characters <=> x \in r.characters)
                               /\ (x \in t.characters <=> x \in s.characters)
                        /\ \/ x \in q.days <=> x \in t.days
                           \/ (x \in q.days <=> x \in r.days) /\ (x \in t.days <=> x \in s.days)
      BY DEF Members
    <3>1. CASE x = e.arg
      BY <2>4, <2>5, <3>1
    <3>2. CASE x # e.arg
      BY <2>4, <2>5, <3>2
    <3> QED
      BY <3>1, <3>2
  <2>8. Beaten
    BY <2>4, <2>5 DEF Beaten, BeatStep
  <2> QED
    BY <2>4, <2>5, <2>6, <2>7, <2>8
<1>7. CASE e.type = "ShootingDayUnscheduled"
  <2>1. e.arg \in Days
    BY <1>7 DEF LegalScene
  <2>2. t = [[s EXCEPT !.days = @ \ {e.arg}] EXCEPT !.version = e.version]
    BY <1>7 DEF S!Apply, S!CastEvents, S!ApplyRest
  <2>3. q = [[r EXCEPT !.days = @ \ {e.arg}] EXCEPT !.version = e.version]
    BY <1>7 DEF S!Project, S!ProjectLinks, S!IfPresent, S!Touch
  <2>4. t.details = s.details /\ t.characters = s.characters /\ t.days = s.days \ {e.arg}
          /\ t.beats = s.beats
    BY <1>1, <2>2 DEF S!States
  <2>5. q.present /\ q.version = e.version /\ q.details = r.details /\ q.characters = r.characters
          /\ q.days = r.days \ {e.arg} /\ q.beats = r.beats
    BY <2>3 DEF SceneRows
  <2>6. q \in SceneRows
    BY <1>1, <2>1, <2>3 DEF SceneRows
  <2>7. Members
    <3> SUFFICES ASSUME NEW x
                 PROVE  /\ \/ x \in q.characters <=> x \in t.characters
                           \/ (x \in q.characters <=> x \in r.characters)
                               /\ (x \in t.characters <=> x \in s.characters)
                        /\ \/ x \in q.days <=> x \in t.days
                           \/ (x \in q.days <=> x \in r.days) /\ (x \in t.days <=> x \in s.days)
      BY DEF Members
    <3>1. CASE x = e.arg
      BY <2>4, <2>5, <3>1
    <3>2. CASE x # e.arg
      BY <2>4, <2>5, <3>2
    <3> QED
      BY <3>1, <3>2
  <2>8. Beaten
    BY <2>4, <2>5 DEF Beaten, BeatStep
  <2> QED
    BY <2>4, <2>5, <2>6, <2>7, <2>8
<1>8. CASE e.type = "OutfitBeatAdded"
  <2>1. e.arg \in S!Beats /\ BeatAt(s.beats, e.arg.character, e.arg.order) = {}
    BY <1>8 DEF LegalScene
  <2>2. t = [[s EXCEPT !.beats = @ \cup {e.arg}] EXCEPT !.version = e.version]
    BY <1>8 DEF S!Apply, S!CastEvents, S!ApplyRest
  <2>3. q = IF r.version < e.version
          THEN [[r EXCEPT !.beats = {b \in r.beats : b.character # e.arg.character
                                      \/ b.order # e.arg.order} \cup {e.arg}]
                                          EXCEPT !.version = e.version] ELSE r
    BY <1>8, BeatsLeft DEF S!Project, S!ProjectBeats, S!IfNewer, S!Newer, S!Touch
  <2>4. t.details = s.details /\ t.characters = s.characters /\ t.days = s.days
          /\ t.beats = s.beats \cup {e.arg}
    BY <1>1, <2>2 DEF S!States
  <2>5. CASE ~(r.version < e.version)
    <3>1. q = r /\ r.version >= e.version
      BY <1>1, <2>3, <2>5 DEF SceneRows
    <3> QED
      BY <2>4, <3>1 DEF Members
  <2>6. CASE r.version < e.version
    <3>1. /\ q.present /\ q.version = e.version /\ q.details = r.details
             /\ q.characters = r.characters
          /\ q.days = r.days /\ q.beats = {b \in r.beats : b.character # e.arg.character
                                            \/ b.order # e.arg.order} \cup {e.arg}
      BY <2>3, <2>6 DEF SceneRows
    <3>2. q.beats \subseteq S!Beats
      BY <2>1, <3>1 DEF SceneRows
    <3>3. q \in SceneRows
      BY <1>1, <2>3, <2>6, <3>1, <3>2 DEF SceneRows
    <3>4. Members
      BY <2>4, <3>1 DEF Members
    <3>5. Beaten
      <4> SUFFICES ASSUME NEW k, NEW o
                   PROVE  BeatStep(k, o)
        BY DEF Beaten
      <4>1. BeatAt(t.beats, k, o) = IF k = e.arg.character /\ o = e.arg.order
              THEN {e.arg} ELSE BeatAt(s.beats, k, o)
        <5>1. CASE k = e.arg.character /\ o = e.arg.order
          BY <2>1, <2>4, <5>1 DEF BeatAt
        <5>2. CASE ~(k = e.arg.character /\ o = e.arg.order)
          BY <2>1, <2>4, <5>2 DEF BeatAt
        <5> QED
          BY <5>1, <5>2
      <4>2. BeatAt(q.beats, k, o) = IF k = e.arg.character /\ o = e.arg.order
              THEN {e.arg} ELSE BeatAt(r.beats, k, o)
        <5>1. CASE k = e.arg.character /\ o = e.arg.order
          BY <3>1, <5>1 DEF BeatAt
        <5>2. CASE ~(k = e.arg.character /\ o = e.arg.order)
          BY <3>1, <5>2 DEF BeatAt
        <5> QED
          BY <5>1, <5>2
      <4>3. CASE k = e.arg.character /\ o = e.arg.order
        BY <2>1, <4>1, <4>2, <4>3 DEF BeatStep
      <4>4. CASE ~(k = e.arg.character /\ o = e.arg.order)
        BY <4>1, <4>2, <4>4 DEF BeatStep
      <4> QED
        BY <4>3, <4>4
    <3> QED
      BY <2>4, <3>1, <3>3, <3>4, <3>5
  <2> QED
    BY <2>5, <2>6
<1>9. CASE e.type = "OutfitBeatUpdated"
  <2>1. e.arg \in S!Beats /\ BeatAt(s.beats, e.arg.character, e.arg.order) # {}
    BY <1>9 DEF LegalScene
  <2>2. t = [[s EXCEPT !.beats = {b \in @ : b.character # e.arg.character
                                   \/ b.order # e.arg.order} \cup {e.arg}]
                                       EXCEPT !.version = e.version]
    BY <1>9 DEF S!Apply, S!CastEvents, S!ApplyRest
  <2>3. q = IF r.version < e.version
          THEN [[r EXCEPT !.beats = {IF b.character = e.arg.character /\ b.order = e.arg.order
                                      THEN e.arg ELSE b : b \in r.beats}]
                                          EXCEPT !.version = e.version] ELSE r
    BY <1>9 DEF S!Project, S!ProjectBeats, S!IfNewer, S!Newer, S!Touch
  <2>4. t.details = s.details /\ t.characters = s.characters /\ t.days = s.days
          /\ t.beats = {b \in s.beats : b.character # e.arg.character \/ b.order # e.arg.order} \cup {e.arg}
    BY <1>1, <2>2 DEF S!States
  <2>5. CASE ~(r.version < e.version)
    <3>1. q = r /\ r.version >= e.version
      BY <1>1, <2>3, <2>5 DEF SceneRows
    <3> QED
      BY <2>4, <3>1 DEF Members
  <2>6. CASE r.version < e.version
    <3>1. /\ q.present /\ q.version = e.version /\ q.details = r.details
             /\ q.characters = r.characters
          /\ q.days = r.days /\ q.beats = {IF b.character = e.arg.character /\ b.order = e.arg.order
                                            THEN e.arg ELSE b : b \in r.beats}
      BY <2>3, <2>6 DEF SceneRows
    <3>2. q.beats \subseteq S!Beats
      BY <2>1, <3>1 DEF SceneRows
    <3>3. q \in SceneRows
      BY <1>1, <2>3, <2>6, <3>1, <3>2 DEF SceneRows
    <3>4. Members
      BY <2>4, <3>1 DEF Members
    <3>5. Beaten
      <4> SUFFICES ASSUME NEW k, NEW o
                   PROVE  BeatStep(k, o)
        BY DEF Beaten
      <4>1. BeatAt(t.beats, k, o) = IF k = e.arg.character /\ o = e.arg.order
              THEN {e.arg} ELSE BeatAt(s.beats, k, o)
        <5>1. CASE k = e.arg.character /\ o = e.arg.order
          BY <2>1, <2>4, <5>1 DEF BeatAt
        <5>2. CASE ~(k = e.arg.character /\ o = e.arg.order)
          BY <2>1, <2>4, <5>2 DEF BeatAt
        <5> QED
          BY <5>1, <5>2
      <4>2. BeatAt(q.beats, k, o) = IF k = e.arg.character /\ o = e.arg.order
              /\ BeatAt(r.beats, k, o) # {} THEN {e.arg} ELSE BeatAt(r.beats, k, o)
        <5>1. q.beats = Reset(r.beats, e.arg)
          BY <3>1, Zenon DEF Reset
        <5> QED
          BY <5>1, BeatsSet
      <4>3. CASE k = e.arg.character /\ o = e.arg.order
        BY <2>1, <4>1, <4>2, <4>3 DEF BeatStep
      <4>4. CASE ~(k = e.arg.character /\ o = e.arg.order)
        BY <4>1, <4>2, <4>4 DEF BeatStep
      <4> QED
        BY <4>3, <4>4
    <3> QED
      BY <2>4, <3>1, <3>3, <3>4, <3>5
  <2> QED
    BY <2>5, <2>6
<1>10. CASE e.type = "OutfitBeatRemoved"
  <2>1. e.arg \in S!Beats
    BY <1>10 DEF LegalScene
  <2>2. t = [[s EXCEPT !.beats = {b \in @ : b.character # e.arg.character \/ b.order # e.arg.order}]
              EXCEPT !.version = e.version]
    BY <1>10 DEF S!Apply, S!CastEvents, S!ApplyRest
  <2>3. q = IF r.version < e.version
          THEN [[r EXCEPT !.beats = {b \in r.beats : b.character # e.arg.character
                                      \/ b.order # e.arg.order}] EXCEPT !.version = e.version]
                                          ELSE r
    BY <1>10, BeatsLeft DEF S!Project, S!ProjectBeats, S!IfNewer, S!Newer, S!Touch
  <2>4. t.details = s.details /\ t.characters = s.characters /\ t.days = s.days
          /\ t.beats = {b \in s.beats : b.character # e.arg.character \/ b.order # e.arg.order}
    BY <1>1, <2>2 DEF S!States
  <2>5. CASE ~(r.version < e.version)
    <3>1. q = r /\ r.version >= e.version
      BY <1>1, <2>3, <2>5 DEF SceneRows
    <3> QED
      BY <2>4, <3>1 DEF Members
  <2>6. CASE r.version < e.version
    <3>1. /\ q.present /\ q.version = e.version /\ q.details = r.details
             /\ q.characters = r.characters
          /\ q.days = r.days /\ q.beats = {b \in r.beats : b.character # e.arg.character \/ b.order # e.arg.order}
      BY <2>3, <2>6 DEF SceneRows
    <3>2. q.beats \subseteq S!Beats
      BY <2>1, <3>1 DEF SceneRows
    <3>3. q \in SceneRows
      BY <1>1, <2>3, <2>6, <3>1, <3>2 DEF SceneRows
    <3>4. Members
      BY <2>4, <3>1 DEF Members
    <3>5. Beaten
      <4> SUFFICES ASSUME NEW k, NEW o
                   PROVE  BeatStep(k, o)
        BY DEF Beaten
      <4>1. BeatAt(t.beats, k, o) = IF k = e.arg.character /\ o = e.arg.order
              THEN {} ELSE BeatAt(s.beats, k, o)
        <5>1. CASE k = e.arg.character /\ o = e.arg.order
          BY <2>1, <2>4, <5>1 DEF BeatAt
        <5>2. CASE ~(k = e.arg.character /\ o = e.arg.order)
          BY <2>1, <2>4, <5>2 DEF BeatAt
        <5> QED
          BY <5>1, <5>2
      <4>2. BeatAt(q.beats, k, o) = IF k = e.arg.character /\ o = e.arg.order
              THEN {} ELSE BeatAt(r.beats, k, o)
        <5>1. CASE k = e.arg.character /\ o = e.arg.order
          BY <3>1, <5>1 DEF BeatAt
        <5>2. CASE ~(k = e.arg.character /\ o = e.arg.order)
          BY <3>1, <5>2 DEF BeatAt
        <5> QED
          BY <5>1, <5>2
      <4>3. CASE k = e.arg.character /\ o = e.arg.order
        BY <2>1, <4>1, <4>2, <4>3 DEF BeatStep
      <4>4. CASE ~(k = e.arg.character /\ o = e.arg.order)
        BY <4>1, <4>2, <4>4 DEF BeatStep
      <4> QED
        BY <4>3, <4>4
    <3> QED
      BY <2>4, <3>1, <3>3, <3>4, <3>5
  <2> QED
    BY <2>5, <2>6
<1>11. CASE e.type = "OutfitBeatsCleared"
  <2>1. e.arg \in Characters
    BY <1>11 DEF LegalScene
  <2>2. t = [[s EXCEPT !.beats = @ \ S!BeatsOf(s, e.arg)] EXCEPT !.version = e.version]
    BY <1>11 DEF S!Apply, S!CastEvents, S!ApplyRest
  <2>3. q = IF r.version < e.version THEN [[r EXCEPT !.beats = r.beats \ S!BeatsOf(r, e.arg)]
                                            EXCEPT !.version = e.version] ELSE r
    BY <1>11 DEF S!Project, S!ProjectBeats, S!IfNewer, S!Newer, S!Touch
  <2>4. t.details = s.details /\ t.characters = s.characters /\ t.days = s.days
          /\ t.beats = s.beats \ S!BeatsOf(s, e.arg)
    BY <1>1, <2>2 DEF S!States
  <2>5. CASE ~(r.version < e.version)
    <3>1. q = r /\ r.version >= e.version
      BY <1>1, <2>3, <2>5 DEF SceneRows
    <3> QED
      BY <2>4, <3>1 DEF Members
  <2>6. CASE r.version < e.version
    <3>1. /\ q.present /\ q.version = e.version /\ q.details = r.details
             /\ q.characters = r.characters
          /\ q.days = r.days /\ q.beats = r.beats \ S!BeatsOf(r, e.arg)
      BY <2>3, <2>6 DEF SceneRows
    <3>2. q.beats \subseteq S!Beats
      BY <2>1, <3>1 DEF SceneRows, S!BeatsOf
    <3>3. q \in SceneRows
      BY <1>1, <2>3, <2>6, <3>1, <3>2 DEF SceneRows
    <3>4. Members
      BY <2>4, <3>1 DEF Members
    <3>5. Beaten
      <4> SUFFICES ASSUME NEW k, NEW o
                   PROVE  BeatStep(k, o)
        BY DEF Beaten
      <4>1. BeatAt(t.beats, k, o) = IF k = e.arg THEN {} ELSE BeatAt(s.beats, k, o)
        BY <2>1, <2>4, BeatsTaken
      <4>2. BeatAt(q.beats, k, o) = IF k = e.arg THEN {} ELSE BeatAt(r.beats, k, o)
        BY <3>1, BeatsTaken
      <4>3. CASE k = e.arg
        BY <2>1, <4>1, <4>2, <4>3 DEF BeatStep
      <4>4. CASE ~(k = e.arg)
        BY <4>1, <4>2, <4>4 DEF BeatStep
      <4> QED
        BY <4>3, <4>4
    <3> QED
      BY <2>4, <3>1, <3>3, <3>4, <3>5
  <2> QED
    BY <2>5, <2>6
<1> QED
  BY <1>2, <1>3, <1>4, <1>5, <1>6, <1>7, <1>8, <1>9, <1>10, <1>11 DEF LegalScene

LEMMA SceneProjects ==
  ASSUME NEW s, NEW e, NEW r \in SceneRows, SoundScene(s), LegalScene(s, e)
  PROVE  S!Project(r, e) \in SceneRows /\ S!Project(r, e).version \in {r.version, e.version, 0}
<1>1. s.version \in Nat /\ e.version \in Nat
  BY DEF SoundScene, LegalScene, NextVersion, S!States
<1>2. CASE e.type = "SceneDeleted"
  BY <1>2 DEF S!Project, S!ProjectRow, S!NoRow, SceneRows
<1>3. CASE r.present /\ e.type # "SceneDeleted"
  BY <1>3, SceneChanges DEF SceneChanged
<1>4. CASE ~r.present /\ e.type = "SceneCreated"
  <2>1. S!Project(r, e) = [[r EXCEPT !.present = TRUE, !.details = e.arg]
                            EXCEPT !.version = e.version]
    BY <1>4 DEF S!Project, S!ProjectRow, S!Touch
  <2>2. e.arg \in Texts
    BY <1>4 DEF LegalScene
  <2> QED
    BY <1>1, <2>1, <2>2 DEF SceneRows
<1>5. CASE ~r.present /\ e.type \notin {"SceneDeleted", "SceneCreated"}
  <2>1. S!Project(r, e) = r
    <3>1. CASE e.type = "SceneDetailsUpdated"
      BY <1>5, <3>1 DEF S!Project, S!ProjectRow, S!IfPresent
    <3>2. CASE e.type \in {"CharacterAssigned", "CharacterRemoved",
                           "ShootingDayScheduled", "ShootingDayUnscheduled"}
      BY <1>5, <3>2 DEF S!Project, S!ProjectLinks, S!IfPresent
    <3>3. CASE e.type \notin {"SceneDetailsUpdated", "CharacterAssigned", "CharacterRemoved",
                              "ShootingDayScheduled", "ShootingDayUnscheduled"}
      BY <1>5, <3>3 DEF S!Project, S!ProjectBeats, S!IfNewer, S!Newer
    <3> QED
      BY <3>1, <3>2, <3>3
  <2> QED
    BY <2>1
<1> QED
  BY <1>2, <1>3, <1>4, <1>5 DEF SceneRows

LEMMA SceneBegins ==
  /\ SoundScene(S!Blank) /\ S!Blank.version = 0
  /\ S!NoRow \in SceneRows /\ S!NoRow.version = 0 /\ S!View(S!Blank) = S!NoRow
BY DEF SoundScene, SceneRows, CreatedOnce, S!States, S!Blank, S!NoRow, S!View

LEMMA SceneEnds ==
  ASSUME NEW s, NEW e, NEW r, SoundScene(s), LegalScene(s, e)
  PROVE  /\ ~s.deleted
         /\ S!Apply(s, e).deleted => /\ s # S!Blank /\ S!Project(r, e) = S!NoRow
                                     /\ e.type = "SceneDeleted"
         /\ e.type = "SceneDeleted" => S!Apply(s, e).deleted
<1>1. ~s.deleted /\ s \in S!States
  BY DEF SoundScene, LegalScene
<1>2. CASE e.type = "SceneDeleted"
  <2>1. s # S!Blank
    BY <1>2 DEF LegalScene, S!Blank
  <2>2. S!Project(r, e) = S!NoRow
    BY <1>2 DEF S!Project, S!ProjectRow
  <2>3. S!Apply(s, e) = [[s EXCEPT !.deleted = TRUE] EXCEPT !.version = e.version]
    BY <1>2 DEF S!Apply, S!CastEvents, S!ApplyCast
  <2>4. S!Apply(s, e).deleted
    BY <1>1, <2>3 DEF S!States
  <2> QED
    BY <1>1, <1>2, <2>1, <2>2, <2>4
<1>3. CASE e.type = "SceneCreated"
  <2>1. S!Apply(s, e) = [[s EXCEPT !.created = TRUE, !.details = e.arg, !.characters = {},
                           !.days = {}] EXCEPT !.version = e.version]
    BY <1>3 DEF S!Apply, S!CastEvents, S!ApplyCast
  <2> QED
    BY <1>1, <1>3, <2>1 DEF S!States
<1>4. CASE e.type = "SceneDetailsUpdated"
  <2>1. S!Apply(s, e) = [[s EXCEPT !.details = e.arg] EXCEPT !.version = e.version]
    BY <1>4 DEF S!Apply, S!CastEvents, S!ApplyCast
  <2> QED
    BY <1>1, <1>4, <2>1 DEF S!States
<1>5. CASE e.type = "CharacterAssigned"
  <2>1. S!Apply(s, e) = [[s EXCEPT !.characters = @ \cup {e.arg}] EXCEPT !.version = e.version]
    BY <1>5 DEF S!Apply, S!CastEvents, S!ApplyCast
  <2> QED
    BY <1>1, <1>5, <2>1 DEF S!States
<1>6. CASE e.type = "CharacterRemoved"
  <2>1. S!Apply(s, e) = [[s EXCEPT !.characters = @ \ {e.arg}] EXCEPT !.version = e.version]
    BY <1>6 DEF S!Apply, S!CastEvents, S!ApplyCast
  <2> QED
    BY <1>1, <1>6, <2>1 DEF S!States
<1>7. CASE e.type = "ShootingDayScheduled"
  <2>1. S!Apply(s, e) = [[s EXCEPT !.days = @ \cup {e.arg}] EXCEPT !.version = e.version]
    BY <1>7 DEF S!Apply, S!CastEvents, S!ApplyRest
  <2> QED
    BY <1>1, <1>7, <2>1 DEF S!States
<1>8. CASE e.type = "ShootingDayUnscheduled"
  <2>1. S!Apply(s, e) = [[s EXCEPT !.days = @ \ {e.arg}] EXCEPT !.version = e.version]
    BY <1>8 DEF S!Apply, S!CastEvents, S!ApplyRest
  <2> QED
    BY <1>1, <1>8, <2>1 DEF S!States
<1>9. CASE e.type = "OutfitBeatAdded"
  <2>1. S!Apply(s, e) = [[s EXCEPT !.beats = @ \cup {e.arg}] EXCEPT !.version = e.version]
    BY <1>9 DEF S!Apply, S!CastEvents, S!ApplyRest
  <2> QED
    BY <1>1, <1>9, <2>1 DEF S!States
<1>10. CASE e.type = "OutfitBeatUpdated"
  <2>1. S!Apply(s, e) = [[s EXCEPT !.beats = {b \in @ : b.character # e.arg.character
          \/ b.order # e.arg.order} \cup {e.arg}] EXCEPT !.version = e.version]
    BY <1>10 DEF S!Apply, S!CastEvents, S!ApplyRest
  <2> QED
    BY <1>1, <1>10, <2>1 DEF S!States
<1>11. CASE e.type = "OutfitBeatRemoved"
  <2>1. S!Apply(s, e) = [[s EXCEPT !.beats = {b \in @ : b.character # e.arg.character
                                               \/ b.order # e.arg.order}]
                                                   EXCEPT !.version = e.version]
    BY <1>11 DEF S!Apply, S!CastEvents, S!ApplyRest
  <2> QED
    BY <1>1, <1>11, <2>1 DEF S!States
<1>12. CASE e.type = "OutfitBeatsCleared"
  <2>1. S!Apply(s, e) = [[s EXCEPT !.beats = @ \ S!BeatsOf(s, e.arg)] EXCEPT !.version = e.version]
    BY <1>12 DEF S!Apply, S!CastEvents, S!ApplyRest
  <2> QED
    BY <1>1, <1>12, <2>1 DEF S!States
<1> QED
  BY <1>1, <1>2, <1>3, <1>4, <1>5, <1>6, <1>7, <1>8, <1>9, <1>10, <1>11, <1>12 DEF LegalScene

LEMMA SceneViews ==
  ASSUME NEW s, SoundScene(s)
  PROVE  /\ S!View(s).version \in {0, s.version}
         /\ s.deleted => S!View(s) = S!NoRow
BY DEF S!View, S!NoRow

LEMMA BeatsStep ==
  ASSUME NEW r, NEW q, NEW u, NEW c \in Nat, NEW n \in Nat, NEW m \in Nat,
         c <= n, n <= m, c + 1 <= m, r.version \in c..n, BeatsFollow(r, n, u),
         \/ r.version >= c + 1 /\ q = r
         \/ /\ q.version = c + 1
            /\ \A k, o : \/ BeatAt(q.beats, k, o) = BeatAt(u[c + 1].beats, k, o)
                         \/ /\ BeatAt(q.beats, k, o) = BeatAt(r.beats, k, o)
                            /\ \/ BeatAt(u[c + 1].beats, k, o) = BeatAt(u[c].beats, k, o)
                               \/ BeatAt(r.beats, k, o) # BeatAt(u[c].beats, k, o)
  PROVE  BeatsFollow(q, m, u)
<1> SUFFICES ASSUME NEW k \in Characters, NEW o \in Nat
             PROVE  \E i \in q.version..m : BeatAt(q.beats, k, o) = BeatAt(u[i].beats, k, o)
  BY DEF BeatsFollow
<1>1. PICK i \in r.version..n : BeatAt(r.beats, k, o) = BeatAt(u[i].beats, k, o)
  BY DEF BeatsFollow
<1>2. CASE r.version >= c + 1 /\ q = r
  <2>1. i \in q.version..m
    BY <1>2
  <2> QED
    BY <1>1, <1>2, <2>1
<1>3. CASE q.version = c + 1 /\ BeatAt(q.beats, k, o) = BeatAt(u[c + 1].beats, k, o)
  <2>1. c + 1 \in q.version..m
    BY <1>3
  <2> QED
    BY <1>3, <2>1
<1>4. CASE /\ q.version = c + 1 /\ BeatAt(q.beats, k, o) = BeatAt(r.beats, k, o)
           /\ \/ BeatAt(u[c + 1].beats, k, o) = BeatAt(u[c].beats, k, o)
              \/ BeatAt(r.beats, k, o) # BeatAt(u[c].beats, k, o)
  <2>1. CASE i = c
    <3>1. c + 1 \in q.version..m
      BY <1>4
    <3> QED
      BY <1>1, <1>4, <2>1, <3>1
  <2>2. CASE i # c
    <3>1. i \in q.version..m
      BY <1>4, <2>2
    <3> QED
      BY <1>1, <1>4, <3>1
  <2> QED
    BY <2>1, <2>2
<1> QED
  BY <1>2, <1>3, <1>4

LEMMA BeatsKept ==
  ASSUME NEW r, NEW u, NEW w, NEW n \in Nat, r.version \in Nat,
         BeatsFollow(r, n, u), \A i \in 0..n : w[i] = u[i]
  PROVE  BeatsFollow(r, n, w)
<1> SUFFICES ASSUME NEW k \in Characters, NEW o \in Nat
             PROVE  \E i \in r.version..n : BeatAt(r.beats, k, o) = BeatAt(w[i].beats, k, o)
  BY DEF BeatsFollow
<1>1. PICK i \in r.version..n : BeatAt(r.beats, k, o) = BeatAt(u[i].beats, k, o)
  BY DEF BeatsFollow
<1>2. i \in 0..n
  BY <1>1
<1> QED
  BY <1>1, <1>2

LEMMA SceneFollows ==
  ASSUME NEW e, NEW r \in SceneRows, NEW u, NEW c \in Nat, NEW n \in Nat \ {0}, NEW m \in Nat,
         c <= n, m = IF c + 1 > n THEN c + 1 ELSE n, \A i \in 0..m : u[i].version = i,
         SoundScene(u[c]), LegalScene(u[c], e), u[c + 1] = S!Apply(u[c], e), ~u[c + 1].deleted,
         AliveScene(r, c, n, u)
  PROVE  AliveScene(S!Project(r, e), c + 1, m, u)
<1> DEFINE q == S!Project(r, e)
           t == u[c + 1]
           s == u[c]
<1>1. r.present /\ r.version \in c..n
  <2>1. PICK k \in c..n : r.version = u[k].version
    BY DEF AliveScene, Follows
  <2>2. k \in 0..m
    BY <2>1
  <2> QED
    BY <2>1, <2>2 DEF AliveScene
<1>2. e.version = c + 1 /\ u[c].version = c
  BY DEF LegalScene, NextVersion
<1>3. e.type # "SceneDeleted"
  BY SceneEnds
<1>4. /\ q \in SceneRows /\ q.present
      /\ q.details = t.details \/ (q.details = r.details /\ t.details = s.details)
      /\ \A x : /\ \/ x \in q.characters <=> x \in t.characters
                   \/ (x \in q.characters <=> x \in r.characters)
                       /\ (x \in t.characters <=> x \in s.characters)
                /\ \/ x \in q.days <=> x \in t.days
                   \/ (x \in q.days <=> x \in r.days) /\ (x \in t.days <=> x \in s.days)
      /\ \/ r.version >= e.version /\ q = r
         \/ /\ q.version = e.version
            /\ \A k, o :
                 \/ BeatAt(q.beats, k, o) = BeatAt(t.beats, k, o)
                 \/ /\ BeatAt(q.beats, k, o) = BeatAt(r.beats, k, o)
                    /\ \/ BeatAt(t.beats, k, o) = BeatAt(s.beats, k, o)
                       \/ BeatAt(r.beats, k, o) # BeatAt(s.beats, k, o)
  <2>1. SceneChanged(r, q, s, t, e.version)
    BY <1>1, <1>3, SceneChanges
  <2> QED
    BY <2>1 DEF SceneChanged
<1>5. c <= n /\ n <= m /\ c + 1 <= m /\ m \in Nat
  OBVIOUS
<1> HIDE DEF q
<1>6. Follows({"version", "details"}, q, c + 1, m, u)
  <2>1. Follows({"details"}, r, c, n, u)
    BY DEF AliveScene, Follows
  <2>2. \A f \in {"details"} : q[f] = u[c + 1][f] \/ (q[f] = r[f] /\ u[c + 1][f] = u[c][f])
    BY <1>4
  <2>3. Follows({"details"}, q, c + 1, m, u)
    BY <1>5, <2>1, <2>2, FollowsStep
  <2>4. q.version \in (c + 1)..m
    BY <1>1, <1>2, <1>4, <1>5
  <2>5. u[q.version].version = q.version
    BY <2>4
  <2> QED
    BY <2>3, <2>4, <2>5 DEF Follows
<1>7. MembersFollow({"characters", "days"}, q, c + 1, m, u)
  <2>1. MembersFollow({"characters", "days"}, r, c, n, u)
    BY DEF AliveScene
  <2>2. \A f \in {"characters", "days"} : \A x :
          \/ x \in q[f] <=> x \in u[c + 1][f]
          \/ (x \in q[f] <=> x \in r[f]) /\ (x \in u[c + 1][f] <=> x \in u[c][f])
    BY <1>4
  <2> QED
    BY <1>5, <2>1, <2>2, MembersStep
<1>8. BeatsFollow(q, m, u)
  <2>1. BeatsFollow(r, n, u)
    BY DEF AliveScene
  <2>2. e.version = c + 1
    BY <1>2
  <2>3. \/ r.version >= c + 1 /\ q = r
        \/ /\ q.version = c + 1
           /\ \A k, o : \/ BeatAt(q.beats, k, o) = BeatAt(u[c + 1].beats, k, o)
                        \/ /\ BeatAt(q.beats, k, o) = BeatAt(r.beats, k, o)
                           /\ \/ BeatAt(u[c + 1].beats, k, o) = BeatAt(u[c].beats, k, o)
                              \/ BeatAt(r.beats, k, o) # BeatAt(u[c].beats, k, o)
    BY <1>4, <2>2, Zenon
  <2>4. r.version \in c..n
    BY <1>1
  <2> HIDE DEF t, s
  <2> QED
    BY <1>5, <2>1, <2>3, <2>4, BeatsStep
<1> QED
  BY <1>4, <1>6, <1>7, <1>8 DEF AliveScene, q

LEMMA SceneStarts ==
  ASSUME NEW e, NEW u, LegalScene(S!Blank, e), u[1] = S!Apply(S!Blank, e)
  PROVE  AliveScene(S!Project(S!NoRow, e), 1, 1, u)
<1> DEFINE q == S!Project(S!NoRow, e)
<1>1. e.type = "SceneCreated" /\ e.version = 1 /\ e.arg \in Texts
  BY DEF LegalScene, NextVersion, S!Blank
<1>2. q = [[S!NoRow EXCEPT !.present = TRUE, !.details = e.arg] EXCEPT !.version = e.version]
  BY <1>1 DEF S!Project, S!ProjectRow, S!Touch
<1>3. u[1] = [[S!Blank EXCEPT !.created = TRUE, !.details = e.arg, !.characters = {}, !.days = {}]
               EXCEPT !.version = e.version]
  BY <1>1 DEF S!Apply, S!CastEvents, S!ApplyCast
<1> HIDE DEF q
<1>4. q.present /\ q.version = 1 /\ q.details = e.arg /\ q.characters = {} /\ q.days = {}
        /\ q.beats = {}
  BY <1>1, <1>2 DEF S!NoRow
<1>5. u[1].version = 1 /\ u[1].details = e.arg /\ u[1].characters = {} /\ u[1].days = {}
        /\ u[1].beats = {}
  BY <1>1, <1>3 DEF S!Blank
<1>6. Follows({"version", "details"}, q, 1, 1, u)
        /\ MembersFollow({"characters", "days"}, q, 1, 1, u)
  BY <1>4, <1>5, FollowsAt
<1>7. BeatsFollow(q, 1, u)
  <2>1. 1 \in q.version..1 /\ q.beats = u[1].beats
    BY <1>4, <1>5
  <2> QED
    BY <2>1, Zenon DEF BeatsFollow
<1> QED
  BY <1>4, <1>6, <1>7 DEF AliveScene, q

LEMMA SceneCaught ==
  ASSUME NEW r \in SceneRows, NEW u, NEW n \in Nat, SoundScene(u[n]), u[n].version = n, n > 0,
         ~u[n].deleted,
         AliveScene(r, n, n, u)
  PROVE  r = S!View(u[n])
<1> DEFINE s == u[n]
<1>1. r.present /\ r.version = s.version /\ r.details = s.details
  BY FollowsAt DEF AliveScene
<1>2. r.characters = s.characters /\ r.days = s.days
  <2>1. \A x : (x \in r.characters <=> x \in s.characters) /\ (x \in r.days <=> x \in s.days)
    BY FollowsAt DEF AliveScene
  <2> QED
    BY <2>1 DEF SceneRows, SoundScene, S!States
<1>3. r.beats = s.beats
  <2>1. r.beats \subseteq S!Beats /\ s.beats \subseteq S!Beats
    BY DEF SceneRows, SoundScene, S!States
  <2>2. \A k \in Characters, o \in Nat : BeatAt(r.beats, k, o) = BeatAt(s.beats, k, o)
    <3> TAKE k \in Characters, o \in Nat
    <3>1. PICK i \in r.version..n : BeatAt(r.beats, k, o) = BeatAt(u[i].beats, k, o)
      BY DEF AliveScene, BeatsFollow
    <3>2. i = n
      BY <1>1
    <3> QED
      BY <3>1, <3>2
  <2>3. \A b \in S!Beats : /\ b.character \in Characters /\ b.order \in Nat
                           /\ b \in r.beats <=> b \in BeatAt(r.beats, b.character, b.order)
                           /\ b \in s.beats <=> b \in BeatAt(s.beats, b.character, b.order)
    BY DEF S!Beats, BeatAt
  <2>4. \A b \in S!Beats : b \in r.beats <=> b \in s.beats
    BY <2>2, <2>3
  <2> QED
    BY <2>1, <2>4
<1>4. s.created
  BY DEF SoundScene, CreatedOnce
<1>5. r = [present |-> TRUE, version |-> s.version, details |-> s.details,
           characters |-> s.characters, days |-> s.days, beats |-> s.beats]
  BY <1>1, <1>2, <1>3 DEF SceneRows
<1> QED
  BY <1>4, <1>5 DEF S!View

-----------------------------------------------------------------------------
(* Members *)

LEMMA MemberFacts ==
  /\ M!Absent \in M!Members /\ M!Absent.state = "absent" /\ M!Absent.role = "none"
  /\ \A m \in M!Members :
       /\ m.state \in {"absent", "pending", "active"} /\ m.role \in Roles \cup {"none"}
       /\ m = [state |-> m.state, role |-> m.role]
       /\ m # M!Absent <=> m.state # "absent"
       /\ m # M!Absent <=> m.role \in Roles
  /\ \A w \in {"pending", "active"}, q \in Roles : [state |-> w, role |-> q] \in M!Members
BY CatalogueConstants DEF M!Members, M!Absent

LEMMA MembershipApplies ==
  ASSUME NEW s \in M!States, NEW e, LegalMembership(s, e)
  PROVE  M!Apply(s, e) \in M!States
<1>1. e.arg.user \in Users /\ s[e.arg.user] \in M!Members
  BY DEF LegalMembership, M!States
<1>2. CASE e.type \in {"MemberInvited", "OwnerBootstrapped"} /\ e.arg.role \in Roles
  BY <1>1, <1>2, MemberFacts DEF M!Apply, M!States
<1>3. CASE e.type = "InvitationAccepted" /\ s[e.arg.user].state = "pending"
        /\ e.arg.role = s[e.arg.user].role
  BY <1>1, <1>3, MemberFacts DEF M!Apply, M!States
<1>4. CASE e.type = "RoleGranted" /\ s[e.arg.user].state = "active" /\ e.arg.role \in Roles
  <2>1. [s[e.arg.user] EXCEPT !.role = e.arg.role] = [state |-> "active", role |-> e.arg.role]
    BY <1>1, <1>4, MemberFacts
  <2>2. M!Apply(s, e) = [s EXCEPT ![e.arg.user] = [state |-> "active", role |-> e.arg.role]]
    BY <1>4, <2>1 DEF M!Apply
  <2> QED
    BY <1>1, <1>4, <2>2, MemberFacts DEF M!States
<1>5. CASE e.type = "MemberRemoved"
  BY <1>1, <1>5, MemberFacts DEF M!Apply, M!States
<1> QED
  BY <1>2, <1>3, <1>4, <1>5 DEF LegalMembership

LEMMA MembershipHandles ==
  ASSUME NEW s \in M!States, NEW r, NEW v, NEW c \in M!Requests(r, v) \cup M!Deletions
  PROVE  /\ \/ M!Handle(s, c).events = << >>
            \/ \E e : M!Handle(s, c).events = <<e>> /\ LegalMembership(s, e)
         /\ M!Expected(c, 0)
<1>1. M!Expected(c, 0)
  BY DEF M!Expected, M!ExpectAny
<1> DEFINE shape == c.arg = [user |-> c.arg.user, role |-> c.arg.role, by |-> c.arg.by]
<1>2. \/ c.type \in {"InviteMember", "GrantRole"} /\ c.arg.user \in Users /\ c.arg.role \in Roles
      \/ c.type \in {"AcceptInvitation", "RemoveMember"} /\ c.arg.user \in Users /\ shape
      \/ c.type = "LeaveBlock" /\ c.arg.user \in Users /\ c.arg.by = c.arg.user
      \/ c.type = "BootstrapOwner" /\ c.arg.user \in Users /\ c.arg.role \in Roles
  <2>1. CASE c \in M!InviteRequests(r) \cup M!GrantRequests(r)
    BY <2>1 DEF M!InviteRequests, M!GrantRequests, M!Send, M!Cmd
  <2>2. CASE c \in M!AcceptRequests \cup M!RemoveRequests(r)
    BY <2>2 DEF M!AcceptRequests, M!RemoveRequests, M!Send, M!Cmd
  <2>3. CASE c \in M!LeaveRequests(r)
    BY <2>3 DEF M!LeaveRequests, M!Callers, M!Send, M!Cmd
  <2>4. CASE c \in M!BootstrapRequests
    BY <2>4, CatalogueConstants DEF M!BootstrapRequests, M!Send, M!Cmd
  <2> QED
    BY <2>1, <2>2, <2>3, <2>4 DEF M!Requests, M!Deletions
<1> DEFINE Emits(d) == d.events = << >> \/ \E e : d.events = <<e>> /\ LegalMembership(s, e)
<1>3. /\ Emits(M!Reject)
      /\ \A type, arg : LegalMembership(s, M!Event(type, arg, 0)) => Emits(M!One(type, arg))
  BY DEF M!Reject, M!One, M!Accept
<1> HIDE DEF Emits
<1>4. c.type = "InviteMember" => Emits(M!Handle(s, c))
  <2> HAVE c.type = "InviteMember"
  <2>1. s[c.arg.user] = M!Absent => LegalMembership(s, M!Event("MemberInvited", c.arg, 0))
    BY <1>2 DEF LegalMembership, M!Event
  <2>2. M!Handle(s, c) = IF s[c.arg.user] = M!Absent THEN M!One("MemberInvited", c.arg)
          ELSE M!Reject
    BY DEF M!Handle, M!Given, M!InviteMember
  <2> QED
    BY <1>3, <2>1, <2>2
<1>5. c.type = "AcceptInvitation" => Emits(M!Handle(s, c))
  <2> HAVE c.type = "AcceptInvitation"
  <2> DEFINE a == [c.arg EXCEPT !.role = s[c.arg.user].role]
  <2>1. a.user = c.arg.user /\ a.role = s[c.arg.user].role
    BY <1>2
  <2>2. s[c.arg.user].state = "pending" => LegalMembership(s, M!Event("InvitationAccepted", a, 0))
    BY <1>2, <2>1 DEF LegalMembership, M!Event
  <2>3. M!Handle(s, c) = IF s[c.arg.user].state = "pending" THEN M!One("InvitationAccepted", a)
          ELSE M!Reject
    BY DEF M!Handle, M!Given, M!AcceptInvitation
  <2> HIDE DEF a
  <2> QED
    BY <1>3, <2>2, <2>3
<1>6. c.type = "GrantRole" => Emits(M!Handle(s, c))
  <2> HAVE c.type = "GrantRole"
  <2>1. s[c.arg.user].state = "active" => LegalMembership(s, M!Event("RoleGranted", c.arg, 0))
    BY <1>2 DEF LegalMembership, M!Event
  <2>2. M!Handle(s, c) = IF s[c.arg.user].state = "active" THEN M!One("RoleGranted", c.arg)
          ELSE M!Reject
    BY DEF M!Handle, M!Given, M!GrantRole
  <2> QED
    BY <1>3, <2>1, <2>2
<1>7. c.type = "RemoveMember" => Emits(M!Handle(s, c))
  <2> HAVE c.type = "RemoveMember"
  <2>1. s[c.arg.user].state = "active" => LegalMembership(s, M!Event("MemberRemoved", c.arg, 0))
    BY <1>2 DEF LegalMembership, M!Event
  <2>2. M!Handle(s, c) = IF s[c.arg.user].state = "active" THEN M!One("MemberRemoved", c.arg)
          ELSE M!Reject
    BY DEF M!Handle, M!Given, M!RemoveMember
  <2> QED
    BY <1>3, <2>1, <2>2
<1>8. c.type = "LeaveBlock" => Emits(M!Handle(s, c))
  <2> HAVE c.type = "LeaveBlock"
  <2>1. s[c.arg.by].state = "active" => LegalMembership(s, M!Event("MemberRemoved", c.arg, 0))
    BY <1>2 DEF LegalMembership, M!Event
  <2>2. M!Handle(s, c) = IF s[c.arg.by].state = "active" THEN M!One("MemberRemoved", c.arg)
          ELSE M!Reject
    BY DEF M!Handle, M!Given, M!LeaveBlock
  <2> QED
    BY <1>3, <2>1, <2>2
<1>9. c.type = "BootstrapOwner" => Emits(M!Handle(s, c))
  <2> HAVE c.type = "BootstrapOwner"
  <2>1. (\A u \in Users : s[u] = M!Absent)
          => LegalMembership(s, M!Event("OwnerBootstrapped", c.arg, 0))
    BY <1>2 DEF LegalMembership, M!Event
  <2>2. M!Handle(s, c) = IF \A u \in Users : s[u] = M!Absent THEN M!One("OwnerBootstrapped", c.arg)
          ELSE M!Reject
    BY DEF M!Handle, M!Given, M!BootstrapOwner
  <2> QED
    BY <1>3, <2>1, <2>2
<1> QED
  BY <1>1, <1>2, <1>4, <1>5, <1>6, <1>7, <1>8, <1>9 DEF Emits

LEMMA MembershipProjects ==
  ASSUME NEW s \in M!States, NEW e, NEW r \in M!States, LegalMembership(s, e)
  PROVE  /\ M!Project(r, e) \in M!States
         /\ \A x \in Users : \A g \in {"state", "role"} :
              \/ M!Project(r, e)[x][g] = M!Apply(s, e)[x][g]
              \/ /\ M!Project(r, e)[x][g] = r[x][g]
                 /\ M!Apply(s, e)[x][g] = s[x][g] \/ r[x][g] # s[x][g]
<1> DEFINE u == e.arg.user
           q == M!Project(r, e)
           t == M!Apply(s, e)
           Agree(x) == \A g \in {"state", "role"} :
                         \/ q[x][g] = t[x][g]
                         \/ q[x][g] = r[x][g] /\ (t[x][g] = s[x][g] \/ r[x][g] # s[x][g])
<1> SUFFICES q \in M!States /\ \A x \in Users : Agree(x)
  OBVIOUS
<1>1. u \in Users /\ s[u] \in M!Members /\ r[u] \in M!Members
  BY DEF LegalMembership, M!States
<1>2. ASSUME NEW a \in M!Members, NEW b \in M!Members, q = [r EXCEPT ![u] = a],
        t = [s EXCEPT ![u] = b],
             \A g \in {"state", "role"} :
               a[g] = b[g] \/ (a[g] = r[u][g] /\ (b[g] = s[u][g] \/ r[u][g] # s[u][g]))
      PROVE  q \in M!States /\ \A x \in Users : Agree(x)
  <2> HIDE DEF q, t, u
  <2>1. q \in M!States
    BY <1>1, <1>2 DEF M!States
  <2>2. q[u] = a /\ t[u] = b
    BY <1>1, <1>2 DEF M!States
  <2>3. \A x \in Users : x # u => q[x] = r[x] /\ t[x] = s[x]
    BY <1>1, <1>2 DEF M!States
  <2> QED
    BY <1>2, <2>1, <2>2, <2>3
<1>3. [r EXCEPT ![u] = r[u]] = r /\ [s EXCEPT ![u] = s[u]] = s
  BY <1>1 DEF M!States
<1>4. CASE e.type \in {"MemberInvited", "OwnerBootstrapped"} /\ e.arg.role \in Roles
  <2> DEFINE a == [state |-> IF e.type = "MemberInvited" THEN "pending" ELSE "active",
                    role |-> e.arg.role]
  <2>1. a \in M!Members
    BY <1>4, MemberFacts
  <2>2. q = [r EXCEPT ![u] = a] /\ t = [s EXCEPT ![u] = a]
    BY <1>4 DEF M!Project, M!Apply
  <2> QED
    BY <1>2, <2>1, <2>2
<1>5. CASE e.type = "InvitationAccepted" /\ s[u].state = "pending" /\ e.arg.role = s[u].role
  <2> DEFINE a == [state |-> "active", role |-> e.arg.role]
  <2>1. a \in M!Members /\ s[u].role \in Roles
    BY <1>1, <1>5, MemberFacts
  <2>2. t = [s EXCEPT ![u] = a]
    BY <1>5 DEF M!Apply
  <2>3. CASE r[u] = M!Absent
    <3>1. q = [r EXCEPT ![u] = r[u]]
      BY <1>3, <1>5, <2>3 DEF M!Project
    <3>2. r[u].state # s[u].state /\ r[u].role # s[u].role
      BY <1>5, <2>1, <2>3, MemberFacts, CatalogueConstants
    <3>3. \A g \in {"state", "role"} :
            r[u][g] = a[g] \/ (r[u][g] = r[u][g] /\ (a[g] = s[u][g] \/ r[u][g] # s[u][g]))
      BY <3>2
    <3> HIDE DEF q, t, u, a, Agree
    <3> QED
      BY <1>1, <1>2, <2>1, <2>2, <3>1, <3>3
  <2>4. CASE r[u] # M!Absent
    <3>1. q = [r EXCEPT ![u] = a]
      BY <1>5, <2>4 DEF M!Project
    <3> QED
      BY <1>2, <2>1, <2>2, <3>1
  <2> QED
    BY <2>3, <2>4
<1>6. CASE e.type = "RoleGranted" /\ s[u].state = "active" /\ e.arg.role \in Roles
  <2> DEFINE b == [state |-> "active", role |-> e.arg.role]
  <2>1. b \in M!Members /\ s[u].role \in Roles
    BY <1>1, <1>6, MemberFacts
  <2>2. [s[u] EXCEPT !.role = e.arg.role] = b
    BY <1>1, <1>6, MemberFacts
  <2>3. t = [s EXCEPT ![u] = b]
    BY <1>6, <2>2 DEF M!Apply
  <2>4. CASE r[u] = M!Absent
    <3>1. q = [r EXCEPT ![u] = r[u]]
      BY <1>3, <1>6, <2>4 DEF M!Project
    <3>2. r[u].state # s[u].state /\ r[u].role # s[u].role
      BY <1>6, <2>1, <2>4, MemberFacts, CatalogueConstants
    <3>3. \A g \in {"state", "role"} :
            r[u][g] = b[g] \/ (r[u][g] = r[u][g] /\ (b[g] = s[u][g] \/ r[u][g] # s[u][g]))
      BY <3>2
    <3> HIDE DEF q, t, u, b, Agree
    <3> QED
      BY <1>1, <1>2, <2>1, <2>3, <3>1, <3>3
  <2>5. CASE r[u] # M!Absent
    <3> DEFINE a == [state |-> r[u].state, role |-> e.arg.role]
    <3>1. [r[u] EXCEPT !.role = e.arg.role] = a
      BY <1>1, MemberFacts
    <3>2. a \in M!Members
      BY <1>1, <1>6, <2>5, MemberFacts
    <3>3. q = [r EXCEPT ![u] = a]
      BY <1>6, <2>5, <3>1 DEF M!Project
    <3>4. a.state = r[u].state /\ b.state = s[u].state /\ a.role = b.role
      BY <1>6
    <3>5. \A g \in {"state", "role"} :
            a[g] = b[g] \/ (a[g] = r[u][g] /\ (b[g] = s[u][g] \/ r[u][g] # s[u][g]))
      BY <3>4
    <3> HIDE DEF q, t, u, a, b, Agree
    <3> QED
      BY <1>2, <2>1, <2>3, <3>2, <3>3, <3>5
  <2> QED
    BY <2>4, <2>5
<1>7. CASE e.type = "MemberRemoved"
  <2>1. q = [r EXCEPT ![u] = M!Absent] /\ t = [s EXCEPT ![u] = M!Absent]
    BY <1>7 DEF M!Project, M!Apply
  <2> QED
    BY <1>2, <2>1, MemberFacts
<1> QED
  BY <1>4, <1>5, <1>6, <1>7 DEF LegalMembership

LEMMA MembershipFollows ==
  ASSUME NEW e, NEW r \in M!States, NEW u, NEW c \in Nat, NEW n \in Nat, NEW m \in Nat,
         c <= n, n <= m, c + 1 <= m, u[c] \in M!States, LegalMembership(u[c], e),
         u[c + 1] = M!Apply(u[c], e), AliveMembership(r, c, n, u)
  PROVE  AliveMembership(M!Project(r, e), c + 1, m, u)
<1> DEFINE q == M!Project(r, e)
<1>1. ASSUME NEW x \in Users, NEW g \in {"state", "role"}, NEW k \in c..n, r[x][g] = u[k][x][g]
      PROVE  \E j \in (c + 1)..m : q[x][g] = u[j][x][g]
  <2>1. \/ q[x][g] = u[c + 1][x][g]
        \/ q[x][g] = r[x][g] /\ (u[c + 1][x][g] = u[c][x][g] \/ r[x][g] # u[c][x][g])
    BY MembershipProjects
  <2> HIDE DEF q
  <2>2. CASE q[x][g] = u[c + 1][x][g]
    BY <2>2
  <2>3. CASE q[x][g] = r[x][g] /\ k # c
    <3>1. k \in (c + 1)..m
      BY <2>3
    <3> QED
      BY <1>1, <2>3, <3>1
  <2>4. CASE q[x][g] = r[x][g] /\ k = c
    BY <1>1, <2>1, <2>4
  <2> QED
    BY <2>1, <2>2, <2>3, <2>4
<1> HIDE DEF q
<1>2. ASSUME NEW x \in Users
      PROVE  /\ \E k \in (c + 1)..m : q[x].state = u[k][x].state
             /\ \E k \in (c + 1)..m : q[x].role = u[k][x].role
  <2>1. PICK k \in c..n : r[x].state = u[k][x].state
    BY DEF AliveMembership
  <2>2. PICK j \in c..n : r[x].role = u[j][x].role
    BY DEF AliveMembership
  <2>3. \E i \in (c + 1)..m : q[x]["state"] = u[i][x]["state"]
    BY <1>1, <2>1
  <2>4. \E i \in (c + 1)..m : q[x]["role"] = u[i][x]["role"]
    BY <1>1, <2>2
  <2> QED
    BY <2>3, <2>4
<1> QED
  BY <1>2 DEF AliveMembership, q

LEMMA MembershipCaught ==
  ASSUME NEW r \in M!States, NEW u, NEW n \in Nat, u[n] \in M!States
  PROVE  AliveMembership(r, n, n, u) <=> r = u[n]
<1>1. \A k \in n..n : k = n
  OBVIOUS
<1>2. n \in n..n
  OBVIOUS
<1>3. AliveMembership(r, n, n, u) <=>
        \A x \in Users : r[x].state = u[n][x].state /\ r[x].role = u[n][x].role
  BY <1>1, <1>2, Zenon DEF AliveMembership
<1>4. \A x \in Users : r[x] = u[n][x] <=> r[x].state = u[n][x].state /\ r[x].role = u[n][x].role
  <2> TAKE x \in Users
  <2>1. /\ r[x] = [state |-> r[x].state, role |-> r[x].role]
        /\ u[n][x] = [state |-> u[n][x].state, role |-> u[n][x].role]
    BY MemberFacts DEF M!States
  <2> QED
    BY <2>1
<1>5. r = u[n] <=> \A x \in Users : r[x] = u[n][x]
  BY DEF M!States
<1> QED
  BY <1>3, <1>4, <1>5

LEMMA MembershipStarts ==
  ASSUME NEW e, NEW u, LegalMembership(M!Blank, e), u[1] = M!Apply(M!Blank, e)
  PROVE  AliveMembership(M!Project(M!NoRow, e), 1, 1, u)
<1>1. M!Blank \in M!States /\ M!NoRow = M!Blank
  BY MemberFacts DEF M!States, M!Blank, M!NoRow
<1>2. \A x \in Users : M!Blank[x].state = "absent" /\ M!Blank[x] = M!Absent
  BY MemberFacts DEF M!Blank
<1>3. e.type \in {"MemberInvited", "OwnerBootstrapped"}
  BY <1>2 DEF LegalMembership
<1>4. M!Project(M!NoRow, e) = u[1]
  BY <1>1, <1>3 DEF M!Project, M!Apply
<1>5. u[1] \in M!States
  BY <1>1, MembershipApplies
<1> QED
  BY <1>4, <1>5, MembershipCaught

LEMMA MembershipKept ==
  ASSUME NEW r, NEW u, NEW w, NEW c \in Nat, NEW d \in 0..c, NEW n \in Nat,
         AliveMembership(r, c, n, u), \A i \in 0..n : w[i] = u[i]
  PROVE  AliveMembership(r, d, n, w)
<1> SUFFICES ASSUME NEW x \in Users
             PROVE  /\ \E k \in d..n : r[x].state = w[k][x].state
                    /\ \E k \in d..n : r[x].role = w[k][x].role
  BY DEF AliveMembership
<1>1. PICK k \in c..n : r[x].state = u[k][x].state
  BY DEF AliveMembership
<1>2. PICK j \in c..n : r[x].role = u[j][x].role
  BY DEF AliveMembership
<1>3. k \in d..n /\ k \in 0..n /\ j \in d..n /\ j \in 0..n
  OBVIOUS
<1> QED
  BY <1>1, <1>2, <1>3

LEMMA MembershipBegins ==
  M!Blank \in M!States /\ M!NoRow \in M!States /\ M!View(M!Blank) = M!NoRow
BY MemberFacts DEF M!States, M!Blank, M!NoRow, M!View

-----------------------------------------------------------------------------
(* Any kind, by dispatch. *)

(* An event takes a sound state to a sound one, and nothing happens after a deletion. *)
LEMMA KindApplies ==
  ASSUME NEW k \in AllKinds, NEW s, NEW e, Sound(k, s), Legal(k, s, e)
  PROVE  /\ Sound(k, Apply(k, s, e)) /\ ~Gone(k, s)
         /\ Versioned(k) => e.version = s.version + 1 /\ Apply(k, s, e).version = s.version + 1
<1>1. CASE k = "scene"
  BY <1>1, SceneApplies DEF Sound, Legal, Apply, Gone, Deletable, Versioned, LegalScene, NextVersion
<1>2. CASE k = "piece"
  BY <1>2, PieceApplies DEF Sound, Legal, Apply, Gone, Deletable, Versioned, LegalPiece, NextVersion
<1>3. CASE k = "outfit"
  BY <1>3, OutfitApplies DEF Sound, Legal, Apply, Gone, Deletable, Versioned, LegalOutfit,
     NextVersion
<1>4. CASE k = "character"
  BY <1>4, CharacterApplies DEF Sound, Legal, Apply, Gone, Deletable, Versioned, LegalCharacter,
     NextVersion
<1>5. CASE k = "season"
  BY <1>5, SeasonApplies DEF Sound, Legal, Apply, Gone, Deletable, Versioned, LegalSeason,
     NextVersion
<1>6. CASE k = "episode"
  BY <1>6, EpisodeApplies DEF Sound, Legal, Apply, Gone, Deletable, Versioned, LegalEpisode,
     NextVersion
<1>7. CASE k = "block"
  BY <1>7, BlockApplies DEF Sound, Legal, Apply, Gone, Deletable, Versioned, LegalBlock, NextVersion
<1>8. CASE k = "category"
  BY <1>8, CategoryApplies DEF Sound, Legal, Apply, Gone, Deletable, Versioned, LegalCategory,
     NextVersion
<1>9. CASE k = "settings"
  BY <1>9, SettingsApplies DEF Sound, Legal, Apply, Gone, Deletable, Versioned, LegalSettings,
     NextVersion
<1>10. CASE k = "ai_config"
  BY <1>10, AiConfigApplies DEF Sound, Legal, Apply, Gone, Deletable, Versioned, LegalAiConfig,
     NextVersion
<1>11. CASE k = "membership"
  BY <1>11, MembershipApplies DEF Sound, Legal, Apply, Gone, Deletable, Versioned
<1>12. CASE k = "day"
  BY <1>12, DayApplies DEF Sound, Legal, Apply, Gone, Deletable, Versioned, LegalDay, NextVersion
<1>13. CASE k = "shoot"
  BY <1>13, ShootApplies DEF Sound, Legal, Apply, Gone, Deletable, Versioned, LegalShoot,
     NextVersion
<1> QED
  BY <1>1, <1>2, <1>3, <1>4, <1>5, <1>6, <1>7, <1>8, <1>9, <1>10, <1>11, <1>12, <1>13 DEF AllKinds

(* A command emits nothing, one legal event or two; it asks for no version or for its sender's. *)
LEMMA KindHandles ==
  ASSUME NEW k \in AllKinds, NEW s, NEW n \in Nat, NEW r, NEW v \in Nat,
         NEW c \in Requests(k, r, v) \cup Deletions(k),
         Sound(k, s), Versioned(k) => s.version = n, Expected(k, c, n)
  PROVE  Emitted(k, s, Handle(k, s, c).events) /\ (Expected(k, c, 0) \/ v = n)
<1>1. CASE k = "scene"
  <2>1. c \in S!Requests(r, v) \cup S!Deletions
    BY <1>1 DEF Requests, Deletions
  <2>2. SoundScene(s) /\ s.version = n /\ S!Expected(c, s.version)
    BY <1>1 DEF Sound, Versioned, Expected
  <2>3. /\ \/ S!Handle(s, c).events = << >>
           \/ \E e : S!Handle(s, c).events = <<e>> /\ LegalScene(s, e)
           \/ \E e, f : /\ S!Handle(s, c).events = <<e, f>>
                       /\ LegalScene(s, e) /\ LegalScene(S!Apply(s, e), f)
        /\ S!Expected(c, 0) \/ v = n
    BY <2>1, <2>2, SceneHandles
  <2> QED
    BY <1>1, <2>3 DEF Emitted, Handle, Legal, Apply, Expected
<1>2. CASE k = "piece"
  <2>1. c \in P!Requests(r, v) \cup P!Deletions
    BY <1>2 DEF Requests, Deletions
  <2>2. SoundPiece(s) /\ s.version = n /\ P!Expected(c, s.version)
    BY <1>2 DEF Sound, Versioned, Expected
  <2>3. /\ \/ P!Handle(s, c).events = << >>
           \/ \E e : P!Handle(s, c).events = <<e>> /\ LegalPiece(s, e)
        /\ P!Expected(c, 0) \/ v = n
    BY <2>1, <2>2, PieceHandles
  <2> QED
    BY <1>2, <2>3 DEF Emitted, Handle, Legal, Expected
<1>3. CASE k = "outfit"
  <2>1. c \in O!Requests(r, v) \cup O!Deletions
    BY <1>3 DEF Requests, Deletions
  <2>2. SoundOutfit(s) /\ s.version = n /\ O!Expected(c, s.version)
    BY <1>3 DEF Sound, Versioned, Expected
  <2>3. /\ \/ O!Handle(s, c).events = << >>
           \/ \E e : O!Handle(s, c).events = <<e>> /\ LegalOutfit(s, e)
        /\ O!Expected(c, 0) \/ v = n
    BY <2>1, <2>2, OutfitHandles
  <2> QED
    BY <1>3, <2>3 DEF Emitted, Handle, Legal, Expected
<1>4. CASE k = "character"
  <2>1. c \in C!Requests(r, v) \cup C!Deletions
    BY <1>4 DEF Requests, Deletions
  <2>2. SoundCharacter(s) /\ s.version = n /\ C!Expected(c, s.version)
    BY <1>4 DEF Sound, Versioned, Expected
  <2>3. /\ \/ C!Handle(s, c).events = << >>
           \/ \E e : C!Handle(s, c).events = <<e>> /\ LegalCharacter(s, e)
        /\ C!Expected(c, 0) \/ v = n
    BY <2>1, <2>2, CharacterHandles
  <2> QED
    BY <1>4, <2>3 DEF Emitted, Handle, Legal, Expected
<1>5. CASE k = "season"
  BY <1>5, SeasonHandles DEF Emitted, Sound, Legal, Handle, Expected, Requests, Deletions,
     Versioned, Z!Deletions
<1>6. CASE k = "episode"
  <2>1. c \in E!Requests(r, v) \cup E!Deletions
    BY <1>6 DEF Requests, Deletions
  <2>2. SoundEpisode(s) /\ s.version = n /\ E!Expected(c, s.version)
    BY <1>6 DEF Sound, Versioned, Expected
  <2>3. /\ \/ E!Handle(s, c).events = << >>
           \/ \E e : E!Handle(s, c).events = <<e>> /\ LegalEpisode(s, e)
        /\ E!Expected(c, 0) \/ v = n
    BY <2>1, <2>2, EpisodeHandles
  <2> QED
    BY <1>6, <2>3 DEF Emitted, Handle, Legal, Expected
<1>7. CASE k = "block"
  BY <1>7, BlockHandles DEF Emitted, Sound, Legal, Handle, Expected, Requests, Deletions,
     Versioned, B!Deletions
<1>8. CASE k = "category"
  BY <1>8, CategoryHandles DEF Emitted, Sound, Legal, Handle, Expected, Requests, Deletions,
     Versioned, K!Deletions
<1>9. CASE k = "settings"
  BY <1>9, SettingsHandles DEF Emitted, Sound, Legal, Handle, Expected, Requests, Deletions,
     Versioned, T!Deletions
<1>10. CASE k = "ai_config"
  BY <1>10, AiConfigHandles DEF Emitted, Sound, Legal, Handle, Expected, Requests, Deletions,
     Versioned, A!Deletions
<1>11. CASE k = "membership"
  BY <1>11, MembershipHandles DEF Emitted, Sound, Legal, Handle, Expected, Requests, Deletions,
     Versioned
<1>12. CASE k = "day"
  <2>1. c \in D!Requests(r, v) \cup D!Deletions
    BY <1>12 DEF Requests, Deletions
  <2>2. SoundDay(s) /\ s.version = n /\ D!Expected(c, s.version)
    BY <1>12 DEF Sound, Versioned, Expected
  <2>3. /\ \/ D!Handle(s, c).events = << >>
           \/ \E e : D!Handle(s, c).events = <<e>> /\ LegalDay(s, e)
        /\ D!Expected(c, 0) \/ v = n
    BY <2>1, <2>2, DayHandles
  <2> QED
    BY <1>12, <2>3 DEF Emitted, Handle, Legal, Expected
<1>13. CASE k = "shoot"
  <2>1. c \in SH!Requests(r, v) \cup SH!Deletions
    BY <1>13 DEF Requests, Deletions
  <2>2. SoundShoot(s) /\ s.version = n /\ SH!Expected(c, s.version)
    BY <1>13 DEF Sound, Versioned, Expected
  <2>3. /\ \/ SH!Handle(s, c).events = << >>
           \/ \E e : SH!Handle(s, c).events = <<e>> /\ LegalShoot(s, e)
        /\ SH!Expected(c, 0) \/ v = n
    BY <2>1, <2>2, ShootHandles
  <2> QED
    BY <1>13, <2>3 DEF Emitted, Handle, Legal, Expected
<1> QED
  BY <1>1, <1>2, <1>3, <1>4, <1>5, <1>6, <1>7, <1>8, <1>9, <1>10, <1>11, <1>12, <1>13 DEF AllKinds

(* Rows keep their type, and a deletion leaves none. *)
LEMMA KindProjects ==
  ASSUME NEW k \in AllKinds, NEW s, NEW e, NEW r \in EntityRows(k), Sound(k, s), Legal(k, s, e)
  PROVE  /\ Project(k, r, e) \in EntityRows(k)
         /\ Versioned(k) => Project(k, r, e).version \in {r.version, e.version, 0}
         /\ Gone(k, Apply(k, s, e)) => s # Blank(k) /\ Project(k, r, e) = NoRow(k)
<1>1. CASE k = "scene"
  BY <1>1, SceneProjects, SceneEnds DEF Sound, Legal, Apply, Project, EntityRows, Gone, Deletable,
     Versioned, Blank, NoRow
<1>2. CASE k = "piece"
  BY <1>2, PieceProjects, PieceEnds DEF Sound, Legal, Apply, Project, EntityRows, Gone, Deletable,
     Versioned, Blank, NoRow
<1>3. CASE k = "outfit"
  BY <1>3, OutfitProjects, OutfitEnds DEF Sound, Legal, Apply, Project, EntityRows, Gone,
     Deletable, Versioned, Blank, NoRow
<1>4. CASE k = "character"
  BY <1>4, CharacterProjects, CharacterEnds DEF Sound, Legal, Apply, Project, EntityRows, Gone,
     Deletable, Versioned, Blank, NoRow
<1>5. CASE k = "season"
  BY <1>5, SeasonProjects DEF Sound, Legal, Apply, Project, EntityRows, Gone, Deletable, Versioned,
     Blank, NoRow
<1>6. CASE k = "episode"
  BY <1>6, EpisodeProjects, EpisodeEnds DEF Sound, Legal, Apply, Project, EntityRows, Gone,
     Deletable, Versioned, Blank, NoRow
<1>7. CASE k = "block"
  BY <1>7, BlockProjects DEF Sound, Legal, Apply, Project, EntityRows, Gone, Deletable, Versioned,
     Blank, NoRow
<1>8. CASE k = "category"
  BY <1>8, CategoryProjects DEF Sound, Legal, Apply, Project, EntityRows, Gone, Deletable,
     Versioned, Blank, NoRow
<1>9. CASE k = "settings"
  BY <1>9, SettingsProjects DEF Sound, Legal, Apply, Project, EntityRows, Gone, Deletable,
     Versioned, Blank, NoRow
<1>10. CASE k = "ai_config"
  BY <1>10, AiConfigProjects DEF Sound, Legal, Apply, Project, EntityRows, Gone, Deletable,
     Versioned, Blank, NoRow
<1>11. CASE k = "membership"
  BY <1>11, MembershipProjects DEF Sound, Legal, Apply, Project, EntityRows, Gone, Deletable,
     Versioned, Blank, NoRow
<1>12. CASE k = "day"
  BY <1>12, DayProjects, DayEnds DEF Sound, Legal, Apply, Project, EntityRows, Gone, Deletable,
     Versioned, Blank, NoRow
<1>13. CASE k = "shoot"
  BY <1>13, ShootProjects, ShootEnds DEF Sound, Legal, Apply, Project, EntityRows, Gone, Deletable,
     Versioned, Blank, NoRow
<1> QED
  BY <1>1, <1>2, <1>3, <1>4, <1>5, <1>6, <1>7, <1>8, <1>9, <1>10, <1>11, <1>12, <1>13 DEF AllKinds

(* Before the first event. *)
LEMMA KindBegins ==
  ASSUME NEW k \in AllKinds
  PROVE  /\ Sound(k, Blank(k)) /\ ~Gone(k, Blank(k)) /\ NoRow(k) \in EntityRows(k)
         /\ View(k, Blank(k)) = NoRow(k)
         /\ Versioned(k) => Blank(k).version = 0 /\ NoRow(k).version = 0
<1>1. CASE k = "scene"
  BY <1>1, SceneBegins DEF Sound, EntityRows, Blank, NoRow, View, Versioned, Gone, Deletable,
     S!Blank
<1>2. CASE k = "piece"
  BY <1>2, PieceBegins DEF Sound, EntityRows, Blank, NoRow, View, Versioned, Gone, Deletable,
     P!Blank
<1>3. CASE k = "outfit"
  BY <1>3, OutfitBegins DEF Sound, EntityRows, Blank, NoRow, View, Versioned, Gone, Deletable,
     O!Blank
<1>4. CASE k = "character"
  BY <1>4, CharacterBegins DEF Sound, EntityRows, Blank, NoRow, View, Versioned, Gone, Deletable,
     C!Blank
<1>5. CASE k = "season"
  BY <1>5, SeasonBegins DEF Sound, EntityRows, Blank, NoRow, View, Versioned, Gone, Deletable
<1>6. CASE k = "episode"
  BY <1>6, EpisodeBegins DEF Sound, EntityRows, Blank, NoRow, View, Versioned, Gone, Deletable,
     E!Blank
<1>7. CASE k = "block"
  BY <1>7, BlockBegins DEF Sound, EntityRows, Blank, NoRow, View, Versioned, Gone, Deletable
<1>8. CASE k = "category"
  BY <1>8, CategoryBegins DEF Sound, EntityRows, Blank, NoRow, View, Versioned, Gone, Deletable
<1>9. CASE k = "settings"
  BY <1>9, SettingsBegins DEF Sound, EntityRows, Blank, NoRow, View, Versioned, Gone, Deletable
<1>10. CASE k = "ai_config"
  BY <1>10, AiConfigBegins DEF Sound, EntityRows, Blank, NoRow, View, Versioned, Gone, Deletable
<1>11. CASE k = "membership"
  BY <1>11, MembershipBegins DEF Sound, EntityRows, Blank, NoRow, View, Versioned, Gone, Deletable
<1>12. CASE k = "day"
  BY <1>12, DayBegins DEF Sound, EntityRows, Blank, NoRow, View, Versioned, Gone, Deletable, D!Blank
<1>13. CASE k = "shoot"
  BY <1>13, ShootBegins DEF Sound, EntityRows, Blank, NoRow, View, Versioned, Gone, Deletable,
     SH!Blank
<1> QED
  BY <1>1, <1>2, <1>3, <1>4, <1>5, <1>6, <1>7, <1>8, <1>9, <1>10, <1>11, <1>12, <1>13 DEF AllKinds

(* The first event makes the row. *)
LEMMA KindStarts ==
  ASSUME NEW k \in AllKinds, NEW e, NEW u, Legal(k, Blank(k), e), u[1] = Apply(k, Blank(k), e)
  PROVE  AliveRow(k, Project(k, NoRow(k), e), 1, 1, u)
<1>1. CASE k = "scene"
  BY <1>1, SceneStarts DEF Legal, Apply, AliveRow, Project, Blank, NoRow
<1>2. CASE k = "piece"
  BY <1>2, PieceStarts DEF Legal, Apply, AliveRow, Project, Blank, NoRow
<1>3. CASE k = "outfit"
  BY <1>3, OutfitStarts DEF Legal, Apply, AliveRow, Project, Blank, NoRow
<1>4. CASE k = "character"
  BY <1>4, CharacterStarts DEF Legal, Apply, AliveRow, Project, Blank, NoRow
<1>5. CASE k = "season"
  BY <1>5, SeasonStarts DEF Legal, Apply, AliveRow, Project, Blank, NoRow
<1>6. CASE k = "episode"
  BY <1>6, EpisodeStarts DEF Legal, Apply, AliveRow, Project, Blank, NoRow
<1>7. CASE k = "block"
  BY <1>7, BlockStarts DEF Legal, Apply, AliveRow, Project, Blank, NoRow
<1>8. CASE k = "category"
  BY <1>8, CategoryStarts DEF Legal, Apply, AliveRow, Project, Blank, NoRow
<1>9. CASE k = "settings"
  BY <1>9, SettingsStarts DEF Legal, Apply, AliveRow, Project, Blank, NoRow, AliveSettings, Latest
<1>10. CASE k = "ai_config"
  BY <1>10, AiConfigStarts DEF Legal, Apply, AliveRow, Project, Blank, NoRow, AliveAiConfig, Latest
<1>11. CASE k = "membership"
  BY <1>11, MembershipStarts DEF Legal, Apply, AliveRow, Project, Blank, NoRow
<1>12. CASE k = "day"
  BY <1>12, DayStarts DEF Legal, Apply, AliveRow, Project, Blank, NoRow
<1>13. CASE k = "shoot"
  BY <1>13, ShootStarts DEF Legal, Apply, AliveRow, Project, Blank, NoRow, AliveShoot, Latest
<1> QED
  BY <1>1, <1>2, <1>3, <1>4, <1>5, <1>6, <1>7, <1>8, <1>9, <1>10, <1>11, <1>12, <1>13 DEF AllKinds

(* The projector's step, first or repeated. *)
LEMMA KindFollows ==
  ASSUME NEW k \in AllKinds, NEW e, NEW r \in EntityRows(k), NEW u,
         NEW c \in Nat, NEW n \in Nat \ {0}, NEW m \in Nat, c <= n,
             m = IF c + 1 > n THEN c + 1 ELSE n,
         Versioned(k) => \A i \in 0..m : u[i].version = i,
         Sound(k, u[c]), Legal(k, u[c], e), u[c + 1] = Apply(k, u[c], e), ~Gone(k, u[c + 1]),
         AliveRow(k, r, c, n, u)
  PROVE  AliveRow(k, Project(k, r, e), c + 1, m, u)
<1>0. n <= m /\ c + 1 <= m
  OBVIOUS
<1>1. CASE k = "scene"
  BY <1>1, <1>0, SceneFollows DEF Sound, Legal, Apply, AliveRow, Project, EntityRows, Versioned,
     Gone, Deletable
<1>2. CASE k = "piece"
  BY <1>2, <1>0, PieceFollows DEF Sound, Legal, Apply, AliveRow, Project, EntityRows, Versioned,
     Gone, Deletable
<1>3. CASE k = "outfit"
  BY <1>3, <1>0, OutfitFollows DEF Sound, Legal, Apply, AliveRow, Project, EntityRows, Versioned,
     Gone, Deletable
<1>4. CASE k = "character"
  BY <1>4, <1>0, CharacterFollows DEF Sound, Legal, Apply, AliveRow, Project, EntityRows,
     Versioned, Gone, Deletable
<1>5. CASE k = "season"
  BY <1>5, <1>0, SeasonFollows DEF Sound, Legal, Apply, AliveRow, Project, EntityRows, Versioned,
     Gone, Deletable
<1>6. CASE k = "episode"
  BY <1>6, <1>0, EpisodeFollows DEF Sound, Legal, Apply, AliveRow, Project, EntityRows, Versioned,
     Gone, Deletable
<1>7. CASE k = "block"
  BY <1>7, <1>0, BlockFollows DEF Sound, Legal, Apply, AliveRow, Project, EntityRows, Versioned,
     Gone, Deletable
<1>8. CASE k = "category"
  BY <1>8, <1>0, CategoryFollows DEF Sound, Legal, Apply, AliveRow, Project, EntityRows, Versioned,
     Gone, Deletable
<1>9. CASE k = "settings"
  BY <1>9, <1>0, SettingsFollows DEF Sound, Legal, Apply, AliveRow, Project, EntityRows, Versioned,
     Gone, Deletable
<1>10. CASE k = "ai_config"
  BY <1>10, <1>0, AiConfigFollows DEF Sound, Legal, Apply, AliveRow, Project, EntityRows,
     Versioned, Gone, Deletable
<1>11. CASE k = "membership"
  BY <1>11, <1>0, MembershipFollows DEF Sound, Legal, Apply, AliveRow, Project, EntityRows,
     Versioned, Gone, Deletable
<1>12. CASE k = "day"
  BY <1>12, <1>0, DayFollows DEF Sound, Legal, Apply, AliveRow, Project, EntityRows, Versioned,
     Gone, Deletable
<1>13. CASE k = "shoot"
  BY <1>13, <1>0, ShootFollows DEF Sound, Legal, Apply, AliveRow, Project, EntityRows, Versioned,
     Gone, Deletable
<1> QED
  BY <1>1, <1>2, <1>3, <1>4, <1>5, <1>6, <1>7, <1>8, <1>9, <1>10, <1>11, <1>12, <1>13 DEF AllKinds

(* The projector is sent back, or the stream grows. *)
LEMMA KindKept ==
  ASSUME NEW k \in AllKinds, NEW r \in EntityRows(k), NEW u, NEW w,
         NEW c \in Nat, NEW d \in 0..c, NEW n \in Nat, AliveRow(k, r, c, n, u),
         \A i \in 0..n : w[i] = u[i]
  PROVE  AliveRow(k, r, d, n, w)
<1>1. CASE k = "scene"
  BY <1>1, FollowsKept, LatestKept, MembersKept, BeatsKept DEF AliveRow, EntityRows, SceneRows,
     AliveScene
<1>2. CASE k = "piece"
  BY <1>2, FollowsKept, LatestKept, MembersKept DEF AliveRow, EntityRows, AlivePiece
<1>3. CASE k = "outfit"
  BY <1>3, FollowsKept, LatestKept, MembersKept, PiecesKept DEF AliveRow, EntityRows, AliveOutfit
<1>4. CASE k = "character"
  BY <1>4, FollowsKept, LatestKept DEF AliveRow, EntityRows, AliveCharacter
<1>5. CASE k = "season"
  BY <1>5, FollowsKept, LatestKept DEF AliveRow, EntityRows, AliveSeason
<1>6. CASE k = "episode"
  BY <1>6, FollowsKept, LatestKept DEF AliveRow, EntityRows, AliveEpisode
<1>7. CASE k = "block"
  BY <1>7, FollowsKept, LatestKept DEF AliveRow, EntityRows, AliveBlock
<1>8. CASE k = "category"
  BY <1>8, FollowsKept, LatestKept DEF AliveRow, EntityRows, AliveCategory
<1>9. CASE k = "settings"
  BY <1>9, FollowsKept, LatestKept DEF AliveRow, EntityRows, AliveSettings
<1>10. CASE k = "ai_config"
  BY <1>10, FollowsKept, LatestKept DEF AliveRow, EntityRows, AliveAiConfig
<1>11. CASE k = "membership"
  BY <1>11, MembershipKept DEF AliveRow, EntityRows
<1>12. CASE k = "day"
  BY <1>12, FollowsKept, LatestKept DEF AliveRow, EntityRows, AliveDay
<1>13. CASE k = "shoot"
  BY <1>13, FollowsKept, LatestKept DEF AliveRow, EntityRows, AliveShoot
<1> QED
  BY <1>1, <1>2, <1>3, <1>4, <1>5, <1>6, <1>7, <1>8, <1>9, <1>10, <1>11, <1>12, <1>13 DEF AllKinds

(* The projector is at its furthest. *)
LEMMA KindCaught ==
  ASSUME NEW k \in AllKinds, NEW r \in EntityRows(k), NEW u, NEW n \in Nat \ {0}, Sound(k, u[n]),
         Versioned(k) => u[n].version = n, ~Gone(k, u[n]), AliveRow(k, r, n, n, u)
  PROVE  r = View(k, u[n])
<1>1. CASE k = "scene"
  BY <1>1, SceneCaught DEF AliveRow, EntityRows, Sound, Versioned, Gone, Deletable, View
<1>2. CASE k = "piece"
  BY <1>2, PieceCaught DEF AliveRow, EntityRows, Sound, Versioned, Gone, Deletable, View
<1>3. CASE k = "outfit"
  BY <1>3, OutfitCaught DEF AliveRow, EntityRows, Sound, Versioned, Gone, Deletable, View
<1>4. CASE k = "character"
  BY <1>4, CharacterCaught DEF AliveRow, EntityRows, Sound, Versioned, Gone, Deletable, View
<1>5. CASE k = "season"
  BY <1>5, SeasonCaught DEF AliveRow, EntityRows, Sound, Versioned, Gone, Deletable, View
<1>6. CASE k = "episode"
  BY <1>6, EpisodeCaught DEF AliveRow, EntityRows, Sound, Versioned, Gone, Deletable, View
<1>7. CASE k = "block"
  BY <1>7, BlockCaught DEF AliveRow, EntityRows, Sound, Versioned, Gone, Deletable, View
<1>8. CASE k = "category"
  BY <1>8, CategoryCaught DEF AliveRow, EntityRows, Sound, Versioned, Gone, Deletable, View
<1>9. CASE k = "settings"
  BY <1>9, SettingsCaught DEF AliveRow, EntityRows, Sound, Versioned, Gone, Deletable, View
<1>10. CASE k = "ai_config"
  BY <1>10, AiConfigCaught DEF AliveRow, EntityRows, Sound, Versioned, Gone, Deletable, View
<1>11. CASE k = "membership"
  BY <1>11, MembershipCaught DEF AliveRow, EntityRows, Sound, Versioned, Gone, Deletable, View,
     M!View
<1>12. CASE k = "day"
  BY <1>12, DayCaught DEF AliveRow, EntityRows, Sound, Versioned, Gone, Deletable, View
<1>13. CASE k = "shoot"
  BY <1>13, ShootCaught DEF AliveRow, EntityRows, Sound, Versioned, Gone, Deletable, View
<1> QED
  BY <1>1, <1>2, <1>3, <1>4, <1>5, <1>6, <1>7, <1>8, <1>9, <1>10, <1>11, <1>12, <1>13 DEF AllKinds

(* What a state shows. *)
LEMMA KindViews ==
  ASSUME NEW k \in AllKinds, NEW s, Sound(k, s)
  PROVE  /\ s \in States(k) /\ (Gone(k, s) => View(k, s) = NoRow(k))
         /\ Versioned(k) => View(k, s).version \in {0, s.version}
         /\ Versioned(k) => \A r \in EntityRows(k) : r.version \in Nat
<1>1. CASE k = "scene"
  BY <1>1, SceneViews DEF Sound, Versioned, Gone, Deletable, View, States, NoRow, EntityRows,
     SoundScene, SceneRows
<1>2. CASE k = "piece"
  BY <1>2, PieceViews DEF Sound, Versioned, Gone, Deletable, View, States, NoRow, EntityRows,
     SoundPiece, PieceRows
<1>3. CASE k = "outfit"
  BY <1>3, OutfitViews DEF Sound, Versioned, Gone, Deletable, View, States, NoRow, EntityRows,
     SoundOutfit, OutfitRows
<1>4. CASE k = "character"
  BY <1>4, CharacterViews DEF Sound, Versioned, Gone, Deletable, View, States, NoRow, EntityRows,
     SoundCharacter, CharacterRows
<1>5. CASE k = "season"
  BY <1>5, SeasonViews DEF Sound, Versioned, Gone, Deletable, View, States, NoRow, EntityRows,
     SoundSeason, SeasonRows
<1>6. CASE k = "episode"
  BY <1>6, EpisodeViews DEF Sound, Versioned, Gone, Deletable, View, States, NoRow, EntityRows,
     SoundEpisode, EpisodeRows
<1>7. CASE k = "block"
  BY <1>7, BlockViews DEF Sound, Versioned, Gone, Deletable, View, States, NoRow, EntityRows,
     SoundBlock, BlockRows
<1>8. CASE k = "category"
  BY <1>8, CategoryViews DEF Sound, Versioned, Gone, Deletable, View, States, NoRow, EntityRows,
     SoundCategory, CategoryRows
<1>9. CASE k = "settings"
  BY <1>9, SettingsViews DEF Sound, Versioned, Gone, Deletable, View, States, NoRow, EntityRows,
     SoundSettings, SettingsRows
<1>10. CASE k = "ai_config"
  BY <1>10, AiConfigViews DEF Sound, Versioned, Gone, Deletable, View, States, NoRow, EntityRows,
     SoundAiConfig, AiConfigRows
<1>11. CASE k = "membership"
  BY <1>11, <1>11 DEF Sound, Versioned, Gone, Deletable, View, States, NoRow, EntityRows
<1>12. CASE k = "day"
  BY <1>12, DayViews DEF Sound, Versioned, Gone, Deletable, View, States, NoRow, EntityRows,
     SoundDay, DayRows
<1>13. CASE k = "shoot"
  BY <1>13, ShootViews DEF Sound, Versioned, Gone, Deletable, View, States, NoRow, EntityRows,
     SoundShoot, ShootRows
<1> QED
  BY <1>1, <1>2, <1>3, <1>4, <1>5, <1>6, <1>7, <1>8, <1>9, <1>10, <1>11, <1>12, <1>13 DEF AllKinds

-----------------------------------------------------------------------------
(* A history with one event more. *)
LEMMA HistoryGrows ==
  ASSUME NEW k \in AllKinds, NEW q, NEW p, NEW u, NEW w, Len(q) \in Nat, Len(p) = Len(q) + 1,
         \A i \in 1..Len(q) : p[i] = q[i], \A i \in 0..Len(q) : w[i] = u[i],
         History(k, q, u), Legal(k, u[Len(q)], p[Len(p)]),
         w[Len(p)] = Apply(k, u[Len(q)], p[Len(p)])
  PROVE  History(k, p, w)
<1>1. w[0] = Blank(k)
  BY DEF History
<1>2. Sound(k, u[Len(q)]) /\ (Versioned(k) => u[Len(q)].version = Len(q))
  BY DEF History
<1>3. Sound(k, w[Len(p)]) /\ (Versioned(k) => w[Len(p)].version = Len(p))
  BY <1>2, KindApplies
<1>4. ASSUME NEW i \in 0..Len(p)
      PROVE  Sound(k, w[i]) /\ (Versioned(k) => w[i].version = i)
  <2>1. CASE i = Len(p)
    BY <1>3, <2>1
  <2>2. CASE i \in 0..Len(q)
    BY <2>2 DEF History
  <2> QED
    BY <2>1, <2>2
<1>5. ASSUME NEW i \in 1..Len(p)
      PROVE  Legal(k, w[i - 1], p[i]) /\ w[i] = Apply(k, w[i - 1], p[i])
  <2>1. CASE i = Len(p)
    <3>1. i - 1 = Len(q) /\ w[i - 1] = u[Len(q)]
      BY <2>1
    <3> QED
      BY <2>1, <3>1
  <2>2. CASE i \in 1..Len(q)
    <3>1. i - 1 \in 0..Len(q) /\ i \in 0..Len(q)
      BY <2>2
    <3>2. w[i - 1] = u[i - 1] /\ w[i] = u[i] /\ p[i] = q[i]
      BY <2>2, <3>1
    <3> QED
      BY <2>2, <3>2 DEF History
  <2> QED
    BY <2>1, <2>2
<1> QED
  BY <1>1, <1>4, <1>5 DEF History

(* The events of a command, appended in one step. *)
LEMMA StoreStep ==
  ASSUME PlaceInv, HistoryInv, NEW events, Emitted(kind, entity, events), Store(events),
         kind' = kind
  PROVE  /\ HistoryInv' /\ Len(stream') = Len(stream) + Len(events) /\ Len(events) \in Nat
         /\ \A i \in 0..Len(stream) : past'[i] = past[i]
         /\ Len(stream') + rewinds <= MaxSteps[kind]
<1>1. PICK Q : stream \in Seq(Q)
  BY DEF HistoryInv, IsSequence
<1>2. Len(stream) \in Nat /\ kind \in AllKinds /\ entity = past[Len(stream)]
        /\ History(kind, stream, past)
  BY <1>1, CatalogueConstants DEF HistoryInv, PlaceInv
<1>3. CASE events = << >>
  <2>1. Len(events) = 0 /\ stream' = stream
    BY <1>1, <1>3 DEF Store
  <2>2. entity' = entity
    BY <2>1 DEF Store, Replayed
  <2>3. \A i \in 0..Len(stream) : past'[i] = past[i]
    BY <1>2, <2>1 DEF Store
  <2>4. past'[Len(stream)] = past[Len(stream)]
    BY <1>2, <2>3
  <2>5. History(kind, stream', past')
    <3>1. /\ past'[0] = Blank(kind)
          /\ \A i \in 0..Len(stream) :
               Sound(kind, past'[i]) /\ (Versioned(kind) => past'[i].version = i)
      BY <1>2, <2>3 DEF History
    <3>2. ASSUME NEW i \in 1..Len(stream)
          PROVE  Legal(kind, past'[i - 1], stream[i])
              /\ past'[i] = Apply(kind, past'[i - 1], stream[i])
      <4>1. i - 1 \in 0..Len(stream) /\ i \in 0..Len(stream)
        BY <1>2
      <4>2. past'[i - 1] = past[i - 1] /\ past'[i] = past[i]
        BY <2>3, <4>1
      <4> QED
        BY <1>2, <4>2 DEF History
    <3> QED
      BY <2>1, <3>1, <3>2 DEF History
  <2> QED
    BY <1>1, <1>2, <2>1, <2>2, <2>3, <2>4, <2>5 DEF HistoryInv, IsSequence, Store
<1>4. ASSUME NEW e, events = <<e>>, Legal(kind, entity, e)
      PROVE  /\ HistoryInv' /\ Len(stream') = Len(stream) + 1 /\ Len(events) = 1
             /\ \A i \in 0..Len(stream) : past'[i] = past[i]
  <2>1. Len(events) = 1 /\ events[1] = e
    BY <1>4
  <2>2. /\ stream' = stream \o <<e>> /\ entity' = Apply(kind, entity, e)
        /\ stream' \in Seq(Q \cup {e}) /\ Len(stream') = Len(stream) + 1
        /\ \A i \in 1..Len(stream) : stream'[i] = stream[i]
        /\ stream'[Len(stream) + 1] = e
    BY <1>1, <1>4, <2>1 DEF Store, Replayed
  <2>3. \A i \in 0..Len(stream) : past'[i] = past[i]
    BY <1>2, <2>2 DEF Store
  <2>4. past'[Len(stream) + 1] = Apply(kind, entity, e)
    <3>1. past'[Len(stream) + 1] = Replayed(entity, events, 1)
      BY <1>2, <2>2 DEF Store
    <3> QED
      BY <2>1, <3>1 DEF Replayed
  <2>5. History(kind, stream', past')
    BY <1>2, <1>4, <2>2, <2>3, <2>4, HistoryGrows
  <2> QED
    BY <2>1, <2>2, <2>3, <2>4, <2>5 DEF HistoryInv, IsSequence
<1>5. ASSUME NEW e, NEW f, events = <<e, f>>, Legal(kind, entity, e),
        Legal(kind, Apply(kind, entity, e), f)
      PROVE  /\ HistoryInv' /\ Len(stream') = Len(stream) + 2 /\ Len(events) = 2
             /\ \A i \in 0..Len(stream) : past'[i] = past[i]
  <2> DEFINE p == stream \o <<e>>
  <2>1. Len(events) = 2 /\ events[1] = e /\ events[2] = f
    BY <1>5
  <2>2. /\ stream' = stream \o <<e, f>> /\ entity' = Apply(kind, Apply(kind, entity, e), f)
        /\ stream' \in Seq(Q \cup {e, f}) /\ Len(stream') = Len(stream) + 2
        /\ \A i \in 1..Len(stream) : stream'[i] = stream[i]
        /\ stream'[Len(stream) + 1] = e /\ stream'[Len(stream) + 2] = f
    BY <1>1, <1>5, <2>1 DEF Store, Replayed
  <2>3. /\ Len(p) = Len(stream) + 1 /\ p[Len(stream) + 1] = e
        /\ \A i \in 1..Len(stream) : p[i] = stream[i]
    BY <1>1
  <2>4. \A i \in 0..Len(stream) : past'[i] = past[i]
    BY <1>2, <2>2 DEF Store
  <2>5. past'[Len(stream) + 1] = Apply(kind, entity, e)
    <3>1. past'[Len(stream) + 1] = Replayed(entity, events, 1)
      BY <1>2, <2>2 DEF Store
    <3> QED
      BY <2>1, <3>1 DEF Replayed
  <2>6. past'[Len(stream) + 2] = Apply(kind, Apply(kind, entity, e), f)
    <3>1. past'[Len(stream) + 2] = Replayed(entity, events, 2)
      BY <1>2, <2>2 DEF Store
    <3> QED
      BY <2>1, <3>1 DEF Replayed
  <2> HIDE DEF p
  <2>7. History(kind, p, past')
    BY <1>2, <1>5, <2>3, <2>4, <2>5, HistoryGrows
  <2>8. Len(p) \in Nat /\ Len(stream') = Len(p) + 1 /\ \A i \in 1..Len(p) : stream'[i] = p[i]
    BY <1>2, <2>2, <2>3
  <2>9. /\ Legal(kind, past'[Len(p)], stream'[Len(stream')])
        /\ past'[Len(stream')] = Apply(kind, past'[Len(p)], stream'[Len(stream')])
    <3>1. Len(stream') = Len(stream) + 2 /\ Len(p) = Len(stream) + 1
      BY <2>2, <2>3
    <3> QED
      BY <1>5, <2>2, <2>5, <2>6, <3>1
  <2>10. History(kind, stream', past')
    BY <1>2, <2>7, <2>8, <2>9, HistoryGrows
  <2> QED
    BY <2>1, <2>2, <2>4, <2>6, <2>10 DEF HistoryInv, IsSequence
<1>6. Len(stream) + Len(events) + rewinds <= MaxSteps[kind]
  BY DEF Store
<1> QED
  BY <1>2, <1>3, <1>4, <1>5, <1>6 DEF Emitted

(* What a client or somebody else sends makes legal events. *)
LEMMA DecideStep ==
  ASSUME PlaceInv, HistoryInv, NEW r, NEW v \in Nat,
         NEW c \in Requests(kind, r, v) \cup Deletions(kind)
  PROVE  /\ Emitted(kind, entity, Decide(c).events)
         /\ Decide(c).ok => Expected(kind, c, 0) \/ v = Len(stream)
<1>1. /\ kind \in AllKinds /\ Len(stream) \in Nat /\ Sound(kind, entity)
      /\ Versioned(kind) => entity.version = Len(stream)
  <2>1. PICK Q : stream \in Seq(Q)
    BY DEF HistoryInv, IsSequence
  <2>2. Len(stream) \in Nat
    BY <2>1
  <2> QED
    BY <2>2, CatalogueConstants DEF PlaceInv, HistoryInv, History
<1>2. CASE Expected(kind, c, Len(stream))
  <2>1. Decide(c) = Handle(kind, entity, c)
    BY <1>2 DEF Decide
  <2>2. /\ Emitted(kind, entity, Handle(kind, entity, c).events)
        /\ Expected(kind, c, 0) \/ v = Len(stream)
    BY <1>1, <1>2, KindHandles
  <2> QED
    BY <2>1, <2>2
<1>3. CASE ~Expected(kind, c, Len(stream))
  BY <1>3 DEF Decide, Reject, Emitted
<1> QED
  BY <1>2, <1>3

(* The projector handles the next event. *)
LEMMA RowStep ==
  ASSUME NEW k \in AllKinds, NEW q, NEW u, NEW r, NEW c \in Nat, NEW n \in Nat, NEW m \in Nat,
         Len(q) \in Nat, c <= n, n <= Len(q), c < Len(q), m = IF c + 1 > n THEN c + 1 ELSE n,
         History(k, q, u), EntityRowInv(k, r, c, n, u)
  PROVE  EntityRowInv(k, Project(k, r, q[c + 1]), c + 1, m, u)
<1> DEFINE e == q[c + 1]
           s == u[c]
           t == u[c + 1]
           x == Project(k, r, e)
<1>1. m <= Len(q) /\ m > 0 /\ n <= m /\ c + 1 <= m
  OBVIOUS
<1>2. /\ Sound(k, s) /\ (Versioned(k) => s.version = c)
      /\ Legal(k, s, e) /\ t = Apply(k, s, e)
  <2>1. c \in 0..Len(q) /\ c + 1 \in 1..Len(q) /\ (c + 1) - 1 = c
    OBVIOUS
  <2> QED
    BY <2>1 DEF History
<1>3. /\ r \in EntityRows(k) /\ (Versioned(k) => r.version <= n)
      /\ n = 0 \/ Gone(k, u[n]) => (c = n => r = NoRow(k))
      /\ n > 0 /\ ~Gone(k, u[n]) => AliveRow(k, r, c, n, u)
  BY DEF EntityRowInv
<1>4. /\ x \in EntityRows(k) /\ (Versioned(k) => x.version \in {r.version, e.version, 0})
      /\ Gone(k, t) => s # Blank(k) /\ x = NoRow(k)
  BY <1>2, <1>3, KindProjects
<1>5. Versioned(k) => e.version = c + 1
  BY <1>2, KindApplies
<1>6. \A i \in 0..(Len(q) - 1) : ~Gone(k, u[i])
  <2> TAKE i \in 0..(Len(q) - 1)
  <2>1. i \in 0..Len(q) /\ i + 1 \in 1..Len(q) /\ (i + 1) - 1 = i
    OBVIOUS
  <2>2. Sound(k, u[i]) /\ Legal(k, u[i], q[i + 1])
    BY <2>1 DEF History
  <2> QED
    BY <2>2, KindApplies
<1>7. Versioned(k) => \A i \in 0..m : u[i].version = i
  BY <1>1 DEF History
<1>8. Versioned(k) => x.version <= m
  BY <1>1, <1>2, <1>3, <1>4, <1>5, KindViews
<1>9. CASE Gone(k, t)
  <2>1. m = c + 1
    <3>1. ~(c + 1 \in 0..(Len(q) - 1))
      BY <1>6, <1>9
    <3> QED
      BY <1>1, <3>1
  <2>2. x = NoRow(k) /\ u[m] = t
    BY <1>4, <1>9, <2>1
  <2> QED
    BY <1>1, <1>4, <1>8, <1>9, <2>1, <2>2 DEF EntityRowInv
<1>10. CASE ~Gone(k, t) /\ n = 0
  <2>1. c = 0 /\ m = 1 /\ r = NoRow(k)
    BY <1>3, <1>10
  <2>2. s = Blank(k)
    BY <2>1 DEF History
  <2>3. AliveRow(k, x, 1, 1, u)
    BY <1>2, <2>1, <2>2, KindStarts
  <2> QED
    BY <1>4, <1>8, <1>10, <2>1, <2>3 DEF EntityRowInv
<1>11. CASE ~Gone(k, t) /\ n > 0 /\ ~Gone(k, u[n])
  <2>1. AliveRow(k, x, c + 1, m, u)
    BY <1>2, <1>3, <1>7, <1>11, KindFollows
  <2>2. ~Gone(k, u[m])
    <3>1. m = n \/ m = c + 1
      OBVIOUS
    <3> QED
      BY <1>11, <3>1
  <2> QED
    BY <1>1, <1>4, <1>8, <2>1, <2>2 DEF EntityRowInv
<1>12. CASE ~Gone(k, t) /\ n > 0 /\ Gone(k, u[n])
  <2>1. n = Len(q)
    <3>1. ~(n \in 0..(Len(q) - 1))
      BY <1>6, <1>12
    <3> QED
      BY <3>1
  <2>2. m = n /\ c + 1 # m
    <3>1. m = n
      BY <2>1
    <3>2. c + 1 # n
      BY <1>12
    <3> QED
      BY <3>1, <3>2
  <2> QED
    BY <1>1, <1>4, <1>8, <1>12, <2>2 DEF EntityRowInv
<1> QED
  BY <1>9, <1>10, <1>11, <1>12

(* The projector is sent back, or the stream grows. *)
LEMMA RowKept ==
  ASSUME NEW k \in AllKinds, NEW u, NEW w, NEW r, NEW c \in Nat, NEW d \in 0..c, NEW n \in Nat,
         c <= n, \A i \in 0..n : w[i] = u[i], EntityRowInv(k, r, c, n, u)
  PROVE  EntityRowInv(k, r, d, n, w)
<1>1. w[n] = u[n]
  OBVIOUS
<1>2. /\ r \in EntityRows(k) /\ (Versioned(k) => r.version <= n)
      /\ n = 0 \/ Gone(k, u[n]) => (c = n => r = NoRow(k))
      /\ n > 0 /\ ~Gone(k, u[n]) => AliveRow(k, r, c, n, u)
  BY DEF EntityRowInv
<1>3. d = n => c = n
  OBVIOUS
<1>4. AliveRow(k, r, c, n, u) => AliveRow(k, r, d, n, w)
  BY <1>2, KindKept
<1> QED
  BY <1>1, <1>2, <1>3, <1>4 DEF EntityRowInv

(* A row that has caught up. *)
LEMMA RowCaught ==
  ASSUME NEW k \in AllKinds, NEW q, NEW u, NEW r, NEW n \in Nat, Len(q) \in Nat, n <= Len(q),
         History(k, q, u), EntityRowInv(k, r, n, n, u)
  PROVE  /\ r = View(k, u[n])
         /\ Versioned(k) /\ r.version > 0 => r.version = n
<1>1. /\ Sound(k, u[n]) /\ (Versioned(k) => u[n].version = n) /\ u[0] = Blank(k)
  BY DEF History
<1>2. r \in EntityRows(k)
  BY DEF EntityRowInv
<1>3. r = View(k, u[n])
  <2>1. CASE n = 0
    BY <1>1, <2>1, KindBegins DEF EntityRowInv
  <2>2. CASE Gone(k, u[n])
    BY <1>1, <2>2, KindViews DEF EntityRowInv
  <2>3. CASE n > 0 /\ ~Gone(k, u[n])
    BY <1>1, <1>2, <2>3, KindCaught DEF EntityRowInv
  <2> QED
    BY <2>1, <2>2, <2>3
<1>4. Versioned(k) => r.version = View(k, u[n]).version
  BY <1>1, <1>2, <1>3, KindViews
<1> QED
  BY <1>1, <1>3, <1>4, KindViews

-----------------------------------------------------------------------------
(* What every step may use. *)
LEMMA CatalogueFacts ==
  ASSUME CatalogueInv
  PROVE  /\ kind \in AllKinds /\ kind \in EntityKinds /\ MaxSteps[kind] \in Nat
         /\ Len(stream) \in Nat /\ cursor \in Nat /\ high \in Nat /\ rewinds \in Nat
         /\ cursor <= high /\ high <= Len(stream) /\ rewinds <= MaxSteps[kind]
<1>1. PICK Q : stream \in Seq(Q)
  BY DEF CatalogueInv, HistoryInv, IsSequence
<1>2. Len(stream) \in Nat
  BY <1>1
<1> QED
  BY <1>2, CatalogueConstants DEF CatalogueInv, PlaceInv

LEMMA CatalogueInvInit == CatalogueInit => CatalogueInv
<1> SUFFICES ASSUME CatalogueInit PROVE CatalogueInv
  OBVIOUS
<1>1. /\ kind \in EntityKinds /\ kind \in AllKinds /\ MaxSteps[kind] \in Nat
      /\ stream = << >> /\ Len(stream) = 0 /\ past[0] = Blank(kind) /\ entity = Blank(kind)
      /\ row = NoRow(kind) /\ cursor = 0 /\ high = 0 /\ rewinds = 0 /\ client = NewClient(kind)
  BY CatalogueConstants DEF CatalogueInit
<1>2. PlaceInv
  BY <1>1 DEF PlaceInv
<1>3. HistoryInv
  <2>1. IsSequence(stream)
    BY <1>1 DEF IsSequence
  <2>2. Sound(kind, Blank(kind)) /\ (Versioned(kind) => Blank(kind).version = 0)
    BY <1>1, KindBegins
  <2>3. \A i \in 0..0 : i = 0
    OBVIOUS
  <2>4. \A i \in 0..Len(stream) : Sound(kind, past[i]) /\ (Versioned(kind) => past[i].version = i)
    BY <1>1, <2>2, <2>3
  <2>5. 1..Len(stream) = {}
    BY <1>1
  <2> QED
    BY <1>1, <2>1, <2>4, <2>5 DEF HistoryInv, History
<1>4. ClientInv
  BY <1>1 DEF ClientInv, NewClient
<1>5. EntityRowInv(kind, row, cursor, high, past)
  BY <1>1, KindBegins DEF EntityRowInv
<1> QED
  BY <1>2, <1>3, <1>4, <1>5 DEF CatalogueInv

LEMMA ClientReadsStep == ASSUME CatalogueInv, ClientReads PROVE CatalogueInv'
<1>1. /\ kind' = kind /\ entity' = entity /\ stream' = stream /\ past' = past /\ row' = row
      /\ cursor' = cursor /\ high' = high /\ rewinds' = rewinds
  BY DEF ClientReads
<1>2. PlaceInv' /\ HistoryInv' /\ EntityRowInv(kind, row, cursor, high, past)'
  BY <1>1 DEF CatalogueInv, PlaceInv, HistoryInv
<1>3. ClientInv'
  <2>1. /\ Versioned(kind) /\ row \in EntityRows(kind) /\ row.version <= high
    BY DEF CatalogueInv, EntityRowInv, ClientReads
  <2>2. row.version \in Nat
    <3>1. Len(stream) \in 0..Len(stream)
      BY CatalogueFacts
    <3>2. Sound(kind, past[Len(stream)])
      BY <3>1 DEF CatalogueInv, HistoryInv, History
    <3> QED
      BY <2>1, <3>2, CatalogueFacts, KindViews
  <2>3. /\ DOMAIN client' = {"phase", "version", "seen", "whole", "cmd"}
        /\ client'.phase = "idle" /\ client'.version = row.version
        /\ client'.seen = row /\ (client'.whole <=> cursor = high)
    BY DEF CatalogueInv, ClientInv, ClientReads
  <2>4. cursor = high /\ row.version > 0 => row = View(kind, past[row.version])
    BY CatalogueFacts, RowCaught, <2>1 DEF CatalogueInv, HistoryInv
  <2> QED
    BY <1>1, <2>1, <2>2, <2>3, <2>4, CatalogueFacts DEF ClientInv
<1> QED
  BY <1>2, <1>3 DEF CatalogueInv

LEMMA ClientSendsStep == ASSUME CatalogueInv, ClientSends PROVE CatalogueInv'
<1>1. /\ kind' = kind /\ entity' = entity /\ stream' = stream /\ past' = past /\ row' = row
      /\ cursor' = cursor /\ high' = high /\ rewinds' = rewinds
  BY DEF ClientSends
<1>2. PlaceInv' /\ HistoryInv' /\ EntityRowInv(kind, row, cursor, high, past)'
  BY <1>1 DEF CatalogueInv, PlaceInv, HistoryInv
<1>3. ClientInv'
  <2>1. PICK c \in Requests(kind, row, client.version) :
          client' = [client EXCEPT !.phase = "sent", !.cmd = c]
    BY DEF ClientSends
  <2>2. /\ DOMAIN client' = {"phase", "version", "seen", "whole", "cmd"}
        /\ client'.phase = "sent" /\ client'.version = client.version
        /\ client'.seen = client.seen /\ client'.whole = client.whole /\ client'.cmd = c
    BY <2>1 DEF CatalogueInv, ClientInv
  <2>3. \E r : client'.cmd \in Requests(kind, r, client.version)
    BY <2>1, <2>2
  <2>4. Versioned(kind) => client.version > 0
    BY DEF ClientSends
  <2> QED
    BY <1>1, <2>2, <2>3, <2>4 DEF CatalogueInv, ClientInv
<1> QED
  BY <1>2, <1>3 DEF CatalogueInv

(* What the client has seen stays true while the stream grows. *)
LEMMA SeenKept ==
  ASSUME ClientInv, Len(stream) \in Nat, Len(stream') \in Nat, Len(stream) <= Len(stream'),
         kind' = kind,
         \A i \in 0..Len(stream) : past'[i] = past[i],
         DOMAIN client' = {"phase", "version", "seen", "whole", "cmd"},
         client'.version = client.version, client'.seen = client.seen, client'.whole = client.whole,
         client'.phase = "idle" \/ client' = client
  PROVE  ClientInv'
<1>1. client.version \in 0..Len(stream) /\ past'[client.version] = past[client.version]
  BY DEF ClientInv
<1>2. client'.version \in 0..Len(stream')
  BY <1>1
<1>3. CASE client'.phase = "idle"
  BY <1>1, <1>2, <1>3 DEF ClientInv
<1>4. CASE client' = client
  BY <1>1, <1>2, <1>4 DEF ClientInv
<1> QED
  BY <1>3, <1>4

(* The stream grows by what a command emits; the row waits. *)
LEMMA EntityStep ==
  ASSUME CatalogueInv, NEW r, NEW v \in Nat, NEW c \in Requests(kind, r, v) \cup Deletions(kind),
         Store(Decide(c).events), UNCHANGED <<kind, row, cursor, high, rewinds>>
  PROVE  /\ PlaceInv' /\ HistoryInv' /\ EntityRowInv(kind, row, cursor, high, past)'
         /\ Len(stream') \in Nat /\ Len(stream) <= Len(stream')
         /\ Len(stream') = Len(stream) + Len(Decide(c).events)
         /\ \A i \in 0..Len(stream) : past'[i] = past[i]
<1>1. /\ HistoryInv' /\ Len(stream') = Len(stream) + Len(Decide(c).events)
         /\ Len(Decide(c).events) \in Nat
      /\ \A i \in 0..Len(stream) : past'[i] = past[i]
  <2>1. Emitted(kind, entity, Decide(c).events)
    BY DecideStep DEF CatalogueInv
  <2> QED
    BY <2>1, StoreStep DEF CatalogueInv
<1>2. PlaceInv'
  BY <1>1, CatalogueFacts DEF CatalogueInv, PlaceInv
<1>3. EntityRowInv(kind, row, cursor, high, past')
  <2>1. cursor \in 0..cursor /\ \A i \in 0..high : past'[i] = past[i]
    BY <1>1, CatalogueFacts
  <2> QED
    BY <2>1, CatalogueFacts, RowKept DEF CatalogueInv
<1> QED
  BY <1>1, <1>2, <1>3, CatalogueFacts

LEMMA ClientSucceedsStep == ASSUME CatalogueInv, ClientSucceeds PROVE CatalogueInv'
<1> DEFINE d == Decide(client.cmd)
<1>1. /\ client.phase = "sent" /\ d.ok /\ Store(d.events) /\ UNCHANGED <<kind, row, cursor, high,
         rewinds>>
      /\ client' = IF d.events = << >> \/ ~Versioned(kind)
                   THEN [client EXCEPT !.phase = "idle", !.cmd = NoCmd]
                   ELSE [phase |-> "idle", cmd |-> NoCmd, seen |-> View(kind, entity'),
                          whole |-> TRUE,
                         version |-> Answered(Len(stream), d.events)]
  BY DEF ClientSucceeds
<1>2. PICK r : client.cmd \in Requests(kind, r, client.version)
  BY <1>1 DEF CatalogueInv, ClientInv
<1>3. client.version \in Nat
  BY CatalogueFacts DEF CatalogueInv, ClientInv
<1>4. /\ PlaceInv' /\ HistoryInv' /\ EntityRowInv(kind, row, cursor, high, past)'
      /\ Len(stream') \in Nat /\ Len(stream) <= Len(stream')
          /\ Len(stream') = Len(stream) + Len(d.events)
      /\ \A i \in 0..Len(stream) : past'[i] = past[i]
  BY <1>1, <1>2, <1>3, EntityStep
<1> HIDE DEF d
<1>5. ClientInv'
  <2>1. CASE d.events = << >> \/ ~Versioned(kind)
    <3>1. client' = [client EXCEPT !.phase = "idle", !.cmd = NoCmd]
      BY <1>1, <2>1
    <3>2. /\ DOMAIN client' = {"phase", "version", "seen", "whole", "cmd"}
          /\ client'.phase = "idle" /\ client'.version = client.version
          /\ client'.seen = client.seen /\ client'.whole = client.whole
      BY <3>1 DEF CatalogueInv, ClientInv
    <3> QED
      BY <1>1, <1>4, <3>2, CatalogueFacts, SeenKept DEF CatalogueInv
  <2>2. CASE ~(d.events = << >> \/ ~Versioned(kind))
    <3>1. client' = [phase |-> "idle", cmd |-> NoCmd, seen |-> View(kind, entity'), whole |-> TRUE,
                     version |-> Answered(Len(stream), d.events)]
      BY <1>1, <2>2
    <3>2. /\ DOMAIN client' = {"phase", "version", "seen", "whole", "cmd"}
          /\ client'.phase = "idle" /\ client'.version = Len(stream')
          /\ client'.seen = View(kind, entity')
      BY <1>4, <3>1 DEF Answered
    <3>3. entity' = past'[Len(stream')] /\ Len(stream') \in 0..Len(stream')
      BY <1>4 DEF HistoryInv
    <3> QED
      BY <1>1, <3>2, <3>3 DEF ClientInv
  <2> QED
    BY <2>1, <2>2
<1> QED
  BY <1>4, <1>5 DEF CatalogueInv

LEMMA ClientFailsStep == ASSUME CatalogueInv, ClientFails PROVE CatalogueInv'
<1>1. /\ kind' = kind /\ entity' = entity /\ stream' = stream /\ past' = past /\ row' = row
      /\ cursor' = cursor /\ high' = high /\ rewinds' = rewinds
      /\ client' = [client EXCEPT !.phase = "idle", !.cmd = NoCmd]
  BY DEF ClientFails
<1>2. PlaceInv' /\ HistoryInv' /\ EntityRowInv(kind, row, cursor, high, past)'
  BY <1>1 DEF CatalogueInv, PlaceInv, HistoryInv
<1>3. /\ DOMAIN client' = {"phase", "version", "seen", "whole", "cmd"}
      /\ client'.phase = "idle" /\ client'.version = client.version
      /\ client'.seen = client.seen /\ client'.whole = client.whole
  BY <1>1 DEF CatalogueInv, ClientInv
<1>4. ClientInv'
  BY <1>1, <1>3, CatalogueFacts, SeenKept DEF CatalogueInv
<1> QED
  BY <1>2, <1>4 DEF CatalogueInv

LEMMA OthersActStep == ASSUME CatalogueInv, OthersAct PROVE CatalogueInv'
<1>1. PICK c \in Requests(kind, row, Len(stream)) \cup Deletions(kind) : Store(Decide(c).events)
  BY DEF OthersAct
<1>2. UNCHANGED <<kind, row, cursor, high, client, rewinds>>
  BY DEF OthersAct
<1>3. /\ PlaceInv' /\ HistoryInv' /\ EntityRowInv(kind, row, cursor, high, past)'
      /\ Len(stream') \in Nat /\ Len(stream) <= Len(stream')
      /\ \A i \in 0..Len(stream) : past'[i] = past[i]
  BY <1>1, <1>2, CatalogueFacts, EntityStep
<1>4. ClientInv'
  <2>1. DOMAIN client' = {"phase", "version", "seen", "whole", "cmd"}
    BY <1>2 DEF CatalogueInv, ClientInv
  <2> QED
    BY <1>2, <1>3, <2>1, CatalogueFacts, SeenKept DEF CatalogueInv
<1> QED
  BY <1>3, <1>4 DEF CatalogueInv

LEMMA ProjectNextStep == ASSUME CatalogueInv, ProjectNext PROVE CatalogueInv'
<1>1. /\ kind' = kind /\ entity' = entity /\ stream' = stream /\ past' = past /\ client' = client
      /\ rewinds' = rewinds /\ cursor < Len(stream) /\ row' = Project(kind, row, stream[cursor + 1])
      /\ cursor' = cursor + 1 /\ high' = IF cursor + 1 > high THEN cursor + 1 ELSE high
  BY DEF ProjectNext
<1>2. PlaceInv'
  BY <1>1, CatalogueFacts DEF PlaceInv
<1>3. HistoryInv' /\ ClientInv'
  BY <1>1 DEF CatalogueInv, HistoryInv, ClientInv
<1>4. EntityRowInv(kind, row', cursor + 1, high', past)
  <2>1. high' \in Nat /\ History(kind, stream, past) /\ EntityRowInv(kind, row, cursor, high, past)
    BY <1>1, CatalogueFacts DEF CatalogueInv, HistoryInv
  <2> QED
    BY <1>1, <2>1, CatalogueFacts, RowStep
<1> QED
  BY <1>1, <1>2, <1>3, <1>4 DEF CatalogueInv

LEMMA RewindStep == ASSUME CatalogueInv, Rewind PROVE CatalogueInv'
<1>1. PICK n \in 0..(cursor - 1) : cursor' = n
  BY DEF Rewind
<1>2. /\ kind' = kind /\ entity' = entity /\ stream' = stream /\ past' = past /\ client' = client
      /\ row' = row /\ high' = high /\ rewinds' = rewinds + 1
          /\ Len(stream) + rewinds < MaxSteps[kind]
  BY DEF Rewind
<1>3. cursor' \in 0..cursor
  BY <1>1, CatalogueFacts
<1>4. PlaceInv'
  BY <1>2, <1>3, CatalogueFacts DEF PlaceInv
<1>5. HistoryInv' /\ ClientInv'
  BY <1>2 DEF CatalogueInv, HistoryInv, ClientInv
<1>6. EntityRowInv(kind, row, cursor', high, past)
  BY <1>3, CatalogueFacts, RowKept DEF CatalogueInv
<1> QED
  BY <1>2, <1>4, <1>5, <1>6 DEF CatalogueInv

LEMMA CatalogueInvNext == CatalogueInv /\ [CatalogueNext]_catalogueVars => CatalogueInv'
<1> SUFFICES ASSUME CatalogueInv, [CatalogueNext]_catalogueVars PROVE CatalogueInv'
  OBVIOUS
<1>1. CASE UNCHANGED catalogueVars
  BY <1>1 DEF catalogueVars, CatalogueInv, PlaceInv, HistoryInv, ClientInv
<1> QED
  BY <1>1, ClientReadsStep, ClientSendsStep, ClientSucceedsStep, ClientFailsStep, OthersActStep,
     ProjectNextStep, RewindStep DEF CatalogueNext

LEMMA CatalogueInvariant == CatalogueSpec => []CatalogueInv
BY CatalogueInvInit, CatalogueInvNext, PTL DEF CatalogueSpec

(* For every kind of entity: the actor's state is in range, the projector   *)
(* on the stream, and no client holds a version the stream has not reached. *)
THEOREM CatalogueTyped == CatalogueSpec => []CatalogueTypes
<1>1. ASSUME CatalogueInv PROVE CatalogueTypes
  <2>1. Sound(kind, entity)
    <3>1. Len(stream) \in 0..Len(stream)
      BY <1>1, CatalogueFacts
    <3> QED
      BY <1>1, <3>1 DEF CatalogueInv, HistoryInv, History
  <2>2. entity \in States(kind)
    BY <1>1, <2>1, CatalogueFacts, KindViews
  <2> QED
    BY <1>1, <2>2 DEF CatalogueInv, PlaceInv, ClientInv, CatalogueTypes
<1> QED
  BY <1>1, CatalogueInvariant, PTL

(* Whatever the kind, however long the stream and however often and however *)
(* far the projector was sent back, once it is where it was before, the row *)
(* shows what the events up to there say: replays change nothing and lose   *)
(* nothing.                                                                 *)
THEOREM ReplayedRowsFollow == CatalogueSpec => []ReadModelFollows
<1>1. ASSUME CatalogueInv PROVE ReadModelFollows
  <2>1. SUFFICES ASSUME cursor = high PROVE row = View(kind, past[cursor])
    BY DEF ReadModelFollows
  <2> QED
    BY <1>1, <2>1, CatalogueFacts, RowCaught DEF CatalogueInv, HistoryInv
<1> QED
  BY <1>1, CatalogueInvariant, PTL

(* The n-th event of a stream carries version n, whatever the command that  *)
(* emitted it, the second event of a command included.                      *)
THEOREM StreamVersionsCount == CatalogueSpec => []VersionsCount
<1>1. ASSUME CatalogueInv PROVE VersionsCount
  <2>1. SUFFICES ASSUME Versioned(kind)
                 PROVE  entity.version = Len(stream)
                     /\ \A i \in DOMAIN stream : stream[i].version = i
    BY DEF VersionsCount
  <2>2. entity.version = Len(stream)
    BY <1>1, <2>1, CatalogueFacts DEF CatalogueInv, HistoryInv, History
  <2>3. DOMAIN stream = 1..Len(stream)
    BY <1>1 DEF CatalogueInv, HistoryInv, IsSequence
  <2>4. ASSUME NEW i \in 1..Len(stream) PROVE stream[i].version = i
    <3>1. i \in Nat /\ i - 1 \in 0..Len(stream)
      BY <1>1, CatalogueFacts
    <3>2. Sound(kind, past[i - 1]) /\ past[i - 1].version = i - 1
            /\ Legal(kind, past[i - 1], stream[i])
      BY <1>1, <2>1, <3>1 DEF CatalogueInv, HistoryInv, History
    <3>3. stream[i].version = past[i - 1].version + 1
      BY <1>1, <2>1, <3>2, CatalogueFacts, KindApplies
    <3> QED
      BY <3>1, <3>2, <3>3
  <2> QED
    BY <2>2, <2>3, <2>4
<1> QED
  BY <1>1, CatalogueInvariant, PTL

(* Optimistic concurrency for every kind: a command that asks for a version *)
(* is accepted only if the entity is what its sender was shown, however     *)
(* many others acted and however the projector went back in between.        *)
THEOREM AcceptedOnlyOnWhatWasSeen == CatalogueSpec => AcceptedOnWhatWasSeen
<1>1. ASSUME CatalogueInv, ClientSucceeds, client.whole, ~Expected(kind, client.cmd, 0)
      PROVE  client.seen = View(kind, entity)
  <2>1. client.phase = "sent" /\ Decide(client.cmd).ok
    BY <1>1 DEF ClientSucceeds
  <2>2. PICK r : client.cmd \in Requests(kind, r, client.version)
    BY <1>1, <2>1 DEF CatalogueInv, ClientInv
  <2>3. client.version \in Nat
    BY <1>1, CatalogueFacts DEF CatalogueInv, ClientInv
  <2>4. client.version = Len(stream)
    BY <1>1, <2>1, <2>2, <2>3, DecideStep DEF CatalogueInv
  <2>5. Versioned(kind)
    BY <1>1 DEF Versioned, Expected, M!Expected, M!ExpectAny
  <2>6. client.version > 0 /\ client.seen = View(kind, past[client.version])
    BY <1>1, <2>1, <2>5 DEF CatalogueInv, ClientInv
  <2> QED
    BY <1>1, <2>4, <2>6 DEF CatalogueInv, HistoryInv
<1>2. CatalogueInv => [ClientSucceeds /\ client.whole /\ ~Expected(kind, client.cmd, 0)
                         => client.seen = View(kind, entity)]_catalogueVars
  BY <1>1
<1> QED
  BY <1>2, CatalogueInvariant, PTL DEF AcceptedOnWhatWasSeen
=============================================================================
