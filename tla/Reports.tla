------------------------------ MODULE Reports ------------------------------
(***************************************************************************)
(* Archival of the reports of a shooting day: the triggers that enqueue    *)
(* jobs, the durable queue report_ops.report_job, the backup worker        *)
(* (render, stage, upload, retain), the reconciliation pass, and the two   *)
(* stores behind them.  One day; a job is named by its kind, which is what *)
(* its dedup key adds to the day.  A report is named by the version of the *)
(* data it was rendered from, and so is its digest.                        *)
(***************************************************************************)
EXTENDS Naturals, Sequences, SequencesExt

CONSTANTS
  AllKinds,     \* the kinds of a trigger, in its order
  Workers,      \* backup workers
  MaxRetries,   \* REPORT_BACKUP_MAX_RETRIES
  MaxData,      \* bound: versions of the day's data
  MaxPresses,   \* bound: manual requests
  MaxFaults     \* bound: failed calls, crashes and damaged objects

ASSUME ReportsConstants ==
  /\ AllKinds # << >> /\ AllKinds[1] = "dispo"
  /\ MaxRetries \in Nat \ {0} /\ MaxData \in Nat \ {0}
  /\ MaxPresses \in Nat /\ MaxFaults \in Nat

Kinds == ToSet(AllKinds)
Digests == 1..MaxData
None == 0

VARIABLES
  wrapped,    \* the day is wrapped
  job,        \* job[k]: the row of kind k
  created,    \* the rows in the order of created_at
  staging,    \* staging[k][d]: the staged object of report d
  external,   \* external[k]: the object at the destination of kind k
  worker,     \* worker[w]: the job in hand and the place in process_job
  recon,      \* the reconciliation pass
  trigger,    \* trigger[t]: the kinds that trigger t has still to enqueue
  reacted,    \* the saga has passed the wrap event
  presses, faults

vars == <<wrapped, job, created, staging, external, worker, recon, trigger,
          reacted, presses, faults>>

Triggers == {"wrapped", "schedule", "manual"}

NoJob == [status |-> "none", handle |-> None, digest |-> None, etag |-> None, retries |-> 0]

NewJob == [NoJob EXCEPT !.status = "pending"]

Idle == [pc |-> "idle", job |-> "none", digest |-> None, bytes |-> "none"]

Resting == [pc |-> "idle", todo |-> {}, job |-> "none"]

NoReport == [digest |-> None, bytes |-> "none"]

Init ==
  /\ wrapped = FALSE
  /\ job = [k \in Kinds |-> NoJob] /\ created = << >>
  /\ staging = [k \in Kinds |-> [d \in Digests |-> "none"]]
  /\ external = [k \in Kinds |-> NoReport]
  /\ worker = [w \in Workers |-> Idle]
  /\ recon = Resting
  /\ trigger = [t \in Triggers |-> {}]
  /\ reacted = FALSE /\ presses = 0 /\ faults = 0

(* Faults are counted. *)
Fault == faults < MaxFaults /\ faults' = faults + 1
NoFault == faults' = faults

-----------------------------------------------------------------------------
(* The day *)

Wrap ==
  /\ ~wrapped /\ wrapped' = TRUE
  /\ UNCHANGED <<job, created, staging, external, worker, recon, trigger, reacted,
                 presses, faults>>

-----------------------------------------------------------------------------
(* Triggers.  Each enqueues every kind in turn.  ON CONFLICT DO NOTHING: an *)
(* insert that would meet the row of its key changes nothing and is left    *)
(* out.                                                                     *)

Missing == {k \in Kinds : job[k].status = "none"}

(* The kinds come in the order of ALL_KINDS. *)
IsNext(k, kinds) ==
  \E i \in DOMAIN AllKinds : AllKinds[i] = k /\ \A j \in 1..(i - 1) : AllKinds[j] \notin kinds

(* ReportArchivalOnWrapSaga; the event counts as handled whatever happens.  *)
SagaReacts ==
  /\ wrapped /\ ~reacted /\ reacted' = TRUE
  /\ trigger' = [trigger EXCEPT !["wrapped"] = Missing]
  /\ UNCHANGED presses

(* run_schedule_once: days without a succeeded dispo job; the day is not    *)
(* put away (archived) meanwhile.                                           *)
Overdue == wrapped /\ job["dispo"].status # "succeeded"

ScheduleTicks ==
  /\ trigger["schedule"] = {} /\ Overdue
  /\ trigger' = [trigger EXCEPT !["schedule"] = Missing]
  /\ UNCHANGED <<reacted, presses>>

ManualPress ==
  /\ trigger["manual"] = {} /\ presses < MaxPresses
  /\ presses' = presses + 1
  /\ trigger' = [trigger EXCEPT !["manual"] = Missing]
  /\ UNCHANGED reacted

TriggerFires ==
  /\ SagaReacts \/ ScheduleTicks \/ ManualPress
  /\ UNCHANGED <<wrapped, job, created, staging, external, worker, recon, faults>>

(* A failed insert is passed over; the manual request ends with it. *)
Enqueue(t) ==
  /\ \E k \in trigger[t] :
       /\ IsNext(k, trigger[t])
       /\ \/ /\ job' = [job EXCEPT ![k] = NewJob] /\ created' = Append(created, k)
             /\ trigger' = [u \in Triggers |-> trigger[u] \ {k}]
             /\ NoFault
          \/ /\ Fault
             /\ trigger' = [trigger EXCEPT ![t] = IF t = "manual" THEN {} ELSE @ \ {k}]
             /\ UNCHANGED <<job, created>>
  /\ UNCHANGED <<wrapped, staging, external, worker, recon, reacted, presses>>

-----------------------------------------------------------------------------
(* Queue: what the statements make of a row *)

(* Mutant: an upload that was under way is not taken up again. *)
RunnableNotUploading(r) == r.status \in {"pending", "failed", "staged"}

(* A failed row is due after a backoff, of which all is known is that it    *)
(* ends: it is drawn between nothing and a cap.                             *)
Runnable(r) == r.status \in {"pending", "failed", "staged", "uploading"}

Claimed(r) == [r EXCEPT !.status = "claimed"]

MarkedStaged(r, d) == [r EXCEPT !.status = "staged", !.handle = d, !.digest = d]

MarkedUploading(r) == [r EXCEPT !.status = "uploading"]

MarkedSucceeded(r, d) == [r EXCEPT !.status = "succeeded", !.etag = d]

MarkedFailure(r) ==
  LET dead == r.retries + 1 >= MaxRetries
  IN  [r EXCEPT !.status = IF dead THEN "dead_letter" ELSE "failed",
                !.retries = @ + 1]

MarkedTerminal(r) == [r EXCEPT !.status = "dead_letter"]

Cleared(r) == [r EXCEPT !.handle = None]

(* Mutant: whatever the row has become since it was listed. *)
ReleasedAnyway(r) ==
  [r EXCEPT !.status = IF r.handle # None THEN "staged" ELSE "pending"]

Released(r) ==
  IF r.status # "claimed" THEN r
  ELSE [r EXCEPT !.status = IF r.handle # None THEN "staged" ELSE "pending"]

-----------------------------------------------------------------------------
(* Worker.  A step is one call; a call that fails is a fault. *)

At(w, pc) == worker[w].pc = pc

Goes(w, pc) == worker' = [worker EXCEPT ![w].pc = pc]

GivesUp(w) == worker' = [worker EXCEPT ![w] = Idle]

(* A statement on the row of the job in hand that worked. *)
Writes(w, row) == job' = [job EXCEPT ![worker[w].job] = row] /\ NoFault

(* A failure is recorded, or that fails too and the row stays as it is. *)
Records(w, row) ==
  \/ job' = [job EXCEPT ![worker[w].job] = row]
  \/ UNCHANGED job

Row(w) == job[worker[w].job]

Object(w) == staging[worker[w].job][worker[w].digest]

StagedPut(k, d) == [staging EXCEPT ![k][d] = "intact"]

(* Success too if there is nothing to delete. *)
StagedDelete(k, d) ==
  [staging EXCEPT ![k] = [x \in Digests |-> IF x = d THEN "none" ELSE @[x]]]

(* A fetch fails, or there is nothing to fetch. *)
Fails(w) == IF Object(w) = "none" THEN NoFault ELSE Fault

(* The bytes do not match the digest. *)
Mismatch(w) ==
  /\ Object(w) = "damaged" /\ GivesUp(w)
  /\ Writes(w, MarkedTerminal(Row(w))) \/ (Fault /\ UNCHANGED job)

(* claim_next: the oldest that is due. *)
Claim(w) ==
  /\ At(w, "idle")
  /\ \E i \in DOMAIN created :
       LET k == created[i]
           reuse == job[k].handle # None /\ job[k].digest # None
       IN  /\ Runnable(job[k])
           /\ \A j \in 1..(i - 1) : Runnable(job[created[j]]) => job[created[j]].status = "failed"
           /\ job' = [job EXCEPT ![k] = Claimed(@)]
           /\ worker' = [worker EXCEPT ![w] =
                [Idle EXCEPT !.job = k, !.pc = IF reuse THEN "verify" ELSE "load",
                             !.digest = job[k].handle]]
  /\ NoFault
  /\ UNCHANGED <<staging, external>>

(* Staged before: its digest must match.  A fetch that fails records        *)
(* nothing, the row stays claimed.                                          *)
Verify(w) ==
  /\ At(w, "verify")
  /\ \/ Fails(w) /\ GivesUp(w) /\ UNCHANGED job
     \/ Mismatch(w)
     \/ Object(w) = "intact" /\ Goes(w, "mark_uploading") /\ NoFault /\ UNCHANGED job
  /\ UNCHANGED <<staging, external>>

(* The day is edited at any time: the report is one that lies in staging    *)
(* from an earlier attempt, or another.                                     *)
Load(w) ==
  /\ At(w, "load")
  /\ \/ /\ \E d \in {x \in Digests : x > 1 => staging[worker[w].job][x - 1] # "none"} :
             worker' = [worker EXCEPT ![w].pc = "render", ![w].digest = d]
        /\ NoFault /\ UNCHANGED job
     \/ Fault /\ GivesUp(w) /\ Records(w, MarkedTerminal(Row(w)))
  /\ UNCHANGED <<staging, external>>

(* A failed rendering is terminal; a put that is reported as failed records  *)
(* nothing and may have arrived.                                            *)
RenderAndPut(w) ==
  /\ At(w, "render")
  /\ \/ /\ staging' = StagedPut(worker[w].job, worker[w].digest)
        /\ Goes(w, "mark_staged") /\ NoFault /\ UNCHANGED job
     \/ /\ Fault /\ GivesUp(w)
        /\ \/ Records(w, MarkedTerminal(Row(w))) /\ UNCHANGED staging
           \/ staging' = StagedPut(worker[w].job, worker[w].digest) /\ UNCHANGED job
  /\ UNCHANGED external

MarkStaged(w) ==
  /\ At(w, "mark_staged")
  /\ \/ Goes(w, "mark_uploading") /\ Writes(w, MarkedStaged(Row(w), worker[w].digest))
     \/ Fault /\ GivesUp(w) /\ UNCHANGED job
  /\ UNCHANGED <<staging, external>>

MarkUploading(w) ==
  /\ At(w, "mark_uploading")
  /\ \/ Goes(w, "fetch") /\ Writes(w, MarkedUploading(Row(w)))
     \/ Fault /\ GivesUp(w) /\ UNCHANGED job
  /\ UNCHANGED <<staging, external>>

(* The bytes that are uploaded are fetched and verified once more. *)
Fetch(w) ==
  /\ At(w, "fetch")
  /\ \/ /\ Object(w) = "intact"
        /\ worker' = [worker EXCEPT ![w].pc = "upload", ![w].bytes = Object(w)]
        /\ NoFault /\ UNCHANGED job
     \/ Mismatch(w)
     \/ Fails(w) /\ GivesUp(w) /\ Records(w, MarkedFailure(Row(w)))
  /\ UNCHANGED <<staging, external>>

(* An upload that is reported as failed may have arrived. *)
Upload(w) ==
  LET sent == [external EXCEPT ![worker[w].job] =
                 [digest |-> worker[w].digest, bytes |-> worker[w].bytes]]
  IN  /\ At(w, "upload")
      /\ \/ external' = sent /\ Goes(w, "mark_succeeded") /\ NoFault /\ UNCHANGED job
         \/ /\ Fault /\ GivesUp(w) /\ Records(w, MarkedFailure(Row(w)))
            /\ external' = sent \/ UNCHANGED external
      /\ UNCHANGED staging

MarkSucceeded(w) ==
  /\ At(w, "mark_succeeded")
  /\ \/ Goes(w, "delete") /\ Writes(w, MarkedSucceeded(Row(w), worker[w].digest))
     \/ Fault /\ GivesUp(w) /\ UNCHANGED job
  /\ UNCHANGED <<staging, external>>

(* retain_staging_after_success is off, as it is by default. *)
DeleteStaged(w) ==
  /\ At(w, "delete")
  /\ \/ /\ staging' = StagedDelete(worker[w].job, worker[w].digest)
        /\ Goes(w, "clear") /\ NoFault
     \/ Fault /\ GivesUp(w) /\ UNCHANGED staging
  /\ UNCHANGED <<job, external>>

ClearHandle(w) ==
  /\ At(w, "clear") /\ GivesUp(w)
  /\ Writes(w, Cleared(Row(w))) \/ (Fault /\ UNCHANGED job)
  /\ UNCHANGED <<staging, external>>

WorkerStep(w) ==
  /\ \/ Claim(w) \/ Verify(w) \/ Load(w) \/ RenderAndPut(w) \/ MarkStaged(w)
     \/ MarkUploading(w) \/ Fetch(w) \/ Upload(w) \/ MarkSucceeded(w)
     \/ DeleteStaged(w) \/ ClearHandle(w)
  /\ UNCHANGED <<wrapped, created, recon, trigger, reacted, presses>>

-----------------------------------------------------------------------------
(* Reconciliation: the stale claims, then the staged objects of jobs that   *)
(* succeeded; each list is read once and worked off.  A list that is empty  *)
(* is no step.                                                              *)

(* Any claim may be older than claim_stale_after, that of a worker that is  *)
(* still at it too.                                                         *)
StaleClaims == (SUBSET {k \in Kinds : job[k].status = "claimed"}) \ {{}}

(* Mutant: rows with a handle, whatever their status. *)
RetentionCandidatesAny == {k \in Kinds : job[k].handle # None}

RetentionCandidates == {k \in Kinds : job[k].status = "succeeded" /\ job[k].handle # None}

ListStaleClaims ==
  /\ recon.pc = "idle"
  /\ \E stale \in StaleClaims : recon' = [recon EXCEPT !.pc = "release", !.todo = stale]
  /\ NoFault /\ UNCHANGED <<job, staging>>

ReleaseStaleClaim ==
  /\ recon.pc = "release"
  /\ \E k \in recon.todo :
       /\ recon' = [recon EXCEPT !.todo = @ \ {k}]
       /\ \/ job' = [job EXCEPT ![k] = Released(@)] /\ NoFault
          \/ Fault /\ UNCHANGED job
  /\ UNCHANGED staging

ListSucceeded ==
  /\ recon.pc \in {"idle", "release"} /\ recon.todo = {} /\ RetentionCandidates # {}
  /\ recon' = [recon EXCEPT !.pc = "retain", !.todo = RetentionCandidates]
  /\ NoFault /\ UNCHANGED <<job, staging>>

(* The handle is the one that was listed: of a row that succeeded it does   *)
(* not change but to be cleared, after the same object was deleted.         *)
DeleteRetained ==
  /\ recon.pc = "retain"
  /\ \E k \in recon.todo :
       \/ /\ recon' = [recon EXCEPT !.pc = "clear", !.job = k, !.todo = @ \ {k}]
          /\ staging' = StagedDelete(k, job[k].handle)
          /\ NoFault
       \/ Fault /\ recon' = [recon EXCEPT !.todo = @ \ {k}] /\ UNCHANGED staging
  /\ UNCHANGED job

ClearRetained ==
  /\ recon.pc = "clear"
  /\ recon' = [recon EXCEPT !.pc = "retain", !.job = "none"]
  /\ \/ job' = [job EXCEPT ![recon.job] = Cleared(@)] /\ NoFault
     \/ Fault /\ UNCHANGED job
  /\ UNCHANGED staging

ReconRests ==
  /\ recon.pc \in {"release", "retain"} /\ recon.todo = {}
  /\ recon.pc = "release" => RetentionCandidates = {}
  /\ recon' = Resting
  /\ NoFault /\ UNCHANGED <<job, staging>>

ReconStep ==
  /\ \/ ListStaleClaims \/ ReleaseStaleClaim \/ ListSucceeded \/ DeleteRetained
     \/ ClearRetained \/ ReconRests
  /\ UNCHANGED <<wrapped, created, external, worker, trigger, reacted, presses>>

-----------------------------------------------------------------------------
(* Faults that are not a failed call *)

(* A staged object is damaged where it lies. *)
Damage ==
  /\ Fault
  /\ \E k \in Kinds, d \in Digests :
       /\ staging[k][d] = "intact"
       /\ staging' = [staging EXCEPT ![k][d] = "damaged"]
  /\ UNCHANGED <<wrapped, job, created, external, worker, recon, trigger, reacted, presses>>

(* The process dies.  The saga reads the stream from the start again. *)
Crash ==
  /\ Fault
  /\ worker' = [w \in Workers |-> Idle] /\ recon' = Resting
  /\ trigger' = [t \in Triggers |-> {}] /\ reacted' = FALSE
  /\ UNCHANGED <<wrapped, job, created, staging, external, presses>>

Next ==
  \/ Wrap \/ TriggerFires \/ ReconStep \/ Damage \/ Crash
  \/ \E t \in Triggers : Enqueue(t)
  \/ \E w \in Workers : WorkerStep(w)

Spec == Init /\ [][Next]_vars

(* The loops of the process run on and time passes. *)
FairSpec ==
  /\ Spec
  /\ WF_vars(SagaReacts /\ TriggerFires) /\ WF_vars(ScheduleTicks /\ TriggerFires)
  /\ \A t \in Triggers : WF_vars(Enqueue(t))
  /\ \A w \in Workers : WF_vars(WorkerStep(w))
  /\ WF_vars(ReconStep)

-----------------------------------------------------------------------------
(* Properties *)

(* The only copy is never given away: as long as a job that has recorded a  *)
(* staged report has not succeeded the object is there, and a job that has  *)
(* succeeded has its report at the destination, intact and the one it says  *)
(* it is, whatever failed, crashed or was cleaned up in between.            *)
RecordedReportExists ==
  \A k \in Kinds :
    LET r == job[k]
    IN  /\ r.handle # None /\ r.status # "succeeded" => staging[k][r.handle] # "none"
        /\ r.status = "succeeded" => external[k] = [digest |-> r.etag, bytes |-> "intact"]

(* What a job has come to stands: it is rendered once, however often the    *)
(* upload is tried, and neither a late release of its claim nor a new       *)
(* trigger takes it back from where it ended.                               *)
OutcomeStands ==
  [][\A k \in Kinds :
       /\ job[k].digest # None => job'[k].digest = job[k].digest
       /\ job[k].status \in {"succeeded", "dead_letter"} => job'[k].status = job[k].status]_vars

Settled(k) == job[k].status = "dead_letter" \/ (job[k].status = "succeeded" /\ job[k].handle = None)

(* Every job that is enqueued ends, archived with its staged object         *)
(* reclaimed or dead-lettered for the operator, and the dispo of a wrapped  *)
(* day, which the schedule looks at, is enqueued in the end.                *)
ReportsSettle ==
  /\ \A k \in Kinds : job[k].status # "none" ~> Settled(k)
  /\ wrapped ~> Settled("dispo")
=============================================================================
