--------------------------- MODULE AiImportQueue ---------------------------
(***************************************************************************)
(* The AI import job queue, its workers and their claim leases.            *)
(*                                                                         *)
(* A job row is claimed by one of several worker loops, which loads the    *)
(* source, resolves the user's configuration, acquires capacity, runs the  *)
(* extraction and completes the row.  A claim is a lease: once it lapses,  *)
(* another worker may claim the row while the first one still runs, and    *)
(* only the owner fence (status = 'running' AND worker_id = me) on every   *)
(* write keeps the displaced worker's writes out.                          *)
(*                                                                         *)
(* The script and the schedule queue share no rows; an instance is one of  *)
(* them.  One tick is one renewal interval of the heartbeat, so a lease is *)
(* RenewalsPerLease ticks.  Every claim of a job has a number, recorded    *)
(* with the progress, the telemetry and the preview written under it; the  *)
(* code stores no such number, the properties are about it.                *)
(***************************************************************************)
EXTENDS Integers

CONSTANTS
  Workers,           \* worker ids, each the id of one worker loop
  Documents,         \* (user_id, dedup_key) pairs
  None,
  MaxJobs,           \* bound: jobs ever enqueued
  MaxRetries,        \* max_retries of a job row
  RenewalsPerLease,  \* RENEWALS_PER_LEASE
  BackoffCap,        \* ticks in the longest retry backoff
  MaxFaults          \* bound: crashes, aborted runs, failed renewals, leases
                     \* a live worker lets lapse, saturated acquisitions

ASSUME QueueConstants ==
  /\ None \notin Workers /\ None \notin Documents
  /\ MaxJobs \in Nat /\ MaxFaults \in Nat /\ BackoffCap \in Nat
  /\ MaxRetries \in Nat \ {0}
  /\ RenewalsPerLease \in Nat /\ RenewalsPerLease >= 2

VARIABLES
  job,       \* job[j]: the row of the j-th enqueued job
  claims,    \* claims[j]: how often job j has been claimed
  preview,   \* preview[j]: the claim that stored j's preview object, 0 if none
  enqueued,  \* number of jobs enqueued; created_at follows the job number
  worker,    \* worker[w]: the local state of worker loop w
  faults     \* number of faults so far

vars == <<job, claims, preview, enqueued, worker, faults>>

-----------------------------------------------------------------------------
(* Job rows *)

Jobs == 1..MaxJobs

Terminal == {"succeeded", "dead_letter", "payload_unavailable"}

Statuses == {"absent", "pending", "running", "failed", "deleted"} \cup Terminal

LeaseTicks == RenewalsPerLease

(* decision: decision_telemetry, the live counts of the run.  usage: what   *)
(* else record_worker_telemetry writes (provider, tokens, cost, scenes),    *)
(* which no claim and no failure clears.                                    *)
Rows == [status : Statuses, doc : Documents \cup {None}, owner : Workers \cup {None},
         lease : 0..LeaseTicks, retries : 0..MaxRetries, backoff : 0..BackoffCap,
         progress : Nat, decision : Nat, usage : Nat]

AbsentRow == [status |-> "absent", doc |-> None, owner |-> None, lease |-> 0,
              retries |-> 0, backoff |-> 0, progress |-> 0, decision |-> 0, usage |-> 0]

(* A row that exists: deleted rows free their document. *)
Exists(j) == job[j].status \notin {"absent", "deleted"}

(* Mutant: a running row is never claimed again. *)
RunnableNoRecovery(j) == \/ job[j].status = "pending"
                         \/ job[j].status = "failed" /\ job[j].backoff = 0

(* Mutant: only success is final. *)
RunnableDeadLetter(j) == \/ job[j].status \in {"pending", "dead_letter"}
                         \/ job[j].status = "failed" /\ job[j].backoff = 0
                         \/ job[j].status = "running" /\ job[j].lease = 0

(* The WHERE clause of claim_next and its variants. *)
Runnable(j) == \/ job[j].status = "pending"
               \/ job[j].status = "failed" /\ job[j].backoff = 0
               \/ job[j].status = "running" /\ job[j].lease = 0

(* Mutant: the claim leaves the decisions of the previous attempt. *)
ClaimedRowKeepsDecision(r, w) ==
  [r EXCEPT !.status = "running", !.owner = w, !.lease = LeaseTicks, !.progress = 0]

ClaimedRow(r, w) == [r EXCEPT !.status = "running", !.owner = w, !.lease = LeaseTicks,
                              !.progress = 0, !.decision = 0]

(* Exponential backoff of the r-th retry, one tick at first. *)
Backoff(r) == IF 2^r \in 0..BackoffCap THEN 2^r ELSE BackoffCap

(* Mutant: the budget is compared before the attempt is charged. *)
FailedRowOffByOne(r, retryable) ==
  LET again == retryable /\ r.retries < MaxRetries
  IN [r EXCEPT !.status = IF again THEN "failed" ELSE "dead_letter",
               !.owner = None, !.lease = 0, !.retries = @ + 1,
               !.backoff = IF again THEN Backoff(r.retries) ELSE 0,
               !.progress = IF again THEN @ ELSE 0, !.decision = 0]

(* mark_failed: the attempt is charged; the row backs off while the error   *)
(* is retryable and the budget lasts, and is dead-lettered otherwise.       *)
FailedRow(r, retryable) ==
  LET again == retryable /\ r.retries + 1 < MaxRetries
  IN [r EXCEPT !.status = IF again THEN "failed" ELSE "dead_letter",
               !.owner = None, !.lease = 0, !.retries = @ + 1,
               !.backoff = IF again THEN Backoff(r.retries) ELSE 0,
               !.progress = IF again THEN @ ELSE 0,
               !.decision = 0]

UnavailableRow(r) == [r EXCEPT !.status = "payload_unavailable", !.owner = None,
                               !.lease = 0, !.backoff = 0, !.progress = 0,
                               !.decision = 0]

SucceededRow(r) == [r EXCEPT !.status = "succeeded", !.owner = None, !.lease = 0,
                             !.backoff = 0, !.progress = 0]

MeteredRow(r, n) == [r EXCEPT !.decision = n, !.usage = n]

ReleasedRow(r) == [r EXCEPT !.status = "pending", !.owner = None, !.lease = 0]

-----------------------------------------------------------------------------
(* Worker loops *)

Phases == {"idle", "loading", "resolving", "processing", "telemetry",
           "completing", "finalizing", "dead"}

(* beat: the lease heartbeat, with a renewal due on every tick.  missed:    *)
(* renewals missed in a row since the lease was known to be fresh, which a  *)
(* heartbeat started in mid-claim does not know before its first success.   *)
WorkerStates == [phase : Phases, job : Jobs \cup {0}, claim : Nat,
                 beat : {"off", "on", "due", "lost"}, missed : 0..RenewalsPerLease]

IdleWorker == [phase |-> "idle", job |-> 0, claim |-> 0, beat |-> "off", missed |-> 0]

Working(w) == worker[w].phase \notin {"idle", "dead"}

(* Mutant: the fence forgets the worker id. *)
OwnsByStatus(w) == /\ worker[w].job \in Jobs
                   /\ job[worker[w].job].status = "running"

(* The owner fence of every write of worker w. *)
Owns(w) == /\ worker[w].job \in Jobs
           /\ job[worker[w].job].status = "running"
           /\ job[worker[w].job].owner = w

(* A fenced write of a new row: it changes nothing when the fence fails. *)
Write(w, row) == job' = IF Owns(w) THEN [job EXCEPT ![worker[w].job] = row] ELSE job

Row(w) == job[worker[w].job]

EndRun(w) == worker' = [worker EXCEPT ![w] = IdleWorker]

Fault == faults < MaxFaults /\ faults' = faults + 1

Init == /\ job = [j \in Jobs |-> AbsentRow]
        /\ claims = [j \in Jobs |-> 0]
        /\ preview = [j \in Jobs |-> 0]
        /\ enqueued = 0
        /\ worker = [w \in Workers |-> IdleWorker]
        /\ faults = 0

(* A document with a row already is answered with that row, unchanged. *)
Enqueue(d) ==
  /\ enqueued < MaxJobs
  /\ \A j \in Jobs : Exists(j) => job[j].doc # d
  /\ job' = [job EXCEPT ![enqueued + 1] = [AbsentRow EXCEPT !.status = "pending", !.doc = d]]
  /\ enqueued' = enqueued + 1
  /\ UNCHANGED <<claims, preview, worker, faults>>

(* The oldest runnable row.  A row that SKIP LOCKED passes over is being    *)
(* claimed or renewed, so the skip equals that statement's going first.     *)
Claim(w) ==
  /\ worker[w].phase = "idle"
  /\ \E j \in Jobs :
       /\ Runnable(j)
       /\ \A i \in Jobs : Runnable(i) => j <= i
       /\ job' = [job EXCEPT ![j] = ClaimedRow(@, w)]
       /\ claims' = [claims EXCEPT ![j] = @ + 1]
       /\ worker' = [worker EXCEPT ![w] = [phase |-> "loading", job |-> j,
                                           claim |-> claims[j] + 1,
                                           beat |-> "on", missed |-> 0]]
  /\ UNCHANGED <<preview, enqueued, faults>>

-----------------------------------------------------------------------------
(* The heartbeat: mark_running once per interval *)

(* Mutant: mark_running touches the row without extending the lease. *)
RenewWithoutLease(w) ==
  /\ worker[w].beat = "due"
  /\ Owns(w)
  /\ worker' = [worker EXCEPT ![w].beat = "on", ![w].missed = 0]
  /\ UNCHANGED <<job, claims, preview, enqueued, faults>>

Renew(w) ==
  /\ worker[w].beat = "due"
  /\ Owns(w)
  /\ job' = [job EXCEPT ![worker[w].job].lease = LeaseTicks]
  /\ worker' = [worker EXCEPT ![w].beat = "on", ![w].missed = 0]
  /\ UNCHANGED <<claims, preview, enqueued, faults>>

RenewConflict(w) ==
  /\ worker[w].beat = "due"
  /\ ~Owns(w)
  /\ worker' = [worker EXCEPT ![w].beat = "lost"]
  /\ UNCHANGED <<job, claims, preview, enqueued, faults>>

(* A transient database error is retried on the next interval. *)
RenewFault(w) ==
  /\ worker[w].beat = "due"
  /\ Fault
  /\ worker' = [worker EXCEPT ![w].beat = "on",
                              ![w].missed = IF @ < RenewalsPerLease THEN @ + 1 ELSE @]
  /\ UNCHANGED <<job, claims, preview, enqueued>>

-----------------------------------------------------------------------------
(* One tick of a worker loop *)

(* fail_payload_load: the payload is gone, or the load failed. *)
LoadFails(w) ==
  /\ worker[w].phase = "loading"
  /\ \/ Write(w, UnavailableRow(Row(w)))
     \/ \E retryable \in BOOLEAN : Write(w, FailedRow(Row(w), retryable))
  /\ EndRun(w)
  /\ UNCHANGED <<claims, preview, enqueued, faults>>

(* The source is loaded: stop when the heartbeat lost the claim. *)
Loaded(w) ==
  /\ worker[w].phase = "loading"
  /\ worker' = [worker EXCEPT ![w] = IF @.beat = "lost" THEN IdleWorker
                                     ELSE [@ EXCEPT !.phase = "resolving", !.beat = "off",
                                                    !.missed = 0]]
  /\ UNCHANGED <<job, claims, preview, enqueued, faults>>

(* No configuration, no credential, no client. *)
ResolveFails(w) ==
  /\ worker[w].phase = "resolving"
  /\ \E retryable \in BOOLEAN : Write(w, FailedRow(Row(w), retryable))
  /\ EndRun(w)
  /\ UNCHANGED <<claims, preview, enqueued, faults>>

(* No capacity: the claim is handed back and no retry charged. *)
Saturated(w) ==
  /\ worker[w].phase = "resolving"
  /\ Fault
  /\ Write(w, ReleasedRow(Row(w)))
  /\ EndRun(w)
  /\ UNCHANGED <<claims, preview, enqueued>>

(* Processing runs under a heartbeat, except for a native CSV schedule. *)
StartProcess(w) ==
  /\ worker[w].phase = "resolving"
  /\ \E beat \in {"off", "on"} :
       worker' = [worker EXCEPT ![w].phase = "processing", ![w].beat = beat,
                                ![w].missed = RenewalsPerLease]
  /\ UNCHANGED <<job, claims, preview, enqueued, faults>>

(* publish_progress: a rejected frame ends the run. *)
Publish(w) ==
  /\ worker[w].phase = "processing"
  /\ Write(w, [Row(w) EXCEPT !.progress = worker[w].claim])
  /\ IF Owns(w) THEN UNCHANGED worker ELSE EndRun(w)
  /\ UNCHANGED <<claims, preview, enqueued, faults>>

(* claim_lost, looked at before every call of the model. *)
ClaimLost(w) ==
  /\ worker[w].phase = "processing"
  /\ worker[w].beat = "lost"
  /\ EndRun(w)
  /\ UNCHANGED <<job, claims, preview, enqueued, faults>>

(* The script worker charges a failed model call itself.  A permanent error *)
(* then reaches finalize_job_result, which writes once more.                *)
ProcessFails(w) ==
  /\ worker[w].phase = "processing"
  /\ \E retryable \in BOOLEAN :
       /\ Write(w, FailedRow(Row(w), retryable))
       /\ IF Owns(w) /\ ~retryable
          THEN worker' = [worker EXCEPT ![w].phase = "finalizing", ![w].beat = "off"]
          ELSE EndRun(w)
  /\ UNCHANGED <<claims, preview, enqueued, faults>>

(* A permanent error of a step that writes nothing itself: the extraction,  *)
(* the preview's encoding, or telemetry that does not fit its columns.      *)
ProcessRejects(w) ==
  /\ worker[w].phase \in {"processing", "telemetry"}
  /\ worker' = [worker EXCEPT ![w].phase = "finalizing", ![w].beat = "off"]
  /\ UNCHANGED <<job, claims, preview, enqueued, faults>>

(* finalize_job_result for a permanent error; a Conflict is not an error. *)
Finalize(w) ==
  /\ worker[w].phase = "finalizing"
  /\ Write(w, FailedRow(Row(w), FALSE))
  /\ EndRun(w)
  /\ UNCHANGED <<claims, preview, enqueued, faults>>

(* The preview object is stored without a fence, under the job's own key. *)
PutPreview(w) ==
  /\ worker[w].phase = "processing"
  /\ preview' = [preview EXCEPT ![worker[w].job] = worker[w].claim]
  /\ worker' = [worker EXCEPT ![w].phase = "telemetry", ![w].beat = "off"]
  /\ UNCHANGED <<job, claims, enqueued, faults>>

RecordTelemetry(w) ==
  /\ worker[w].phase = "telemetry"
  /\ Write(w, MeteredRow(Row(w), worker[w].claim))
  /\ IF Owns(w) THEN worker' = [worker EXCEPT ![w].phase = "completing"] ELSE EndRun(w)
  /\ UNCHANGED <<claims, preview, enqueued, faults>>

Succeed(w) ==
  /\ worker[w].phase = "completing"
  /\ Write(w, SucceededRow(Row(w)))
  /\ EndRun(w)
  /\ UNCHANGED <<claims, preview, enqueued, faults>>

(* A transient error or a lost permit ends the run and leaves the row to    *)
(* the lease; the heartbeat is dropped with the run.                        *)
Abort(w) ==
  /\ Working(w)
  /\ Fault
  /\ EndRun(w)
  /\ UNCHANGED <<job, claims, preview, enqueued>>

(* The process dies; some other worker loop lives on. *)
Crash(w) ==
  /\ worker[w].phase # "dead"
  /\ \E v \in Workers \ {w} : worker[v].phase # "dead"
  /\ Fault
  /\ worker' = [worker EXCEPT ![w] = [IdleWorker EXCEPT !.phase = "dead"]]
  /\ UNCHANGED <<job, claims, preview, enqueued>>

DeleteTerminal(j) ==
  /\ job[j].status \in Terminal
  /\ job' = [job EXCEPT ![j].status = "deleted"]
  /\ UNCHANGED <<claims, preview, enqueued, worker, faults>>

-----------------------------------------------------------------------------
(* Time *)

(* Leases that a worker at work on the claim is about to let lapse. *)
Lapsing == {w \in Workers : Working(w) /\ Owns(w) /\ Row(w).lease = 1}

(* A heartbeat acts in every interval. *)
Tick ==
  /\ \A w \in Workers : worker[w].beat # "due"
  /\ IF Lapsing = {} THEN UNCHANGED faults ELSE Fault
  /\ job' = [j \in Jobs |-> [job[j] EXCEPT !.lease = IF @ > 0 THEN @ - 1 ELSE 0,
                                           !.backoff = IF @ > 0 THEN @ - 1 ELSE 0]]
  /\ worker' = [w \in Workers |-> [worker[w] EXCEPT !.beat = IF @ = "on" THEN "due" ELSE @]]
  /\ UNCHANGED <<claims, preview, enqueued>>

RunStep(w) == \/ Claim(w) \/ LoadFails(w) \/ Loaded(w) \/ ResolveFails(w) \/ StartProcess(w)
              \/ Publish(w) \/ ClaimLost(w) \/ ProcessFails(w) \/ ProcessRejects(w)
              \/ Finalize(w) \/ PutPreview(w) \/ RecordTelemetry(w) \/ Succeed(w)

BeatStep(w) == Renew(w) \/ RenewConflict(w)

WorkerFault(w) == RenewFault(w) \/ Saturated(w) \/ Abort(w) \/ Crash(w)

Next == \/ \E d \in Documents : Enqueue(d)
        \/ \E w \in Workers : RunStep(w) \/ BeatStep(w) \/ WorkerFault(w)
        \/ \E j \in Jobs : DeleteTerminal(j)
        \/ Tick

Spec == Init /\ [][Next]_vars

(* A live worker loop and its heartbeat task keep stepping, and time        *)
(* passes: every load, model call and statement returns in the end.         *)
FairSpec == /\ Spec
            /\ \A w \in Workers : WF_vars(RunStep(w)) /\ WF_vars(BeatStep(w))
            /\ WF_vars(Tick)

-----------------------------------------------------------------------------
(* Properties *)

(* The variables have their types: no lease outlasts its window, no job is  *)
(* charged beyond its budget, and no back-off exceeds its cap.              *)
TypeOK == /\ job \in [Jobs -> Rows]
          /\ claims \in [Jobs -> Nat]
          /\ preview \in [Jobs -> Nat]
          /\ enqueued \in 0..MaxJobs
          /\ worker \in [Workers -> WorkerStates]
          /\ faults \in 0..MaxFaults

(* The owner fence names the claim, although it compares only worker ids    *)
(* and a worker loop keeps its id from claim to claim: a worker that passes *)
(* the fence is working under the job's latest claim.                       *)
FenceNamesTheClaim ==
  \A w \in Workers : Working(w) /\ Owns(w) => claims[worker[w].job] = worker[w].claim

(* The live fields of a row belong to the job's latest claim: the stage and *)
(* the decision counts of an earlier attempt are never shown as this        *)
(* attempt's, although a run may die between any two writes, a terminal job *)
(* shows no live stage, and a succeeded job has a preview object and the    *)
(* whole telemetry of the claim that completed it.  Nothing is said of the  *)
(* usage on any other row: no claim clears it, so a job claimed again shows *)
(* the tokens and the cost of the attempt before until its own are in.      *)
LiveFieldsAreCurrent ==
  \A j \in Jobs :
    /\ job[j].progress \in {0, claims[j]}
    /\ job[j].decision \in {0, claims[j]}
    /\ job[j].status \in Terminal => job[j].progress = 0
    /\ job[j].status = "succeeded" => /\ job[j].decision = claims[j]
                                      /\ job[j].usage = claims[j]
                                      /\ preview[j] # 0

(* The retry budget: a job that can still be claimed has an attempt left,   *)
(* and an attempt is charged at most once per claim, although a failing run *)
(* may write mark_failed twice.                                             *)
RetryBudget ==
  \A j \in Jobs :
    /\ job[j].status \in {"pending", "running", "failed"} => job[j].retries < MaxRetries
    /\ job[j].retries <= claims[j]

(* A heartbeat that has missed fewer than missable renewals in a row still  *)
(* holds the claim.                                                         *)
BeatHolds(missable) ==
  \A w \in Workers :
    worker[w].beat \in {"on", "due"} /\ worker[w].missed <= missable
      => Owns(w) /\ claims[worker[w].job] = worker[w].claim

(* One failed renewal does not cost a heartbeating worker its claim. *)
OneBlipKeepsTheClaim == BeatHolds(RenewalsPerLease - 2)

(* The lifecycle of a terminal row never changes again, whatever a          *)
(* displaced worker or a second failure report still writes; the row can    *)
(* only be deleted.  (What an apply records on it is not a lifecycle field.) *)
TerminalIsFinal ==
  [][\A j \in Jobs : job[j].status \in Terminal =>
       \/ job'[j] = job[j]
       \/ job'[j] = [job[j] EXCEPT !.status = "deleted"]]_vars

(* Every enqueued job reaches a terminal state once faults have stopped:    *)
(* no crash, lost lease or conflict leaves a row behind that nobody claims. *)
EveryJobSettles ==
  \A j \in Jobs : job[j].status = "pending" ~> job[j].status \in Terminal
=============================================================================
