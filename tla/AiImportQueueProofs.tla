------------------------ MODULE AiImportQueueProofs ------------------------
(***************************************************************************)
(* Theorems about AiImportQueue for every set of workers and documents and *)
(* every value of the bounds.  Every worker action but the claim writes at *)
(* most the row it owns, so WorkerActs proves the invariant once for all   *)
(* of them, given that the row written is a good one.                      *)
(***************************************************************************)
EXTENDS AiImportQueue, TLAPS

(* What a worker's phase says of its run: an idle or dead loop holds no     *)
(* job and no heartbeat, a running one has a job and a claim number; past   *)
(* the upload the job has a preview, and a completing owner's telemetry is  *)
(* on the row.                                                              *)
RunState(w) ==
  /\ ~Working(w) => worker[w].job = 0 /\ worker[w].beat = "off"
  /\ Working(w) => worker[w].job \in Jobs /\ worker[w].claim # 0
  /\ worker[w].phase \in {"telemetry", "completing"} => preview[worker[w].job] # 0
  /\ worker[w].phase = "completing" /\ Owns(w) => 
       Row(w).decision = worker[w].claim /\ Row(w).usage = worker[w].claim

RunStates == \A w \in Workers : RunState(w)

(* The claim under way has not been charged yet. *)
RunningUncharged ==
  \A j \in Jobs : job[j].status = "running" => job[j].retries < claims[j]

(* A row nobody works on is at rest: the rows of later jobs are empty and   *)
(* a terminal row waits for nothing.                                        *)
RestingRows ==
  \A j \in Jobs :
    /\ j > enqueued => job[j] = AbsentRow
    /\ job[j].status \in Terminal => job[j].lease = 0 /\ job[j].backoff = 0

QueueInv == /\ TypeOK /\ RunStates /\ RunningUncharged /\ RestingRows
            /\ FenceNamesTheClaim /\ LiveFieldsAreCurrent /\ RetryBudget

-----------------------------------------------------------------------------
(* Rows *)

LEMMA RowTypes ==
  ASSUME NEW r \in Rows
  PROVE  /\ r.status \in Statuses /\ r.doc \in Documents \cup {None}
         /\ r.owner \in Workers \cup {None} /\ r.lease \in 0..LeaseTicks
         /\ r.retries \in 0..MaxRetries /\ r.backoff \in 0..BackoffCap
         /\ r.progress \in Nat /\ r.decision \in Nat /\ r.usage \in Nat
BY DEF Rows

LEMMA RowWrites ==
  ASSUME NEW r \in Rows, NEW w \in Workers, NEW b \in BOOLEAN, NEW n \in Nat
  PROVE  /\ ClaimedRow(r, w) \in Rows
         /\ UnavailableRow(r) \in Rows
         /\ SucceededRow(r) \in Rows
         /\ ReleasedRow(r) \in Rows
         /\ [r EXCEPT !.progress = n] \in Rows
         /\ MeteredRow(r, n) \in Rows
         /\ [r EXCEPT !.lease = LeaseTicks] \in Rows
         /\ [r EXCEPT !.status = "deleted"] \in Rows
         /\ r.retries < MaxRetries => FailedRow(r, b) \in Rows
PROOF
<1>1. LeaseTicks \in 0..LeaseTicks /\ 0 \in 0..LeaseTicks /\ 0 \in 0..BackoffCap
      /\ 0 \in 0..MaxRetries
  BY QueueConstants DEF LeaseTicks
<1>2. \A m \in Nat : Backoff(m) \in 0..BackoffCap
  BY QueueConstants DEF Backoff
<1>3. /\ ClaimedRow(r, w) \in Rows
      /\ UnavailableRow(r) \in Rows
      /\ SucceededRow(r) \in Rows
      /\ ReleasedRow(r) \in Rows
  BY <1>1 DEF Rows, ClaimedRow, UnavailableRow, SucceededRow, ReleasedRow, Statuses, Terminal
<1>4. /\ [r EXCEPT !.progress = n] \in Rows
      /\ MeteredRow(r, n) \in Rows
      /\ [r EXCEPT !.lease = LeaseTicks] \in Rows
      /\ [r EXCEPT !.status = "deleted"] \in Rows
  BY <1>1 DEF Rows, Statuses, MeteredRow
<1>5. ASSUME r.retries < MaxRetries PROVE FailedRow(r, b) \in Rows
  <2>1. r.retries \in Nat /\ r.retries + 1 \in 0..MaxRetries
    BY <1>5, QueueConstants DEF Rows
  <2> QED
    BY <1>1, <1>2, <2>1 DEF Rows, FailedRow, Statuses, Terminal
<1> QED
  BY <1>3, <1>4, <1>5

LEMMA NewRows ==
  /\ AbsentRow \in Rows
  /\ \A d \in Documents : [AbsentRow EXCEPT !.status = "pending", !.doc = d] \in Rows
PROOF
<1>1. 0 \in 0..LeaseTicks /\ 0 \in 0..BackoffCap /\ 0 \in 0..MaxRetries
  BY QueueConstants DEF LeaseTicks
<1> QED
  BY <1>1 DEF Rows, AbsentRow, Statuses

(* What a fenced write does to every row. *)
LEMMA WriteEffect ==
  ASSUME TypeOK, NEW w \in Workers, NEW row, Write(w, row),
         Owns(w) => row \in Rows
  PROVE  /\ job' \in [Jobs -> Rows]
         /\ \A j \in Jobs : job'[j] = IF Owns(w) /\ j = worker[w].job THEN row ELSE job[j]
BY DEF TypeOK, Write, Owns

LEMMA WorkerTypes ==
  ASSUME TypeOK, NEW w \in Workers
  PROVE  /\ worker[w] \in WorkerStates
         /\ worker[w].phase \in Phases /\ worker[w].job \in Jobs \cup {0}
         /\ worker[w].claim \in Nat /\ worker[w].beat \in {"off", "on", "due", "lost"}
         /\ worker[w].missed \in 0..RenewalsPerLease
         /\ 0 \notin Jobs
BY DEF TypeOK, WorkerStates, Jobs

(* A row worker w may write while it owns the job. *)
GoodRow(w, row) ==
  LET n == claims[worker[w].job] IN
  /\ row \in Rows
  /\ row.status \in {"pending", "running", "failed"} \cup Terminal
  /\ row.status = "running" => row.owner = w /\ row.retries < n
  /\ row.progress \in {0, n} /\ row.decision \in {0, n}
  /\ row.status \in Terminal => row.progress = 0 /\ row.lease = 0 /\ row.backoff = 0
  /\ row.status = "succeeded" => row.decision = n /\ row.usage = n /\ preview[worker[w].job] # 0
  /\ row.status \in {"pending", "running", "failed"} => row.retries < MaxRetries
  /\ row.retries <= n

(* Every step of a worker that writes at most its own row, behind the       *)
(* fence, preserves the invariant.                                          *)
LEMMA WorkerActs ==
  ASSUME QueueInv, NEW w \in Workers, NEW row,
         Write(w, row), Owns(w) => GoodRow(w, row),
         claims' = claims, enqueued' = enqueued, faults' \in 0..MaxFaults,
         preview' \in [Jobs -> Nat],
         \A j \in Jobs : preview[j] # 0 => preview'[j] # 0,
         worker' \in [Workers -> WorkerStates],
         \A v \in Workers \ {w} : worker'[v] = worker[v],
         worker'[w].phase \in {"idle", "dead"}
           => worker'[w].job = 0 /\ worker'[w].beat = "off",
         worker'[w].phase \notin {"idle", "dead"}
           => Working(w) /\ worker'[w].job = worker[w].job /\ worker'[w].claim = worker[w].claim,
         worker'[w].phase \in {"telemetry", "completing"} => preview'[worker[w].job] # 0,
         worker'[w].phase = "completing" /\ Owns(w)
           => row.decision = worker[w].claim /\ row.usage = worker[w].claim
  PROVE  QueueInv'
PROOF
<1> DEFINE J == worker[w].job
<1>1. TypeOK
  BY DEF QueueInv
<1>2. /\ job' \in [Jobs -> Rows]
      /\ \A j \in Jobs : job'[j] = IF Owns(w) /\ j = worker[w].job THEN row ELSE job[j]
  BY <1>1, WriteEffect DEF GoodRow
<1>3. TypeOK'
  BY <1>1, <1>2 DEF TypeOK
<1>4. Owns(w) => J \in Jobs
  BY DEF Owns
<1>5. RunningUncharged'
  BY <1>2 DEF QueueInv, RunningUncharged, GoodRow
<1>6. LiveFieldsAreCurrent'
  <2> SUFFICES ASSUME NEW j \in Jobs
               PROVE  /\ job'[j].progress \in {0, claims'[j]}
                      /\ job'[j].decision \in {0, claims'[j]}
                      /\ job'[j].status \in Terminal => job'[j].progress = 0
                      /\ job'[j].status = "succeeded" => /\ job'[j].decision = claims'[j]
                                                         /\ job'[j].usage = claims'[j]
                                                         /\ preview'[j] # 0
    BY DEF LiveFieldsAreCurrent
  <2>1. CASE Owns(w) /\ j = J
    BY <1>2, <2>1 DEF GoodRow
  <2>2. CASE ~(Owns(w) /\ j = J)
    BY <1>2, <2>2 DEF QueueInv, LiveFieldsAreCurrent
  <2> QED
    BY <2>1, <2>2
<1>7. RetryBudget'
  BY <1>2 DEF QueueInv, RetryBudget, GoodRow
<1>8. ASSUME NEW v \in Workers, v # w
      PROVE  Owns(v)' => Owns(v) /\ job'[worker[v].job] = job[worker[v].job]
  BY <1>2, <1>8 DEF Owns, GoodRow
<1>9. Owns(w)' => Owns(w) /\ worker'[w].job = J /\ worker'[w].phase \notin {"idle", "dead"}
  <2>1. SUFFICES ASSUME Owns(w)'
                 PROVE  Owns(w) /\ worker'[w].job = J
                        /\ worker'[w].phase \notin {"idle", "dead"}
    OBVIOUS
  <2>2. worker'[w].job # 0
    BY <2>1, <1>1, WorkerTypes DEF Owns
  <2>3. worker'[w].job = J /\ worker'[w].phase \notin {"idle", "dead"}
    BY <2>2
  <2> QED
    BY <2>1, <2>3, <1>2 DEF Owns
<1>10. FenceNamesTheClaim'
  <2> SUFFICES ASSUME NEW v \in Workers, Working(v)', Owns(v)'
               PROVE  claims'[worker'[v].job] = worker'[v].claim
    BY DEF FenceNamesTheClaim
  <2>1. CASE v = w
    BY <2>1, <1>9 DEF QueueInv, FenceNamesTheClaim
  <2>2. CASE v # w
    BY <2>2, <1>8 DEF QueueInv, FenceNamesTheClaim, Working
  <2> QED
    BY <2>1, <2>2
<1>11. RunStates'
  <2> SUFFICES ASSUME NEW v \in Workers
               PROVE  RunState(v)'
    BY DEF RunStates
  <2>0. RunState(v) /\ RunState(w)
    BY DEF QueueInv, RunStates
  <2>1. CASE v = w
    <3>1. /\ ~Working(w)' => worker'[w].job = 0 /\ worker'[w].beat = "off"
          /\ Working(w)' => worker'[w].job \in Jobs /\ worker'[w].claim # 0
      BY <2>0 DEF RunState, Working
    <3>2. worker'[w].phase \in {"telemetry", "completing"} => preview'[worker'[w].job] # 0
      OBVIOUS
    <3>3. worker'[w].phase = "completing" /\ Owns(w)'
            => /\ job'[worker'[w].job].decision = worker'[w].claim
               /\ job'[worker'[w].job].usage = worker'[w].claim
      BY <1>2, <1>4, <1>9
    <3> QED
      BY <2>1, <3>1, <3>2, <3>3 DEF RunState, Row
  <2>2. CASE v # w
    <3>1. worker'[v] = worker[v]
      BY <2>2
    <3>2. worker[v].phase \in {"telemetry", "completing"} => worker[v].job \in Jobs
      BY <2>0 DEF RunState, Working
    <3> QED
      BY <2>0, <2>2, <3>1, <3>2, <1>8 DEF RunState, Row, Working
  <2> QED
    BY <2>1, <2>2
<1>12. RestingRows'
  <2> SUFFICES ASSUME NEW j \in Jobs
               PROVE  /\ j > enqueued' => job'[j] = AbsentRow
                      /\ job'[j].status \in Terminal => job'[j].lease = 0 /\ job'[j].backoff = 0
    BY DEF RestingRows
  <2>1. CASE Owns(w) /\ j = J
    <3>1. job'[j] = row /\ job[j].status = "running"
      BY <1>2, <2>1 DEF Owns
    <3>2. ~(j > enqueued)
      BY <3>1 DEF QueueInv, RestingRows, AbsentRow
    <3> QED
      BY <2>1, <3>1, <3>2 DEF GoodRow
  <2>2. CASE ~(Owns(w) /\ j = J)
    BY <1>2, <2>2 DEF QueueInv, RestingRows
  <2> QED
    BY <2>1, <2>2
<1> QED
  BY <1>3, <1>5, <1>6, <1>7, <1>10, <1>11, <1>12 DEF QueueInv

-----------------------------------------------------------------------------
(* The actions of a worker loop *)

(* The rows a worker writes are good ones. *)
LEMMA GoodRows ==
  ASSUME QueueInv, NEW w \in Workers, Working(w), Owns(w), NEW b \in BOOLEAN
  PROVE  /\ GoodRow(w, Row(w))
         /\ GoodRow(w, FailedRow(Row(w), b))
         /\ GoodRow(w, UnavailableRow(Row(w)))
         /\ GoodRow(w, ReleasedRow(Row(w)))
         /\ GoodRow(w, [Row(w) EXCEPT !.progress = worker[w].claim])
         /\ GoodRow(w, MeteredRow(Row(w), worker[w].claim))
         /\ GoodRow(w, [Row(w) EXCEPT !.lease = LeaseTicks])
         /\ worker[w].phase = "completing" => GoodRow(w, SucceededRow(Row(w)))
PROOF
<1> DEFINE n == claims[worker[w].job]
<1>1. SUFFICES ASSUME NEW r, r = Row(w)
               PROVE  /\ GoodRow(w, r)
                      /\ GoodRow(w, FailedRow(r, b))
                      /\ GoodRow(w, UnavailableRow(r))
                      /\ GoodRow(w, ReleasedRow(r))
                      /\ GoodRow(w, [r EXCEPT !.progress = worker[w].claim])
                      /\ GoodRow(w, MeteredRow(r, worker[w].claim))
                      /\ GoodRow(w, [r EXCEPT !.lease = LeaseTicks])
                      /\ worker[w].phase = "completing" => GoodRow(w, SucceededRow(r))
  OBVIOUS
<1>2. TypeOK /\ worker[w].job \in Jobs /\ r = job[worker[w].job]
  BY <1>1 DEF QueueInv, Owns, Row
<1>3. r \in Rows /\ n \in Nat
  BY <1>2 DEF TypeOK
<1>4. n = worker[w].claim /\ worker[w].claim \in Nat
  BY WorkerTypes, <1>2 DEF QueueInv, FenceNamesTheClaim
<1>5. r.status = "running" /\ r.owner = w
  BY <1>2 DEF Owns
<1>6. r.retries < n /\ r.retries < MaxRetries /\ r.retries \in Nat
  BY <1>2, <1>3, <1>5, RowTypes DEF QueueInv, RunningUncharged, RetryBudget
<1>7. r.progress \in {0, n} /\ r.decision \in {0, n}
  BY <1>2 DEF QueueInv, LiveFieldsAreCurrent
<1>8. r.retries <= n /\ r.retries + 1 <= n
  BY <1>3, <1>6
<1>9. worker[w].phase = "completing" => r.decision = n /\ r.usage = n /\ preview[worker[w].job] # 0
  BY <1>1, <1>4 DEF QueueInv, RunStates, RunState
<1>10. /\ UnavailableRow(r) \in Rows
       /\ SucceededRow(r) \in Rows
       /\ ReleasedRow(r) \in Rows
       /\ [r EXCEPT !.progress = n] \in Rows
       /\ MeteredRow(r, n) \in Rows
       /\ [r EXCEPT !.lease = LeaseTicks] \in Rows
       /\ FailedRow(r, b) \in Rows
  BY <1>3, <1>6, RowWrites
<1>11. GoodRow(w, r)
  BY <1>3, <1>5, <1>6, <1>7, <1>8 DEF GoodRow, Terminal
<1>12. GoodRow(w, FailedRow(r, b))
  BY <1>3, <1>5, <1>6, <1>7, <1>8, <1>10 DEF GoodRow, Terminal, FailedRow, Rows
<1>13. GoodRow(w, UnavailableRow(r)) /\ GoodRow(w, ReleasedRow(r))
  BY <1>3, <1>5, <1>6, <1>7, <1>8, <1>10 DEF GoodRow, Terminal, UnavailableRow, ReleasedRow, Rows
<1>14. GoodRow(w, [r EXCEPT !.progress = n])
  BY <1>3, <1>5, <1>6, <1>7, <1>8, <1>10 DEF GoodRow, Terminal, Rows
<1>15. GoodRow(w, MeteredRow(r, n))
  BY <1>3, <1>5, <1>6, <1>7, <1>8, <1>10 DEF GoodRow, Terminal, MeteredRow, Rows
<1>16. GoodRow(w, [r EXCEPT !.lease = LeaseTicks])
  BY <1>3, <1>5, <1>6, <1>7, <1>8, <1>10 DEF GoodRow, Terminal, Rows
<1>17. worker[w].phase = "completing" => GoodRow(w, SucceededRow(r))
  BY <1>3, <1>5, <1>6, <1>7, <1>8, <1>9, <1>10 DEF GoodRow, Terminal, SucceededRow, Rows
<1> QED
  BY <1>4, <1>11, <1>12, <1>13, <1>14, <1>15, <1>16, <1>17

(* The effect of the two ways a run ends or goes on. *)
LEMMA EndRunEffect ==
  ASSUME TypeOK, NEW w \in Workers, EndRun(w)
  PROVE  /\ worker' \in [Workers -> WorkerStates]
         /\ \A v \in Workers \ {w} : worker'[v] = worker[v]
         /\ worker'[w] = IdleWorker
         /\ worker'[w].phase = "idle" /\ worker'[w].job = 0 /\ worker'[w].beat = "off"
PROOF
<1>1. IdleWorker \in WorkerStates
  BY QueueConstants DEF WorkerStates, IdleWorker, Phases
<1> QED
  BY <1>1 DEF TypeOK, EndRun, IdleWorker

(* A worker whose row is not written. *)
LEMMA NoWrite ==
  ASSUME TypeOK, NEW w \in Workers, job' = job
  PROVE  Write(w, Row(w))
BY DEF TypeOK, Write, Row, Owns

LEMMA FaultEffect ==
  ASSUME TypeOK, Fault
  PROVE  faults' \in 0..MaxFaults
BY QueueConstants DEF TypeOK, Fault

(* Runs that end with one fenced write. *)
LEMMA RunEnds ==
  ASSUME QueueInv, NEW w \in Workers, Working(w), NEW row, Write(w, row),
         Owns(w) => GoodRow(w, row), EndRun(w), faults' \in 0..MaxFaults,
         UNCHANGED <<claims, preview, enqueued>>
  PROVE  QueueInv'
PROOF
<1>1. TypeOK /\ preview \in [Jobs -> Nat]
  BY DEF QueueInv, TypeOK
<1>2. /\ worker' \in [Workers -> WorkerStates]
      /\ \A v \in Workers \ {w} : worker'[v] = worker[v]
      /\ worker'[w].phase = "idle" /\ worker'[w].job = 0 /\ worker'[w].beat = "off"
  BY <1>1, EndRunEffect
<1> QED
  BY <1>1, <1>2, WorkerActs

(* Steps of a run that write nothing to the row. *)
LEMMA RunMoves ==
  ASSUME QueueInv, NEW w \in Workers, Working(w), job' = job,
         NEW s, worker' = [worker EXCEPT ![w] = s], s \in WorkerStates,
         s.phase \notin {"idle", "dead", "telemetry", "completing"}
           \/ s.phase = worker[w].phase,
         s.job = worker[w].job, s.claim = worker[w].claim,
         faults' \in 0..MaxFaults, UNCHANGED <<claims, preview, enqueued>>
  PROVE  QueueInv'
PROOF
<1>1. TypeOK /\ preview \in [Jobs -> Nat]
  BY DEF QueueInv, TypeOK
<1>2. /\ worker' \in [Workers -> WorkerStates]
      /\ \A v \in Workers \ {w} : worker'[v] = worker[v]
      /\ worker'[w] = s
  BY <1>1 DEF TypeOK
<1>3. Write(w, Row(w))
  BY <1>1, NoWrite
<1>4. Owns(w) => GoodRow(w, Row(w))
  BY GoodRows
<1>5. s.phase \notin {"idle", "dead"}
  BY DEF Working
<1>6. RunState(w)
  BY DEF QueueInv, RunStates
<1>7. worker'[w].phase \in {"telemetry", "completing"} => preview'[worker[w].job] # 0
  BY <1>2, <1>6 DEF RunState
<1>8. worker'[w].phase = "completing" /\ Owns(w)
        => Row(w).decision = worker[w].claim /\ Row(w).usage = worker[w].claim
  BY <1>2, <1>6 DEF RunState
<1> QED
  BY <1>1, <1>2, <1>3, <1>4, <1>5, <1>7, <1>8, WorkerActs

LEMMA RunStepInv ==
  ASSUME QueueInv, NEW w \in Workers,
         \/ LoadFails(w) \/ Loaded(w) \/ ResolveFails(w) \/ StartProcess(w) \/ Publish(w)
         \/ ClaimLost(w) \/ ProcessFails(w) \/ ProcessRejects(w) \/ Finalize(w)
         \/ PutPreview(w) \/ RecordTelemetry(w) \/ Succeed(w)
  PROVE  QueueInv'
PROOF
<1>1. TypeOK /\ preview \in [Jobs -> Nat] /\ faults \in 0..MaxFaults
  BY DEF QueueInv, TypeOK
<1>2. Working(w) => RunState(w) /\ worker[w].job \in Jobs /\ worker[w].claim \in Nat \ {0}
  BY <1>1, WorkerTypes DEF QueueInv, RunStates, RunState
<1>3. /\ worker[w] \in WorkerStates
      /\ 0 \in 0..RenewalsPerLease /\ RenewalsPerLease \in 0..RenewalsPerLease
  BY <1>1, WorkerTypes, QueueConstants
<1>4. CASE LoadFails(w)
  <2>1. Working(w) /\ EndRun(w) /\ UNCHANGED <<claims, preview, enqueued, faults>>
    BY <1>4 DEF LoadFails, Working
  <2>2. CASE Write(w, UnavailableRow(Row(w)))
    BY <1>1, <2>1, <2>2, GoodRows, RunEnds
  <2>3. ASSUME NEW b \in BOOLEAN, Write(w, FailedRow(Row(w), b))
        PROVE  QueueInv'
    BY <1>1, <2>1, <2>3, GoodRows, RunEnds
  <2> QED
    BY <1>4, <2>2, <2>3 DEF LoadFails
<1>5. CASE Loaded(w)
  <2>1. Working(w) /\ job' = job /\ UNCHANGED <<claims, preview, enqueued, faults>>
    BY <1>5 DEF Loaded, Working
  <2>2. CASE worker[w].beat = "lost"
    <3>1. EndRun(w)
      BY <1>5, <2>2 DEF Loaded, EndRun
    <3> QED
      BY <1>1, <2>1, <3>1, NoWrite, GoodRows, RunEnds
  <2>3. CASE worker[w].beat # "lost"
    <3> DEFINE s == [worker[w] EXCEPT !.phase = "resolving", !.beat = "off", !.missed = 0]
    <3>1. worker' = [worker EXCEPT ![w] = s]
      BY <1>5, <2>3 DEF Loaded
    <3>2. s \in WorkerStates /\ s.phase = "resolving" /\ s.job = worker[w].job
          /\ s.claim = worker[w].claim
      BY <1>3 DEF WorkerStates, Phases
    <3> HIDE DEF s
    <3> QED
      BY <1>1, <2>1, <3>1, <3>2, RunMoves
  <2> QED
    BY <2>2, <2>3
<1>6. CASE ResolveFails(w)
  <2>1. Working(w) /\ EndRun(w) /\ UNCHANGED <<claims, preview, enqueued, faults>>
    BY <1>6 DEF ResolveFails, Working
  <2>2. PICK b \in BOOLEAN : Write(w, FailedRow(Row(w), b))
    BY <1>6 DEF ResolveFails
  <2> QED
    BY <1>1, <2>1, <2>2, GoodRows, RunEnds
<1>7. CASE StartProcess(w)
  <2>1. Working(w) /\ job' = job /\ UNCHANGED <<claims, preview, enqueued, faults>>
    BY <1>7 DEF StartProcess, Working
  <2>2. PICK beat \in {"off", "on"} :
          worker' = [worker EXCEPT ![w].phase = "processing", ![w].beat = beat,
                                   ![w].missed = RenewalsPerLease]
    BY <1>7 DEF StartProcess
  <2> DEFINE s == [worker[w] EXCEPT !.phase = "processing", !.beat = beat,
                                    !.missed = RenewalsPerLease]
  <2>3. worker' = [worker EXCEPT ![w] = s]
    BY <1>1, <2>2 DEF TypeOK
  <2>4. s \in WorkerStates /\ s.phase = "processing" /\ s.job = worker[w].job
        /\ s.claim = worker[w].claim
    BY <1>3 DEF WorkerStates, Phases
  <2> HIDE DEF s
  <2> QED
    BY <1>1, <2>1, <2>3, <2>4, RunMoves
<1>8. CASE Publish(w)
  <2>1. Working(w) /\ UNCHANGED <<claims, preview, enqueued, faults>>
        /\ Write(w, [Row(w) EXCEPT !.progress = worker[w].claim])
    BY <1>8 DEF Publish, Working
  <2>2. Owns(w) => GoodRow(w, [Row(w) EXCEPT !.progress = worker[w].claim])
    BY <2>1, GoodRows
  <2>3. CASE ~Owns(w)
    <3>1. EndRun(w)
      BY <1>8, <2>3 DEF Publish
    <3> QED
      BY <1>1, <2>1, <2>2, <3>1, RunEnds
  <2>4. CASE Owns(w)
    <3>1. worker' = worker /\ worker \in [Workers -> WorkerStates] /\ worker[w].phase = "processing"
      BY <1>1, <1>8, <2>4 DEF Publish, TypeOK
    <3> QED
      BY <1>1, <2>1, <2>2, <3>1, WorkerActs
  <2> QED
    BY <2>3, <2>4
<1>9. CASE ClaimLost(w)
  <2>1. Working(w) /\ EndRun(w) /\ job' = job /\ UNCHANGED <<claims, preview, enqueued, faults>>
    BY <1>9 DEF ClaimLost, Working
  <2> QED
    BY <1>1, <2>1, NoWrite, GoodRows, RunEnds
<1>10. CASE ProcessFails(w)
  <2>1. Working(w) /\ UNCHANGED <<claims, preview, enqueued, faults>>
    BY <1>10 DEF ProcessFails, Working
  <2>2. PICK b \in BOOLEAN :
          /\ Write(w, FailedRow(Row(w), b))
          /\ IF Owns(w) /\ ~b
             THEN worker' = [worker EXCEPT ![w].phase = "finalizing", ![w].beat = "off"]
             ELSE EndRun(w)
    BY <1>10 DEF ProcessFails
  <2>3. Owns(w) => GoodRow(w, FailedRow(Row(w), b))
    BY <2>1, GoodRows
  <2>4. CASE EndRun(w)
    BY <1>1, <2>1, <2>2, <2>3, <2>4, RunEnds
  <2>5. CASE worker' = [worker EXCEPT ![w].phase = "finalizing", ![w].beat = "off"]
    <3> DEFINE s == [worker[w] EXCEPT !.phase = "finalizing", !.beat = "off"]
    <3>1. worker' = [worker EXCEPT ![w] = s]
      BY <1>1, <2>5 DEF TypeOK
    <3>2. s \in WorkerStates /\ s.phase = "finalizing" /\ s.job = worker[w].job
          /\ s.claim = worker[w].claim
      BY <1>3 DEF WorkerStates, Phases
    <3> HIDE DEF s
    <3>3. /\ worker' \in [Workers -> WorkerStates]
          /\ \A v \in Workers \ {w} : worker'[v] = worker[v]
          /\ worker'[w] = s
      BY <1>1, <3>1, <3>2 DEF TypeOK
    <3> QED
      BY <1>1, <2>1, <2>2, <2>3, <3>2, <3>3, WorkerActs
  <2> QED
    BY <2>2, <2>4, <2>5
<1>11. CASE ProcessRejects(w)
  <2>1. Working(w) /\ job' = job /\ UNCHANGED <<claims, preview, enqueued, faults>>
    BY <1>11 DEF ProcessRejects, Working
  <2> DEFINE s == [worker[w] EXCEPT !.phase = "finalizing", !.beat = "off"]
  <2>2. worker' = [worker EXCEPT ![w] = s]
    BY <1>1, <1>11 DEF ProcessRejects, TypeOK
  <2>3. s \in WorkerStates /\ s.phase = "finalizing" /\ s.job = worker[w].job
        /\ s.claim = worker[w].claim
    BY <1>3 DEF WorkerStates, Phases
  <2> HIDE DEF s
  <2> QED
    BY <1>1, <2>1, <2>2, <2>3, RunMoves
<1>12. CASE Finalize(w)
  <2>1. Working(w) /\ EndRun(w) /\ Write(w, FailedRow(Row(w), FALSE))
        /\ UNCHANGED <<claims, preview, enqueued, faults>>
    BY <1>12 DEF Finalize, Working
  <2>2. Owns(w) => GoodRow(w, FailedRow(Row(w), FALSE))
    BY <2>1, GoodRows
  <2> QED
    BY <1>1, <2>1, <2>2, RunEnds
<1>13. CASE PutPreview(w)
  <2>1. Working(w) /\ job' = job /\ UNCHANGED <<claims, enqueued, faults>>
        /\ preview' = [preview EXCEPT ![worker[w].job] = worker[w].claim]
    BY <1>13 DEF PutPreview, Working
  <2> DEFINE s == [worker[w] EXCEPT !.phase = "telemetry", !.beat = "off"]
  <2>2. worker' = [worker EXCEPT ![w] = s]
    BY <1>1, <1>13 DEF PutPreview, TypeOK
  <2>3. s \in WorkerStates /\ s.phase = "telemetry" /\ s.job = worker[w].job
        /\ s.claim = worker[w].claim
    BY <1>3 DEF WorkerStates, Phases
  <2> HIDE DEF s
  <2>4. /\ worker' \in [Workers -> WorkerStates]
        /\ \A v \in Workers \ {w} : worker'[v] = worker[v]
        /\ worker'[w] = s
    BY <1>1, <2>2, <2>3 DEF TypeOK
  <2>5. /\ preview' \in [Jobs -> Nat]
        /\ \A j \in Jobs : preview[j] # 0 => preview'[j] # 0
        /\ preview'[worker[w].job] # 0
    BY <1>1, <1>2, <2>1
  <2>6. Write(w, Row(w)) /\ (Owns(w) => GoodRow(w, Row(w)))
    BY <1>1, <2>1, NoWrite, GoodRows
  <2> QED
    BY <1>1, <2>1, <2>3, <2>4, <2>5, <2>6, WorkerActs
<1>14. CASE RecordTelemetry(w)
  <2>1. Working(w) /\ UNCHANGED <<claims, preview, enqueued, faults>>
        /\ Write(w, MeteredRow(Row(w), worker[w].claim))
    BY <1>14 DEF RecordTelemetry, Working
  <2>2. Owns(w) => GoodRow(w, MeteredRow(Row(w), worker[w].claim))
    BY <2>1, GoodRows
  <2>3. CASE ~Owns(w)
    <3>1. EndRun(w)
      BY <1>14, <2>3 DEF RecordTelemetry
    <3> QED
      BY <1>1, <2>1, <2>2, <3>1, RunEnds
  <2>4. CASE Owns(w)
    <3> DEFINE s == [worker[w] EXCEPT !.phase = "completing"]
    <3>1. worker' = [worker EXCEPT ![w] = s]
      BY <1>1, <1>14, <2>4 DEF RecordTelemetry, TypeOK
    <3>2. s \in WorkerStates /\ s.phase = "completing" /\ s.job = worker[w].job
          /\ s.claim = worker[w].claim
      BY <1>3 DEF WorkerStates, Phases
    <3> HIDE DEF s
    <3>3. /\ worker' \in [Workers -> WorkerStates]
          /\ \A v \in Workers \ {w} : worker'[v] = worker[v]
          /\ worker'[w] = s
      BY <1>1, <3>1, <3>2 DEF TypeOK
    <3>4. preview'[worker[w].job] # 0
      BY <1>2, <1>14, <2>1 DEF RunState, RecordTelemetry
    <3>5. LET q == MeteredRow(Row(w), worker[w].claim) IN
          q.decision = worker[w].claim /\ q.usage = worker[w].claim
      BY <1>1, <2>4 DEF TypeOK, Owns, Row, Rows, MeteredRow
    <3> QED
      BY <1>1, <2>1, <2>2, <3>2, <3>3, <3>4, <3>5, WorkerActs
  <2> QED
    BY <2>3, <2>4
<1>15. CASE Succeed(w)
  <2>1. Working(w) /\ EndRun(w) /\ Write(w, SucceededRow(Row(w)))
        /\ UNCHANGED <<claims, preview, enqueued, faults>> /\ worker[w].phase = "completing"
    BY <1>15 DEF Succeed, Working
  <2>2. Owns(w) => GoodRow(w, SucceededRow(Row(w)))
    BY <2>1, GoodRows
  <2> QED
    BY <1>1, <2>1, <2>2, RunEnds
<1> QED
  BY <1>4, <1>5, <1>6, <1>7, <1>8, <1>9, <1>10, <1>11, <1>12, <1>13, <1>14, <1>15

(* Renewals, and the faults a worker meets. *)
LEMMA FaultStepInv ==
  ASSUME QueueInv, NEW w \in Workers, BeatStep(w) \/ WorkerFault(w)
  PROVE  QueueInv'
PROOF
<1>1. TypeOK /\ preview \in [Jobs -> Nat] /\ faults \in 0..MaxFaults
  BY DEF QueueInv, TypeOK
<1>2. RunState(w)
  BY DEF QueueInv, RunStates
<1>3. worker[w] \in WorkerStates /\ 0 \in 0..RenewalsPerLease
  BY <1>1, WorkerTypes, QueueConstants
<1>4. worker[w].beat = "due" => Working(w)
  BY <1>2 DEF RunState
<1>5. CASE Renew(w)
  <2> DEFINE s == [worker[w] EXCEPT !.beat = "on", !.missed = 0]
  <2>1. Working(w) /\ Owns(w) /\ UNCHANGED <<claims, preview, enqueued, faults>>
    BY <1>4, <1>5 DEF Renew
  <2>2. worker' = [worker EXCEPT ![w] = s]
    BY <1>1, <1>5 DEF Renew, TypeOK
  <2>3. s \in WorkerStates /\ s.phase = worker[w].phase /\ s.job = worker[w].job
        /\ s.claim = worker[w].claim
    BY <1>3 DEF WorkerStates
  <2> HIDE DEF s
  <2>4. /\ worker' \in [Workers -> WorkerStates]
        /\ \A v \in Workers \ {w} : worker'[v] = worker[v]
        /\ worker'[w] = s
    BY <1>1, <2>2, <2>3 DEF TypeOK
  <2>5. Write(w, [Row(w) EXCEPT !.lease = LeaseTicks])
    BY <1>1, <1>5, <2>1 DEF Renew, Write, Row, TypeOK, Owns
  <2>6. GoodRow(w, [Row(w) EXCEPT !.lease = LeaseTicks])
    BY <2>1, GoodRows
  <2>7. /\ [Row(w) EXCEPT !.lease = LeaseTicks].decision = Row(w).decision
        /\ [Row(w) EXCEPT !.lease = LeaseTicks].usage = Row(w).usage
    BY <1>1, <2>1 DEF TypeOK, Owns, Row, Rows
  <2>8. /\ worker'[w].phase \in {"telemetry", "completing"} => preview'[worker[w].job] # 0
        /\ worker'[w].phase = "completing"
             => /\ [Row(w) EXCEPT !.lease = LeaseTicks].decision = worker[w].claim
                /\ [Row(w) EXCEPT !.lease = LeaseTicks].usage = worker[w].claim
    BY <1>2, <2>1, <2>3, <2>4, <2>7 DEF RunState
  <2>9. worker'[w].phase \notin {"idle", "dead"}
    BY <2>1, <2>3, <2>4 DEF Working
  <2> QED
    BY <1>1, <2>1, <2>3, <2>4, <2>5, <2>6, <2>8, <2>9, WorkerActs
<1>6. CASE RenewConflict(w)
  <2> DEFINE s == [worker[w] EXCEPT !.beat = "lost"]
  <2>1. Working(w) /\ job' = job /\ UNCHANGED <<claims, preview, enqueued, faults>>
    BY <1>4, <1>6 DEF RenewConflict
  <2>2. worker' = [worker EXCEPT ![w] = s]
    BY <1>1, <1>6 DEF RenewConflict, TypeOK
  <2>3. s \in WorkerStates /\ s.phase = worker[w].phase /\ s.job = worker[w].job
        /\ s.claim = worker[w].claim
    BY <1>3 DEF WorkerStates
  <2> HIDE DEF s
  <2> QED
    BY <1>1, <2>1, <2>2, <2>3, RunMoves
<1>7. CASE RenewFault(w)
  <2> DEFINE m == IF worker[w].missed < RenewalsPerLease THEN worker[w].missed + 1
                  ELSE worker[w].missed
             s == [worker[w] EXCEPT !.beat = "on", !.missed = m]
  <2>1. Working(w) /\ job' = job /\ faults' \in 0..MaxFaults
        /\ UNCHANGED <<claims, preview, enqueued>>
    BY <1>1, <1>4, <1>7, FaultEffect DEF RenewFault
  <2>2. worker' = [worker EXCEPT ![w] = s]
    BY <1>1, <1>7 DEF RenewFault, TypeOK
  <2>3. m \in 0..RenewalsPerLease
    BY <1>1, WorkerTypes, QueueConstants
  <2> HIDE DEF m
  <2>4. s \in WorkerStates /\ s.phase = worker[w].phase /\ s.job = worker[w].job
        /\ s.claim = worker[w].claim
    BY <1>3, <2>3 DEF WorkerStates
  <2> HIDE DEF s
  <2> QED
    BY <1>1, <2>1, <2>2, <2>4, RunMoves
<1>8. CASE Saturated(w)
  <2>1. Working(w) /\ EndRun(w) /\ Write(w, ReleasedRow(Row(w)))
        /\ faults' \in 0..MaxFaults /\ UNCHANGED <<claims, preview, enqueued>>
    BY <1>1, <1>8, FaultEffect DEF Saturated, Working
  <2>2. Owns(w) => GoodRow(w, ReleasedRow(Row(w)))
    BY <2>1, GoodRows
  <2> QED
    BY <2>1, <2>2, RunEnds
<1>9. CASE Abort(w)
  <2>1. Working(w) /\ EndRun(w) /\ job' = job
        /\ faults' \in 0..MaxFaults /\ UNCHANGED <<claims, preview, enqueued>>
    BY <1>1, <1>9, FaultEffect DEF Abort
  <2> QED
    BY <1>1, <2>1, NoWrite, GoodRows, RunEnds
<1>10. CASE Crash(w)
  <2> DEFINE s == [IdleWorker EXCEPT !.phase = "dead"]
  <2>1. /\ worker' = [worker EXCEPT ![w] = s] /\ job' = job
        /\ faults' \in 0..MaxFaults /\ UNCHANGED <<claims, preview, enqueued>>
    BY <1>1, <1>10, FaultEffect DEF Crash
  <2>2. s \in WorkerStates /\ s.phase = "dead" /\ s.job = 0 /\ s.beat = "off"
    BY <1>3 DEF WorkerStates, IdleWorker, Phases
  <2> HIDE DEF s
  <2>3. /\ worker' \in [Workers -> WorkerStates]
        /\ \A v \in Workers \ {w} : worker'[v] = worker[v]
        /\ worker'[w] = s
    BY <1>1, <2>1, <2>2 DEF TypeOK
  <2>4. Write(w, Row(w)) /\ (Working(w) /\ Owns(w) => GoodRow(w, Row(w)))
    BY <1>1, <2>1, NoWrite, GoodRows
  <2>5. Owns(w) => Working(w)
    BY <1>1, <1>2, WorkerTypes DEF RunState, Owns
  <2> QED
    BY <1>1, <2>1, <2>2, <2>3, <2>4, <2>5, WorkerActs
<1> QED
  BY <1>5, <1>6, <1>7, <1>8, <1>9, <1>10 DEF BeatStep, WorkerFault

-----------------------------------------------------------------------------
(* The claim, and the steps of the queue itself *)

LEMMA ClaimInv ==
  ASSUME QueueInv, NEW w \in Workers, Claim(w)
  PROVE  QueueInv'
PROOF
<1>1. TypeOK
  BY DEF QueueInv
<1>2. PICK j \in Jobs :
        /\ Runnable(j)
        /\ job' = [job EXCEPT ![j] = ClaimedRow(@, w)]
        /\ claims' = [claims EXCEPT ![j] = @ + 1]
        /\ worker' = [worker EXCEPT ![w] = [phase |-> "loading", job |-> j,
                                            claim |-> claims[j] + 1,
                                            beat |-> "on", missed |-> 0]]
  BY DEF Claim
<1>3. worker[w].phase = "idle" /\ UNCHANGED <<preview, enqueued, faults>>
  BY DEF Claim
<1>4. job[j] \in Rows /\ claims[j] \in Nat /\ claims \in [Jobs -> Nat]
  BY <1>1 DEF TypeOK
<1>a. ClaimedRow(job[j], w) \in Rows
  <2>1. TRUE \in BOOLEAN /\ 0 \in Nat
    OBVIOUS
  <2> QED
    BY ONLY <1>4, <2>1, w \in Workers, RowWrites
<1>5. /\ job' \in [Jobs -> Rows]
      /\ job'[j] = ClaimedRow(job[j], w)
      /\ \A i \in Jobs : i # j => job'[i] = job[i] /\ claims'[i] = claims[i]
      /\ claims' \in [Jobs -> Nat] /\ claims'[j] = claims[j] + 1
  BY <1>1, <1>2, <1>4, <1>a DEF TypeOK
<1> DEFINE s == [phase |-> "loading", job |-> j, claim |-> claims[j] + 1,
                 beat |-> "on", missed |-> 0]
<1>6. s \in WorkerStates /\ s.phase = "loading" /\ s.job = j /\ s.claim = claims[j] + 1
  BY <1>4, QueueConstants DEF WorkerStates, Phases
<1>7. /\ worker' \in [Workers -> WorkerStates]
      /\ \A v \in Workers \ {w} : worker'[v] = worker[v]
      /\ worker'[w] = s
  BY <1>1, <1>2, <1>6 DEF TypeOK
<1> HIDE DEF s
<1>8. TypeOK'
  BY <1>1, <1>3, <1>5, <1>7 DEF TypeOK
<1>9. LET r == ClaimedRow(job[j], w) IN
      /\ r.status = "running" /\ r.owner = w /\ r.retries = job[j].retries
      /\ r.progress = 0 /\ r.decision = 0
  BY <1>4 DEF ClaimedRow, Rows
<1>10. job[j].status \in {"pending", "failed", "running"}
  BY <1>2 DEF Runnable
<1>b. RestingRows'
  BY <1>2, <1>3, <1>5, <1>9, <1>10 DEF QueueInv, RestingRows, Terminal, AbsentRow
<1>11. job[j].retries < MaxRetries /\ job[j].retries <= claims[j] /\ job[j].retries \in Nat
  BY <1>4, <1>10, RowTypes DEF QueueInv, RetryBudget
<1>12. RunningUncharged' /\ RetryBudget'
  BY <1>4, <1>5, <1>9, <1>11 DEF QueueInv, RunningUncharged, RetryBudget
<1>13. LiveFieldsAreCurrent'
  BY <1>3, <1>5, <1>9 DEF QueueInv, LiveFieldsAreCurrent, Terminal
<1>14. ASSUME NEW v \in Workers, v # w, Owns(v)'
       PROVE  Owns(v) /\ worker[v].job # j /\ worker[v].job \in Jobs
  BY <1>5, <1>7, <1>9, <1>14 DEF Owns
<1>15. FenceNamesTheClaim'
  <2> SUFFICES ASSUME NEW v \in Workers, Working(v)', Owns(v)'
               PROVE  claims'[worker'[v].job] = worker'[v].claim
    BY DEF FenceNamesTheClaim
  <2>1. CASE v = w
    BY <2>1, <1>5, <1>6, <1>7
  <2>2. CASE v # w
    BY <2>2, <1>5, <1>7, <1>14 DEF QueueInv, FenceNamesTheClaim, Working
  <2> QED
    BY <2>1, <2>2
<1>16. RunStates'
  <2> SUFFICES ASSUME NEW v \in Workers
               PROVE  RunState(v)'
    BY DEF RunStates
  <2>1. CASE v = w
    BY <2>1, <1>4, <1>6, <1>7 DEF RunState, Working
  <2>2. CASE v # w
    <3>1. RunState(v) /\ worker'[v] = worker[v] /\ preview' = preview
      BY <2>2, <1>3, <1>7 DEF QueueInv, RunStates
    <3>2. Owns(v)' => Owns(v) /\ job'[worker[v].job] = job[worker[v].job]
      BY <2>2, <1>5, <1>14
    <3> QED
      BY <3>1, <3>2 DEF RunState, Row, Working
  <2> QED
    BY <2>1, <2>2
<1> QED
  BY <1>8, <1>b, <1>12, <1>13, <1>15, <1>16 DEF QueueInv

(* Steps that leave owners, charges and what the claim wrote as they are.   *)
LEMMA QuietStep ==
  ASSUME QueueInv, TypeOK', RestingRows', UNCHANGED <<claims, preview>>,
         \A w \in Workers : /\ worker'[w].phase = worker[w].phase
                            /\ worker'[w].job = worker[w].job
                            /\ worker'[w].claim = worker[w].claim
                            /\ worker[w].beat = "off" => worker'[w].beat = "off",
         \A j \in Jobs :
           /\ job'[j].status = "running" => job[j].status = "running"
           /\ job'[j].status = "running" => job'[j].owner = job[j].owner
           /\ job'[j].retries = job[j].retries
           /\ job'[j].progress = job[j].progress
           /\ job'[j].decision = job[j].decision
           /\ job'[j].usage = job[j].usage
           /\ job'[j].status = job[j].status \/ job'[j].status = "deleted"
              \/ (job'[j].status = "pending" /\ job[j].retries < MaxRetries)
  PROVE  QueueInv'
PROOF
<1>1. RunningUncharged' /\ RetryBudget' /\ LiveFieldsAreCurrent'
  BY DEF QueueInv, RunningUncharged, RetryBudget, LiveFieldsAreCurrent, Terminal
<1>2. \A w \in Workers : Owns(w)' => Owns(w)
  BY DEF Owns
<1>3. \A w \in Workers : Owns(w) => worker[w].job \in Jobs
  BY DEF Owns
<1>4. FenceNamesTheClaim'
  BY <1>2 DEF QueueInv, FenceNamesTheClaim, Working
<1>5. RunStates'
  BY <1>2, <1>3 DEF QueueInv, RunStates, RunState, Working, Row
<1> QED
  BY <1>1, <1>4, <1>5 DEF QueueInv

LEMMA EnqueueInv ==
  ASSUME QueueInv, NEW d \in Documents, Enqueue(d)
  PROVE  QueueInv'
PROOF
<1> DEFINE k == enqueued + 1
           new == [AbsentRow EXCEPT !.status = "pending", !.doc = d]
<1>1. TypeOK /\ RestingRows
  BY DEF QueueInv
<1>2. k \in Jobs /\ enqueued \in Nat /\ enqueued' = k /\ k \in 0..MaxJobs
  BY <1>1, QueueConstants DEF TypeOK, Enqueue, Jobs
<1>3. new \in Rows /\ new.status = "pending" /\ new.retries = 0 /\ new.progress = 0
      /\ new.decision = 0 /\ new.usage = 0
  BY NewRows DEF AbsentRow
<1>4. job[k] = AbsentRow /\ job[k].retries = 0 /\ job[k].progress = 0 /\ job[k].decision = 0 /\ job[k].usage = 0
      /\ 0 < MaxRetries
  BY <1>1, <1>2, QueueConstants DEF RestingRows, AbsentRow
<1>5. job' = [job EXCEPT ![k] = new] /\ UNCHANGED <<claims, preview, worker, faults>>
  BY DEF Enqueue
<1> HIDE DEF new
<1>6. /\ job' \in [Jobs -> Rows] /\ job'[k] = new
      /\ \A j \in Jobs : j # k => job'[j] = job[j]
  BY <1>1, <1>2, <1>3, <1>5 DEF TypeOK
<1>7. TypeOK'
  BY <1>1, <1>2, <1>5, <1>6 DEF TypeOK
<1> HIDE DEF k
<1>8. \A j \in Jobs : j > k => j > enqueued /\ j # k
  BY <1>2 DEF Jobs, k
<1>9. RestingRows'
  BY <1>1, <1>2, <1>3, <1>6, <1>8 DEF RestingRows, Terminal
<1> QED
  BY <1>2, <1>3, <1>4, <1>5, <1>6, <1>7, <1>9, QuietStep

LEMMA DeleteInv ==
  ASSUME QueueInv, NEW k \in Jobs, DeleteTerminal(k)
  PROVE  QueueInv'
PROOF
<1>1. TypeOK /\ RestingRows
  BY DEF QueueInv
<1>2. job[k] \in Rows /\ job[k].status \in Terminal
  BY <1>1 DEF TypeOK, DeleteTerminal
<1> DEFINE new == [job[k] EXCEPT !.status = "deleted"]
<1>3. new \in Rows /\ new.status = "deleted" /\ new.retries = job[k].retries
      /\ new.progress = job[k].progress /\ new.decision = job[k].decision /\ new.usage = job[k].usage
  BY <1>2 DEF Rows, Statuses
<1>4. job' = [job EXCEPT ![k] = new] /\ UNCHANGED <<claims, preview, enqueued, worker, faults>>
  BY <1>1 DEF DeleteTerminal, TypeOK
<1> HIDE DEF new
<1>5. /\ job' \in [Jobs -> Rows] /\ job'[k] = new
      /\ \A j \in Jobs : j # k => job'[j] = job[j]
  BY <1>1, <1>3, <1>4 DEF TypeOK
<1>6. TypeOK'
  BY <1>1, <1>4, <1>5 DEF TypeOK
<1>7. ~(k > enqueued)
  BY <1>1, <1>2 DEF RestingRows, AbsentRow, Terminal
<1>8. RestingRows'
  BY <1>1, <1>3, <1>4, <1>5, <1>7 DEF RestingRows, Terminal
<1> QED
  BY <1>3, <1>4, <1>5, <1>6, <1>8, QuietStep

(* What the passing of time does to a row. *)
LEMMA TickEffect ==
  ASSUME TypeOK, RestingRows, Tick
  PROVE  /\ job' \in [Jobs -> Rows]
         /\ worker' \in [Workers -> WorkerStates]
         /\ faults' \in 0..MaxFaults
         /\ \A j \in Jobs :
              /\ job'[j].status = job[j].status /\ job'[j].owner = job[j].owner
              /\ job'[j].retries = job[j].retries /\ job'[j].progress = job[j].progress
              /\ job'[j].decision = job[j].decision /\ job'[j].usage = job[j].usage
              /\ job'[j].lease = IF job[j].lease > 0 THEN job[j].lease - 1 ELSE 0
              /\ job'[j].backoff = IF job[j].backoff > 0 THEN job[j].backoff - 1 ELSE 0
              /\ job[j].status \in Terminal \cup {"absent"} /\ job[j].lease = 0
                   /\ job[j].backoff = 0 => job'[j] = job[j]
         /\ \A w \in Workers :
              /\ worker'[w].phase = worker[w].phase /\ worker'[w].job = worker[w].job
              /\ worker'[w].claim = worker[w].claim /\ worker'[w].missed = worker[w].missed
              /\ worker'[w].beat = IF worker[w].beat = "on" THEN "due" ELSE worker[w].beat
PROOF
<1>3. ASSUME NEW j \in Jobs
      PROVE  /\ job'[j] \in Rows
             /\ job'[j].status = job[j].status /\ job'[j].owner = job[j].owner
             /\ job'[j].retries = job[j].retries /\ job'[j].progress = job[j].progress
             /\ job'[j].decision = job[j].decision /\ job'[j].usage = job[j].usage
             /\ job'[j].lease = IF job[j].lease > 0 THEN job[j].lease - 1 ELSE 0
             /\ job'[j].backoff = IF job[j].backoff > 0 THEN job[j].backoff - 1 ELSE 0
             /\ job[j].lease = 0 /\ job[j].backoff = 0 => job'[j] = job[j]
  <2> DEFINE l == IF job[j].lease > 0 THEN job[j].lease - 1 ELSE 0
             b == IF job[j].backoff > 0 THEN job[j].backoff - 1 ELSE 0
             q == [job[j] EXCEPT !.lease = l, !.backoff = b]
  <2>1. job[j] \in Rows /\ job'[j] = q
    BY <1>3 DEF TypeOK, Tick
  <2>2. l \in 0..LeaseTicks /\ b \in 0..BackoffCap
    BY <2>1, RowTypes, QueueConstants DEF LeaseTicks
  <2>3. (job[j].lease = 0 => l = job[j].lease) /\ (job[j].backoff = 0 => b = job[j].backoff)
    BY <2>1
  <2>4. job'[j].lease = l /\ job'[j].backoff = b
        => /\ job'[j].lease = IF job[j].lease > 0 THEN job[j].lease - 1 ELSE 0
           /\ job'[j].backoff = IF job[j].backoff > 0 THEN job[j].backoff - 1 ELSE 0
    OBVIOUS
  <2> HIDE DEF l, b
  <2>5. /\ q \in Rows
        /\ q.status = job[j].status /\ q.owner = job[j].owner /\ q.retries = job[j].retries
        /\ q.progress = job[j].progress /\ q.decision = job[j].decision /\ q.usage = job[j].usage
        /\ q.lease = l /\ q.backoff = b
    BY <2>1, <2>2 DEF Rows
  <2>6. job[j].lease = 0 /\ job[j].backoff = 0 => q = job[j]
    BY <2>1, <2>3 DEF Rows
  <2> QED
    BY <2>1, <2>4, <2>5, <2>6
<1>4. job' \in [Jobs -> Rows]
  BY <1>3 DEF Tick
<1>5. ASSUME NEW w \in Workers
      PROVE  /\ worker'[w] \in WorkerStates
             /\ worker'[w].phase = worker[w].phase /\ worker'[w].job = worker[w].job
             /\ worker'[w].claim = worker[w].claim /\ worker'[w].missed = worker[w].missed
             /\ worker'[w].beat = IF worker[w].beat = "on" THEN "due" ELSE worker[w].beat
  <2>1. worker[w] \in WorkerStates
        /\ worker'[w] = [worker[w] EXCEPT !.beat = IF @ = "on" THEN "due" ELSE @]
    BY <1>5 DEF TypeOK, Tick
  <2> QED
    BY <2>1 DEF WorkerStates
<1>6. worker' \in [Workers -> WorkerStates]
  BY <1>5 DEF Tick
<1>7. faults' \in 0..MaxFaults
  BY FaultEffect DEF Tick, TypeOK
<1> QED
  BY <1>3, <1>4, <1>5, <1>6, <1>7

LEMMA TickInv ==
  ASSUME QueueInv, Tick
  PROVE  QueueInv'
PROOF
<1>1. TypeOK /\ RestingRows
  BY DEF QueueInv
<1>2. UNCHANGED <<claims, preview, enqueued>>
  BY DEF Tick
<1>3. TypeOK'
  BY <1>1, <1>2, TickEffect DEF TypeOK
<1>4. AbsentRow.status = "absent" /\ AbsentRow.lease = 0 /\ AbsentRow.backoff = 0
  BY DEF AbsentRow
<1>5. RestingRows'
  BY <1>1, <1>2, <1>4, TickEffect DEF RestingRows
<1> QED
  BY <1>1, <1>2, <1>3, <1>5, TickEffect, QuietStep

-----------------------------------------------------------------------------
(* The invariant, and the theorems that follow from it *)

LEMMA InitInv ==
  ASSUME Init
  PROVE  QueueInv
PROOF
<1>0. 0 \in 0..RenewalsPerLease /\ 0 \in 0..MaxJobs /\ 0 \in 0..MaxFaults
  BY QueueConstants
<1>1. AbsentRow \in Rows /\ IdleWorker \in WorkerStates
  BY <1>0, NewRows DEF WorkerStates, IdleWorker, Phases
<1>2. TypeOK
  BY <1>0, <1>1 DEF Init, TypeOK
<1>3. \A w \in Workers : worker[w].phase = "idle" /\ worker[w].job = 0 /\ worker[w].beat = "off"
  BY DEF Init, IdleWorker
<1>4. RunStates /\ FenceNamesTheClaim
  BY <1>3 DEF RunStates, RunState, Working, FenceNamesTheClaim
<1>5. \A j \in Jobs : /\ job[j] = AbsentRow /\ job[j].status = "absent" /\ job[j].retries = 0
                      /\ job[j].progress = 0 /\ job[j].decision = 0 /\ claims[j] = 0
  BY DEF Init, AbsentRow
<1> QED
  BY <1>2, <1>4, <1>5 DEF QueueInv, RunningUncharged, RestingRows, LiveFieldsAreCurrent,
                          RetryBudget, Terminal

LEMMA StepInv ==
  ASSUME QueueInv, [Next]_vars
  PROVE  QueueInv'
PROOF
<1>1. CASE UNCHANGED vars
  BY <1>1 DEF vars, QueueInv, TypeOK, RunStates, RunState, RunningUncharged, RestingRows,
              FenceNamesTheClaim, LiveFieldsAreCurrent, RetryBudget, Working, Owns, Row
<1>2. CASE \E d \in Documents : Enqueue(d)
  BY <1>2, EnqueueInv
<1>3. CASE \E w \in Workers : RunStep(w) \/ BeatStep(w) \/ WorkerFault(w)
  BY <1>3, ClaimInv, RunStepInv, FaultStepInv DEF RunStep
<1>4. CASE \E j \in Jobs : DeleteTerminal(j)
  BY <1>4, DeleteInv
<1>5. CASE Tick
  BY <1>5, TickInv
<1> QED
  BY <1>1, <1>2, <1>3, <1>4, <1>5 DEF Next

(* The inductive invariant holds in every reachable state of the queue.     *)
THEOREM QueueInvariant == Spec => []QueueInv
PROOF
<1> QED
  BY InitInv, StepInv, PTL DEF Spec

(* Type correctness. *)
THEOREM TypeCorrect == Spec => []TypeOK
PROOF
<1>1. QueueInv => TypeOK
  BY DEF QueueInv
<1> QED
  BY <1>1, QueueInvariant, PTL

(* The owner fence, which compares worker ids only, lets through no write   *)
(* but those of a job's latest claim.                                       *)
THEOREM FenceIsTheClaim == Spec => []FenceNamesTheClaim
PROOF
<1>1. QueueInv => FenceNamesTheClaim
  BY DEF QueueInv
<1> QED
  BY <1>1, QueueInvariant, PTL

(* The stage and the decision counts on a row are those of its latest       *)
(* claim, and a succeeded row shows the whole telemetry of that claim.      *)
THEOREM NoStaleFields == Spec => []LiveFieldsAreCurrent
PROOF
<1>1. QueueInv => LiveFieldsAreCurrent
  BY DEF QueueInv
<1> QED
  BY <1>1, QueueInvariant, PTL

(* A claimable job has an attempt left and no claim is charged twice.       *)
THEOREM BudgetKept == Spec => []RetryBudget
PROOF
<1>1. QueueInv => RetryBudget
  BY DEF QueueInv
<1> QED
  BY <1>1, QueueInvariant, PTL

-----------------------------------------------------------------------------
(* Terminal rows *)

LEMMA TerminalStep ==
  ASSUME QueueInv, [Next]_vars, NEW j \in Jobs, job[j].status \in Terminal
  PROVE  \/ job'[j] = job[j]
         \/ job'[j] = [job[j] EXCEPT !.status = "deleted"]
PROOF
<1>1. TypeOK /\ RestingRows
  BY DEF QueueInv
<1>2. ASSUME NEW w \in Workers, NEW row, Write(w, row)
      PROVE  job'[j] = job[j]
  BY <1>1, <1>2 DEF Write, Owns, Terminal, TypeOK
<1>3. ASSUME job' = job
      PROVE  job'[j] = job[j]
  BY <1>3
<1>4. CASE UNCHANGED vars
  BY <1>4 DEF vars
<1>5. ASSUME NEW d \in Documents, Enqueue(d)
      PROVE  job'[j] = job[j]
  <2>1. j # enqueued + 1
    BY <1>1, <1>5 DEF RestingRows, Enqueue, TypeOK, Jobs, AbsentRow, Terminal
  <2> QED
    BY <1>1, <1>5, <2>1 DEF Enqueue, TypeOK
<1>6. ASSUME NEW w \in Workers, Claim(w)
      PROVE  job'[j] = job[j]
  BY <1>1, <1>6 DEF Claim, Runnable, Terminal, TypeOK
<1>7. ASSUME NEW w \in Workers, Renew(w)
      PROVE  job'[j] = job[j]
  BY <1>1, <1>7 DEF Renew, Owns, Terminal, TypeOK
<1>8. ASSUME NEW w \in Workers,
             \/ LoadFails(w) \/ ResolveFails(w) \/ Publish(w) \/ ProcessFails(w)
             \/ Finalize(w) \/ RecordTelemetry(w) \/ Succeed(w) \/ Saturated(w)
      PROVE  job'[j] = job[j]
  BY <1>2, <1>8 DEF LoadFails, ResolveFails, Publish, ProcessFails, Finalize,
                    RecordTelemetry, Succeed, Saturated
<1>9. ASSUME NEW w \in Workers,
             \/ Loaded(w) \/ StartProcess(w) \/ ClaimLost(w) \/ ProcessRejects(w)
             \/ PutPreview(w) \/ RenewConflict(w) \/ RenewFault(w) \/ Abort(w) \/ Crash(w)
      PROVE  job'[j] = job[j]
  BY <1>3, <1>9 DEF Loaded, StartProcess, ClaimLost, ProcessRejects, PutPreview,
                    RenewConflict, RenewFault, Abort, Crash
<1>10. ASSUME NEW k \in Jobs, DeleteTerminal(k)
       PROVE  job'[j] = job[j] \/ job'[j] = [job[j] EXCEPT !.status = "deleted"]
  BY <1>1, <1>10 DEF DeleteTerminal, TypeOK
<1>11. CASE Tick
  BY <1>1, <1>11, TickEffect DEF RestingRows
<1> QED
  BY <1>4, <1>5, <1>6, <1>7, <1>8, <1>9, <1>10, <1>11
     DEF Next, RunStep, BeatStep, WorkerFault

(* Whatever displaced workers still write, a terminal row stays as it is    *)
(* until it is deleted.                                                     *)
THEOREM TerminalFinality == Spec => TerminalIsFinal
PROOF
<1>1. QueueInv /\ [Next]_vars
        => [\A j \in Jobs : job[j].status \in Terminal =>
              \/ job'[j] = job[j]
              \/ job'[j] = [job[j] EXCEPT !.status = "deleted"]]_vars
  BY TerminalStep
<1> QED
  BY <1>1, QueueInvariant, PTL DEF Spec, TerminalIsFinal

-----------------------------------------------------------------------------
(* The heartbeat *)

(* A heartbeat that has missed at most RenewalsPerLease - 2 renewals holds  *)
(* the claim, and the lease has as many intervals left as it has renewals.  *)
BeatKeeps(w) ==
  worker[w].beat \in {"on", "due"} /\ worker[w].missed <= RenewalsPerLease - 2
    => /\ Owns(w) /\ claims[worker[w].job] = worker[w].claim
       /\ Row(w).lease >= RenewalsPerLease - worker[w].missed
                            - (IF worker[w].beat = "due" THEN 1 ELSE 0)

BeatInv == \A w \in Workers : BeatKeeps(w)

(* The claim of such a heartbeat has not lapsed. *)
LEMMA BeatHasLease ==
  ASSUME QueueInv, NEW v \in Workers, BeatKeeps(v),
         worker[v].beat \in {"on", "due"}, worker[v].missed <= RenewalsPerLease - 2
  PROVE  Owns(v) /\ Row(v).lease > 0 /\ Row(v).lease \in Nat
PROOF
<1>1. Owns(v) /\ worker[v].missed \in Nat
  BY WorkerTypes, QueueConstants DEF BeatKeeps, QueueInv
<1>2. Row(v).lease \in Nat
  BY <1>1, RowTypes, QueueConstants DEF QueueInv, TypeOK, Owns, Row, LeaseTicks
<1> QED
  BY <1>1, <1>2, QueueConstants DEF BeatKeeps

(* A step that leaves the worker and its live claim alone. *)
LEMMA BeatUntouched ==
  ASSUME QueueInv, NEW v \in Workers, BeatKeeps(v), worker'[v] = worker[v],
         Owns(v) /\ Row(v).lease > 0
           => /\ job'[worker[v].job] = job[worker[v].job]
              /\ claims'[worker[v].job] = claims[worker[v].job]
  PROVE  BeatKeeps(v)'
PROOF
<1>1. SUFFICES ASSUME worker'[v].beat \in {"on", "due"},
                      worker'[v].missed <= RenewalsPerLease - 2
               PROVE  /\ Owns(v)' /\ claims'[worker'[v].job] = worker'[v].claim
                      /\ Row(v)'.lease >= RenewalsPerLease - worker'[v].missed
                                            - (IF worker'[v].beat = "due" THEN 1 ELSE 0)
  BY DEF BeatKeeps
<1>2. Owns(v) /\ Row(v).lease > 0
  BY <1>1, BeatHasLease
<1>3. Owns(v)' /\ Row(v)' = Row(v)
  BY <1>2 DEF Owns, Row
<1> QED
  BY <1>1, <1>2, <1>3 DEF BeatKeeps

(* A step of another worker. *)
LEMMA BeatOthers ==
  ASSUME QueueInv, BeatInv, NEW w \in Workers, NEW v \in Workers, v # w,
         RunStep(w) \/ BeatStep(w) \/ WorkerFault(w)
  PROVE  BeatKeeps(v)'
PROOF
<1>1. TypeOK /\ BeatKeeps(v)
  BY DEF QueueInv, BeatInv
<1>2. worker'[v] = worker[v]
  BY <1>1 DEF TypeOK, RunStep, BeatStep, WorkerFault, Claim, LoadFails, Loaded, ResolveFails,
     StartProcess, Publish, ClaimLost, ProcessFails, ProcessRejects, Finalize, PutPreview,
     RecordTelemetry, Succeed, Renew, RenewConflict, RenewFault, Saturated, Abort, Crash, EndRun
<1>3. SUFFICES ASSUME Owns(v), Row(v).lease > 0
               PROVE  /\ job'[worker[v].job] = job[worker[v].job]
                      /\ claims'[worker[v].job] = claims[worker[v].job]
  BY <1>1, <1>2, BeatUntouched
<1>4. worker[v].job \in Jobs /\ ~Runnable(worker[v].job)
  <2>1. Row(v).lease # 0
    BY <1>1, <1>3, RowTypes, QueueConstants DEF TypeOK, Owns, Row, LeaseTicks
  <2> QED
    BY <1>3, <2>1 DEF Owns, Runnable, Row
<1>5. Owns(w) => worker[w].job # worker[v].job
  BY <1>3 DEF Owns
<1>6. ASSUME NEW row, Write(w, row)
      PROVE  job'[worker[v].job] = job[worker[v].job]
  BY <1>1, <1>4, <1>5, <1>6 DEF Write, TypeOK
<1>7. CASE Claim(w)
  BY <1>1, <1>4, <1>7 DEF Claim, TypeOK
<1>8. CASE Renew(w)
  BY <1>1, <1>4, <1>5, <1>8 DEF Renew, TypeOK
<1>9. CASE \/ LoadFails(w) \/ ResolveFails(w) \/ Publish(w) \/ ProcessFails(w)
           \/ Finalize(w) \/ RecordTelemetry(w) \/ Succeed(w) \/ Saturated(w)
  BY <1>6, <1>9 DEF LoadFails, ResolveFails, Publish, ProcessFails, Finalize,
                    RecordTelemetry, Succeed, Saturated
<1>10. CASE \/ Loaded(w) \/ StartProcess(w) \/ ClaimLost(w) \/ ProcessRejects(w)
            \/ PutPreview(w) \/ RenewConflict(w) \/ RenewFault(w) \/ Abort(w) \/ Crash(w)
  BY <1>10 DEF Loaded, StartProcess, ClaimLost, ProcessRejects, PutPreview,
               RenewConflict, RenewFault, Abort, Crash
<1> QED
  BY <1>7, <1>8, <1>9, <1>10 DEF RunStep, BeatStep, WorkerFault

(* A step of the worker itself. *)
LEMMA BeatOwn ==
  ASSUME QueueInv, BeatInv, NEW w \in Workers, RunStep(w) \/ BeatStep(w) \/ WorkerFault(w)
  PROVE  BeatKeeps(w)'
PROOF
<1>1. TypeOK /\ BeatKeeps(w) /\ worker[w] \in WorkerStates
  BY WorkerTypes DEF QueueInv, BeatInv
<1>2. ASSUME EndRun(w)
      PROVE  BeatKeeps(w)'
  BY <1>1, <1>2, EndRunEffect DEF BeatKeeps
<1>3. ASSUME worker'[w].beat \notin {"on", "due"}
      PROVE  BeatKeeps(w)'
  BY <1>3 DEF BeatKeeps
<1>4. CASE Claim(w)
  <2>1. PICK j \in Jobs :
          /\ job' = [job EXCEPT ![j] = ClaimedRow(@, w)]
          /\ claims' = [claims EXCEPT ![j] = @ + 1]
          /\ worker' = [worker EXCEPT ![w] = [phase |-> "loading", job |-> j,
                                              claim |-> claims[j] + 1,
                                              beat |-> "on", missed |-> 0]]
    BY <1>4 DEF Claim
  <2>2. /\ worker'[w].job = j /\ worker'[w].claim = claims[j] + 1
        /\ worker'[w].beat = "on" /\ worker'[w].missed = 0
    BY <1>1, <2>1 DEF TypeOK
  <2>3. job'[j] = ClaimedRow(job[j], w) /\ claims'[j] = claims[j] + 1 /\ job[j] \in Rows
    BY <1>1, <2>1 DEF TypeOK
  <2>4. job'[j].status = "running" /\ job'[j].owner = w /\ job'[j].lease = RenewalsPerLease
    BY <2>3 DEF ClaimedRow, Rows, LeaseTicks
  <2> QED
    BY <2>2, <2>3, <2>4, QueueConstants DEF BeatKeeps, Owns, Row
<1>5. CASE \/ LoadFails(w) \/ ResolveFails(w) \/ ClaimLost(w) \/ Finalize(w) \/ Succeed(w)
           \/ Saturated(w) \/ Abort(w)
  BY <1>2, <1>5 DEF LoadFails, ResolveFails, ClaimLost, Finalize, Succeed, Saturated, Abort
<1>6. CASE Loaded(w)
  <2>1. worker'[w].beat = "off"
    BY <1>1, <1>6 DEF Loaded, TypeOK, IdleWorker, WorkerStates
  <2> QED
    BY <1>3, <2>1
<1>7. CASE StartProcess(w)
  <2>1. worker'[w].missed = RenewalsPerLease
    BY <1>1, <1>7 DEF StartProcess, TypeOK, WorkerStates
  <2> QED
    BY <2>1, QueueConstants DEF BeatKeeps
<1>8. CASE ProcessRejects(w) \/ PutPreview(w) \/ RenewConflict(w)
  <2>1. worker'[w].beat \in {"off", "lost"}
    BY <1>1, <1>8 DEF ProcessRejects, PutPreview, RenewConflict, TypeOK, WorkerStates
  <2> QED
    BY <1>3, <2>1
<1>9. CASE ProcessFails(w)
  <2>1. CASE EndRun(w)
    BY <1>2, <2>1
  <2>2. CASE worker' = [worker EXCEPT ![w].phase = "finalizing", ![w].beat = "off"]
    <3>1. worker'[w].beat = "off"
      BY <1>1, <2>2 DEF TypeOK, WorkerStates
    <3> QED
      BY <1>3, <3>1
  <2> QED
    BY <1>9, <2>1, <2>2 DEF ProcessFails
<1>10. CASE Crash(w)
  <2>1. worker'[w].beat = "off"
    BY <1>1, <1>10 DEF Crash, TypeOK, IdleWorker
  <2> QED
    BY <1>3, <2>1
<1>11. CASE Renew(w)
  <2>1. /\ worker'[w].job = worker[w].job /\ worker'[w].claim = worker[w].claim
        /\ worker'[w].beat = "on" /\ worker'[w].missed = 0 /\ Working(w) /\ Owns(w)
        /\ claims' = claims
    BY <1>1, <1>11 DEF Renew, TypeOK, WorkerStates, QueueInv, RunStates, RunState
  <2>2. worker[w].job \in Jobs /\ job[worker[w].job] \in Rows
        /\ job'[worker[w].job] = [job[worker[w].job] EXCEPT !.lease = LeaseTicks]
    BY <1>1, <1>11, <2>1 DEF Renew, TypeOK, Owns
  <2>3. /\ job'[worker[w].job].status = "running" /\ job'[worker[w].job].owner = w
        /\ job'[worker[w].job].lease = RenewalsPerLease
    BY <2>1, <2>2 DEF Owns, Rows, LeaseTicks
  <2>4. claims[worker[w].job] = worker[w].claim
    BY <2>1 DEF QueueInv, FenceNamesTheClaim
  <2> QED
    BY <2>1, <2>2, <2>3, <2>4, QueueConstants DEF BeatKeeps, Owns, Row
<1>12. CASE RenewFault(w)
  <2>1. /\ worker'[w].job = worker[w].job /\ worker'[w].claim = worker[w].claim
        /\ worker[w].beat = "due" /\ worker'[w].beat = "on"
        /\ worker'[w].missed = IF worker[w].missed < RenewalsPerLease
                               THEN worker[w].missed + 1 ELSE worker[w].missed
        /\ claims' = claims /\ job' = job
    BY <1>1, <1>12 DEF RenewFault, TypeOK, WorkerStates
  <2>2. worker[w].missed \in 0..RenewalsPerLease
    BY <1>1, WorkerTypes
  <2>3. worker'[w].missed <= RenewalsPerLease - 2
          => /\ worker'[w].missed = worker[w].missed + 1
             /\ worker[w].missed <= RenewalsPerLease - 2
    BY <2>1, <2>2, QueueConstants
  <2>4. SUFFICES ASSUME worker'[w].missed <= RenewalsPerLease - 2
                 PROVE  /\ Owns(w)' /\ claims'[worker'[w].job] = worker'[w].claim
                        /\ Row(w)'.lease >= RenewalsPerLease - worker'[w].missed
    BY <2>1, QueueConstants, <2>2, <2>3 DEF BeatKeeps
  <2>5. Owns(w) /\ claims[worker[w].job] = worker[w].claim
        /\ Row(w).lease >= RenewalsPerLease - worker[w].missed - 1
    BY <1>1, <2>1, <2>3, <2>4 DEF BeatKeeps
  <2>6. Row(w).lease \in Nat
    BY <1>1, <2>5, RowTypes, QueueConstants DEF TypeOK, Owns, Row, LeaseTicks
  <2>7. Owns(w)' /\ Row(w)' = Row(w)
    BY <2>1, <2>5 DEF Owns, Row
  <2> QED
    BY <2>1, <2>2, <2>3, <2>4, <2>5, <2>6, <2>7, QueueConstants
<1>13. CASE Publish(w) \/ RecordTelemetry(w)
  <2>1. CASE ~Owns(w)
    BY <1>2, <1>13, <2>1 DEF Publish, RecordTelemetry
  <2>2. CASE Owns(w)
    <3>1. /\ worker'[w].job = worker[w].job /\ worker'[w].claim = worker[w].claim
          /\ worker'[w].beat = worker[w].beat /\ worker'[w].missed = worker[w].missed
          /\ claims' = claims
      BY <1>1, <1>13, <2>2 DEF Publish, RecordTelemetry, TypeOK, WorkerStates
    <3>2. worker[w].job \in Jobs /\ job[worker[w].job] \in Rows
      BY <1>1, <2>2 DEF TypeOK, Owns
    <3>3. \/ job'[worker[w].job] = [job[worker[w].job] EXCEPT !.progress = worker[w].claim]
          \/ job'[worker[w].job] = MeteredRow(job[worker[w].job], worker[w].claim)
      BY <1>1, <1>13, <2>2, <3>2 DEF Publish, RecordTelemetry, Write, Row, TypeOK
    <3>4. LET r == job[worker[w].job] q == job'[worker[w].job] IN
          q.status = r.status /\ q.owner = r.owner /\ q.lease = r.lease
      BY <3>2, <3>3 DEF Rows, MeteredRow
    <3>5. Owns(w)' /\ Row(w)'.lease = Row(w).lease
      BY <2>2, <3>1, <3>4 DEF Owns, Row
    <3> QED
      BY <1>1, <3>1, <3>5 DEF BeatKeeps
  <2> QED
    BY <2>1, <2>2
<1> QED
  BY <1>4, <1>5, <1>6, <1>7, <1>8, <1>9, <1>10, <1>11, <1>12, <1>13
     DEF RunStep, BeatStep, WorkerFault

LEMMA BeatTick ==
  ASSUME QueueInv, BeatInv, Tick, NEW v \in Workers
  PROVE  BeatKeeps(v)'
PROOF
<1>1. TypeOK /\ RestingRows /\ BeatKeeps(v)
  BY DEF QueueInv, BeatInv
<1>2. SUFFICES ASSUME worker'[v].beat \in {"on", "due"},
                      worker'[v].missed <= RenewalsPerLease - 2
               PROVE  /\ Owns(v)' /\ claims'[worker'[v].job] = worker'[v].claim
                      /\ Row(v)'.lease >= RenewalsPerLease - worker'[v].missed
                                            - (IF worker'[v].beat = "due" THEN 1 ELSE 0)
  BY DEF BeatKeeps
<1>3. /\ worker'[v].job = worker[v].job /\ worker'[v].claim = worker[v].claim
      /\ worker'[v].missed = worker[v].missed
      /\ worker'[v].beat = IF worker[v].beat = "on" THEN "due" ELSE worker[v].beat
  BY <1>1, TickEffect
<1>4. worker[v].beat = "on" /\ worker'[v].beat = "due"
  BY <1>2, <1>3 DEF Tick
<1>5. Owns(v) /\ Row(v).lease > 0 /\ Row(v).lease \in Nat
      /\ claims[worker[v].job] = worker[v].claim
      /\ Row(v).lease >= RenewalsPerLease - worker[v].missed
  BY <1>1, <1>2, <1>3, <1>4, BeatHasLease, WorkerTypes, QueueConstants DEF BeatKeeps
<1>6. worker[v].job \in Jobs
  BY <1>5 DEF Owns
<1>7. LET r == job[worker[v].job] q == job'[worker[v].job] IN
      q.status = r.status /\ q.owner = r.owner
      /\ q.lease = IF r.lease > 0 THEN r.lease - 1 ELSE 0
  BY <1>1, <1>6, TickEffect
<1>8. Owns(v)' /\ Row(v)'.lease = Row(v).lease - 1
  BY <1>3, <1>5, <1>7 DEF Owns, Row
<1>9. worker[v].missed \in Nat
  BY <1>1, WorkerTypes, QueueConstants
<1>10. claims' = claims
  BY DEF Tick
<1> QED
  BY <1>3, <1>4, <1>5, <1>8, <1>9, <1>10, QueueConstants

LEMMA BeatStepInv ==
  ASSUME QueueInv, BeatInv, [Next]_vars
  PROVE  BeatInv'
PROOF
<1> SUFFICES ASSUME NEW v \in Workers
             PROVE  BeatKeeps(v)'
  BY DEF BeatInv
<1>1. TypeOK /\ RestingRows /\ BeatKeeps(v)
  BY DEF QueueInv, BeatInv
<1>2. CASE UNCHANGED vars
  BY <1>1, <1>2, BeatUntouched DEF vars
<1>3. ASSUME NEW d \in Documents, Enqueue(d)
      PROVE  BeatKeeps(v)'
  <2>1. Owns(v) => worker[v].job # enqueued + 1
    BY <1>1, <1>3 DEF RestingRows, Enqueue, TypeOK, Jobs, AbsentRow, Owns
  <2>2. Owns(v) => job'[worker[v].job] = job[worker[v].job]
    BY <1>1, <1>3, <2>1 DEF Enqueue, TypeOK, Owns
  <2> QED
    BY <1>1, <1>3, <2>2, BeatUntouched DEF Enqueue
<1>4. ASSUME NEW w \in Workers, RunStep(w) \/ BeatStep(w) \/ WorkerFault(w)
      PROVE  BeatKeeps(v)'
  BY <1>4, BeatOwn, BeatOthers
<1>5. ASSUME NEW k \in Jobs, DeleteTerminal(k)
      PROVE  BeatKeeps(v)'
  <2>1. Owns(v) => job'[worker[v].job] = job[worker[v].job]
    BY <1>1, <1>5 DEF DeleteTerminal, TypeOK, Owns, Terminal
  <2> QED
    BY <1>1, <1>5, <2>1, BeatUntouched DEF DeleteTerminal
<1>6. CASE Tick
  BY <1>6, BeatTick
<1> QED
  BY <1>2, <1>3, <1>4, <1>5, <1>6 DEF Next

(* A heartbeating worker survives RenewalsPerLease - 2 failed renewals in a *)
(* row without losing its claim.                                            *)
THEOREM BlipsAreSurvived == Spec => []OneBlipKeepsTheClaim
PROOF
<1>1. Init => BeatInv
  BY DEF Init, BeatInv, BeatKeeps, IdleWorker
<1>2. BeatInv => OneBlipKeepsTheClaim
  BY DEF BeatInv, BeatKeeps, OneBlipKeepsTheClaim, BeatHolds
<1> QED
  BY <1>1, <1>2, QueueInvariant, BeatStepInv, PTL DEF Spec
=============================================================================
