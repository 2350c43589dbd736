---------------------------- MODULE ReportsProofs ----------------------------
(***************************************************************************)
(* Theorems about Reports for every list of kinds, every number of retries *)
(* and of faults, and one backup worker: a second one may claim a row that *)
(* is staged or uploading while the first is still at it, and then neither *)
(* property holds.                                                         *)
(*                                                                         *)
(* Neither is inductive.  ReportsInv adds what the place in process_job    *)
(* says about the row, the staged object and the destination (HandInv),    *)
(* which lists of the reconciliation pass stay true while it works on them *)
(* (ReconInv), and that triggers only insert rows that are not there.      *)
(***************************************************************************)
EXTENDS Reports, TLAPS

Statuses == {"none", "pending", "failed", "staged", "uploading", "claimed", "succeeded",
             "dead_letter"}

Names == Digests \cup {None}
Bytes == {"none", "intact", "damaged"}

Rows == [status : Statuses, handle : Names, digest : Names, etag : Names, retries : Nat]

Places == {"idle", "verify", "load", "render", "mark_staged", "mark_uploading", "fetch",
           "upload", "mark_succeeded", "delete", "clear"}

Hands == [pc : Places, job : Kinds \cup {"none"}, digest : Names, bytes : Bytes]

Passes == [pc : {"idle", "release", "retain", "clear"}, todo : SUBSET Kinds,
           job : Kinds \cup {"none"}]

TypeOK ==
  /\ job \in [Kinds -> Rows] /\ created \in Seq(Kinds)
  /\ staging \in [Kinds -> [Digests -> Bytes]]
  /\ external \in [Kinds -> [digest : Names, bytes : Bytes]]
  /\ worker \in [Workers -> Hands]
  /\ recon \in Passes
  /\ trigger \in [Triggers -> SUBSET Kinds]

(* A row names a staged report or none, always the one it was rendered to; *)
(* the two halves of RecordedReportExists.                                 *)
KindInv(k) ==
  LET r == job[k]
  IN  /\ r.handle \in {None, r.digest}
      /\ r.status # "succeeded" => r.handle = r.digest
      /\ r.status = "none" => r.digest = None
      /\ r.handle # None /\ r.status # "succeeded" => staging[k][r.handle] # "none"
      /\ r.status = "succeeded" => external[k] = [digest |-> r.etag, bytes |-> "intact"]

(* The job in hand: no status but "claimed" can be changed under a worker, *)
(* by a release that comes while it is still at work.                      *)
HandInv(w) ==
  LET pc == worker[w].pc
      d == worker[w].digest
      r == Row(w)
  IN  /\ pc # "idle" => worker[w].job \in Kinds
      /\ pc \in {"load", "render", "mark_staged"} =>
           r.handle = None /\ r.status \in {"claimed", "pending"}
      /\ pc \in {"verify", "mark_uploading"} => r.status \in {"claimed", "staged"}
      /\ pc \in {"fetch", "upload", "mark_succeeded"} => r.status = "uploading"
      /\ pc \in {"verify", "mark_uploading", "fetch", "upload", "mark_succeeded"} =>
           r.handle = d /\ d \in Digests
      /\ pc \in {"render", "mark_staged"} => d \in Digests
      /\ pc = "mark_staged" => Object(w) # "none"
      /\ pc = "upload" => worker[w].bytes = "intact"
      /\ pc = "mark_succeeded" =>
           external[worker[w].job] = [digest |-> d, bytes |-> "intact"]
      /\ pc \in {"delete", "clear"} => r.status = "succeeded"

(* What was listed as succeeded still is. *)
ReconInv ==
  /\ recon.pc \in {"retain", "clear"} => \A k \in recon.todo : job[k].status = "succeeded"
  /\ recon.pc = "clear" => recon.job \in Kinds /\ job[recon.job].status = "succeeded"

TriggerInv == \A t \in Triggers : \A k \in trigger[t] : job[k].status = "none"

ReportsInv ==
  /\ TypeOK /\ ReconInv /\ TriggerInv
  /\ \A k \in Kinds : KindInv(k)
  /\ \A w \in Workers : HandInv(w)

OneWorker == \A v, w \in Workers : v = w

-----------------------------------------------------------------------------
(* What the statements make of a row *)

(* The same report, its handle and its etag. *)
SameReport(q, r) == q.handle = r.handle /\ q.digest = r.digest /\ q.etag = r.etag

LEMMA Statements ==
  ASSUME NEW r \in Rows, NEW s \in Statuses
  PROVE  [r EXCEPT !.status = s] \in Rows /\ [r EXCEPT !.status = s].status = s
         /\ SameReport([r EXCEPT !.status = s], r)
PROOF
<1>1. [r EXCEPT !.status = s] \in Rows
  BY DEF Rows
<1>2. [r EXCEPT !.status = s].status = s
  BY DEF Rows
<1>3. SameReport([r EXCEPT !.status = s], r)
  BY DEF Rows, SameReport
<1> QED
  BY <1>1, <1>2, <1>3

LEMMA ClaimedRow ==
  ASSUME NEW r \in Rows
  PROVE  Claimed(r) \in Rows /\ Claimed(r).status = "claimed" /\ SameReport(Claimed(r), r)
PROOF
<1>1. "claimed" \in Statuses
  BY DEF Statuses
<1> QED
  BY <1>1, Statements DEF Claimed

LEMMA UploadingRow ==
  ASSUME NEW r \in Rows
  PROVE  /\ MarkedUploading(r) \in Rows /\ MarkedUploading(r).status = "uploading"
         /\ SameReport(MarkedUploading(r), r)
PROOF
<1>1. "uploading" \in Statuses
  BY DEF Statuses
<1> QED
  BY <1>1, Statements DEF MarkedUploading

LEMMA TerminalRow ==
  ASSUME NEW r \in Rows
  PROVE  /\ MarkedTerminal(r) \in Rows /\ MarkedTerminal(r).status = "dead_letter"
         /\ SameReport(MarkedTerminal(r), r)
PROOF
<1>1. "dead_letter" \in Statuses
  BY DEF Statuses
<1> QED
  BY <1>1, Statements DEF MarkedTerminal

LEMMA ReleasedRow ==
  ASSUME NEW r \in Rows
  PROVE  /\ Released(r) \in Rows /\ SameReport(Released(r), r)
         /\ r.status # "claimed" => Released(r).status = r.status
         /\ r.status = "claimed" =>
              Released(r).status = IF r.handle # None THEN "staged" ELSE "pending"
PROOF
<1>1. "staged" \in Statuses /\ "pending" \in Statuses
  BY DEF Statuses
<1>2. CASE r.status # "claimed"
  BY <1>2 DEF Released, SameReport
<1>3. CASE r.status = "claimed"
  <2> DEFINE s == IF r.handle # None THEN "staged" ELSE "pending"
  <2>1. s \in Statuses
    BY <1>1
  <2>2. Released(r) = [r EXCEPT !.status = s]
    BY <1>3 DEF Released
  <2> HIDE DEF s
  <2>3. Released(r) \in Rows /\ Released(r).status = s /\ SameReport(Released(r), r)
    BY <2>1, <2>2, Statements
  <2> QED
    BY <1>3, <2>3 DEF s
<1> QED
  BY <1>2, <1>3

LEMMA FailureRow ==
  ASSUME NEW r \in Rows
  PROVE  /\ MarkedFailure(r) \in Rows /\ SameReport(MarkedFailure(r), r)
         /\ MarkedFailure(r).status \in {"failed", "dead_letter"}
PROOF
<1> DEFINE s == IF r.retries + 1 >= MaxRetries THEN "dead_letter" ELSE "failed"
           n == r.retries + 1
<1>1. MarkedFailure(r) = [r EXCEPT !.status = s, !.retries = n]
  BY DEF MarkedFailure
<1>2. s \in Statuses /\ s \in {"failed", "dead_letter"}
  BY DEF Statuses
<1>3. n \in Nat
  BY DEF Rows
<1> HIDE DEF s, n
<1>4. [r EXCEPT !.status = s, !.retries = n] \in Rows
  BY <1>2, <1>3 DEF Rows
<1>5. [r EXCEPT !.status = s, !.retries = n].status = s
  BY <1>2, <1>3 DEF Rows
<1>6. SameReport([r EXCEPT !.status = s, !.retries = n], r)
  BY <1>2, <1>3 DEF Rows, SameReport
<1> QED
  BY <1>1, <1>2, <1>4, <1>5, <1>6

LEMMA StagedRow ==
  ASSUME NEW r \in Rows, NEW d \in Digests
  PROVE  /\ MarkedStaged(r, d) \in Rows /\ MarkedStaged(r, d).status = "staged"
         /\ MarkedStaged(r, d).handle = d /\ MarkedStaged(r, d).digest = d
PROOF
<1>1. "staged" \in Statuses /\ d \in Names
  BY DEF Statuses, Names
<1>2. MarkedStaged(r, d) \in Rows
  BY <1>1 DEF Rows, MarkedStaged
<1>3. MarkedStaged(r, d).status = "staged"
  BY <1>1 DEF Rows, MarkedStaged
<1>4. MarkedStaged(r, d).handle = d /\ MarkedStaged(r, d).digest = d
  BY <1>1 DEF Rows, MarkedStaged
<1> QED
  BY <1>2, <1>3, <1>4

LEMMA SucceededRow ==
  ASSUME NEW r \in Rows, NEW d \in Digests
  PROVE  /\ MarkedSucceeded(r, d) \in Rows /\ MarkedSucceeded(r, d).status = "succeeded"
         /\ MarkedSucceeded(r, d).etag = d /\ MarkedSucceeded(r, d).handle = r.handle
         /\ MarkedSucceeded(r, d).digest = r.digest
PROOF
<1>1. "succeeded" \in Statuses /\ d \in Names
  BY DEF Statuses, Names
<1>2. MarkedSucceeded(r, d) \in Rows
  BY <1>1 DEF Rows, MarkedSucceeded
<1>3. MarkedSucceeded(r, d).status = "succeeded" /\ MarkedSucceeded(r, d).etag = d
  BY <1>1 DEF Rows, MarkedSucceeded
<1>4. MarkedSucceeded(r, d).handle = r.handle /\ MarkedSucceeded(r, d).digest = r.digest
  BY <1>1 DEF Rows, MarkedSucceeded
<1> QED
  BY <1>2, <1>3, <1>4

LEMMA ClearedRow ==
  ASSUME NEW r \in Rows
  PROVE  /\ Cleared(r) \in Rows /\ Cleared(r).status = r.status /\ Cleared(r).handle = None
         /\ Cleared(r).digest = r.digest /\ Cleared(r).etag = r.etag
PROOF
<1>1. None \in Names
  BY DEF Names
<1>2. Cleared(r) \in Rows
  BY <1>1 DEF Rows, Cleared
<1>3. Cleared(r).status = r.status /\ Cleared(r).handle = None
  BY <1>1 DEF Rows, Cleared
<1>4. Cleared(r).digest = r.digest /\ Cleared(r).etag = r.etag
  BY <1>1 DEF Rows, Cleared
<1> QED
  BY <1>2, <1>3, <1>4

-----------------------------------------------------------------------------
(* Steps *)

Stands(k) ==
  /\ job[k].digest # None => job'[k].digest = job[k].digest
  /\ job[k].status \in {"succeeded", "dead_letter"} => job'[k].status = job[k].status

GoodStep == ReportsInv' /\ \A k \in Kinds : Stands(k)

(* Nothing but the row of k, its staged objects and its destination. *)
OnlyKind(k) ==
  \A j \in Kinds : j # k => /\ job'[j] = job[j] /\ staging'[j] = staging[j]
                            /\ external'[j] = external[j]

(* A step of the one worker on a row that is there. *)
LEMMA WorkerStepIsGood ==
  ASSUME ReportsInv, OneWorker, NEW w \in Workers, NEW k \in Kinds,
         TypeOK', OnlyKind(k), UNCHANGED <<recon, trigger>>,
         KindInv(k)', Stands(k), HandInv(w)', job[k].status # "none"
  PROVE  GoodStep
PROOF
<1>1. ASSUME NEW j \in Kinds PROVE KindInv(j)' /\ Stands(j)
  <2>1. CASE j = k
    BY <2>1
  <2>2. CASE j # k
    BY <2>2 DEF OnlyKind, ReportsInv, KindInv, Stands
  <2> QED
    BY <2>1, <2>2
<1>2. \A v \in Workers : HandInv(v)'
  BY DEF OneWorker
<1>3. \A j \in Kinds : job[j].status = "succeeded" => job'[j].status = "succeeded"
  BY <1>1 DEF Stands
<1>4. recon.todo \subseteq Kinds
  BY DEF ReportsInv, TypeOK, Passes
<1>5. ReconInv'
  BY <1>3, <1>4 DEF ReportsInv, ReconInv
<1>6. \A j \in Kinds : job[j].status = "none" => job'[j].status = "none"
  BY DEF OnlyKind
<1>7. TriggerInv'
  BY <1>6 DEF ReportsInv, TriggerInv, TypeOK
<1> QED
  BY <1>1, <1>2, <1>5, <1>7 DEF GoodStep, ReportsInv

(* A step of the other parts on the row of k, or on none, that leaves the  *)
(* worker alone.                                                           *)
LEMMA HandKept ==
  ASSUME ReportsInv, NEW w \in Workers, NEW k \in Kinds, OnlyKind(k), UNCHANGED worker,
         worker[w].pc # "idle" /\ worker[w].job = k => HandInv(w)'
  PROVE  HandInv(w)'
PROOF
<1>1. CASE worker[w].pc # "idle" /\ worker[w].job = k
  BY <1>1
<1>2. CASE worker[w].pc = "idle"
  BY <1>2 DEF HandInv
<1>3. CASE worker[w].pc # "idle" /\ worker[w].job # k
  <2>1. HandInv(w) /\ worker[w].job \in Kinds
    BY <1>3 DEF ReportsInv, HandInv
  <2>2. /\ job'[worker[w].job] = job[worker[w].job]
        /\ staging'[worker[w].job] = staging[worker[w].job]
        /\ external'[worker[w].job] = external[worker[w].job]
    BY <1>3, <2>1 DEF OnlyKind
  <2> QED
    BY <2>1, <2>2 DEF HandInv, Row, Object
<1> QED
  BY <1>1, <1>2, <1>3

LEMMA HandTypes ==
  ASSUME ReportsInv, NEW w \in Workers
  PROVE  /\ worker[w] \in Hands /\ worker[w].digest \in Names
         /\ worker[w].pc \in Places /\ worker[w].bytes \in Bytes
         /\ worker[w].pc # "idle" => /\ worker[w].job \in Kinds
                                     /\ Row(w) \in Rows /\ Row(w) = job[worker[w].job]
                                     /\ KindInv(worker[w].job)
PROOF
<1>1. worker[w] \in Hands
  BY DEF ReportsInv, TypeOK
<1>2. worker[w].digest \in Names /\ worker[w].pc \in Places /\ worker[w].bytes \in Bytes
  BY <1>1 DEF Hands
<1>3. worker[w].pc # "idle" => worker[w].job \in Kinds
  BY DEF ReportsInv, HandInv
<1> QED
  BY <1>1, <1>2, <1>3 DEF ReportsInv, TypeOK, Row

LEMMA HandStatus ==
  ASSUME ReportsInv, NEW w \in Workers, worker[w].pc # "idle"
  PROVE  /\ worker[w].pc \notin {"delete", "clear"} =>
              Row(w).status \in {"claimed", "pending", "staged", "uploading"}
         /\ worker[w].pc \in {"delete", "clear"} => Row(w).status = "succeeded"
PROOF
<1>1. HandInv(w) /\ worker[w].pc \in Places
  BY HandTypes DEF ReportsInv
<1> QED
  BY <1>1 DEF HandInv, Places

LEMMA GoesOn ==
  ASSUME ReportsInv, NEW w \in Workers, NEW pc \in Places, Goes(w, pc)
  PROVE  /\ worker' \in [Workers -> Hands] /\ worker'[w].pc = pc
         /\ worker'[w].job = worker[w].job /\ worker'[w].digest = worker[w].digest
         /\ worker'[w].bytes = worker[w].bytes
PROOF
<1> DEFINE h == [worker[w] EXCEPT !.pc = pc]
<1>1. worker[w] \in Hands
  BY HandTypes
<1>2. worker' = [worker EXCEPT ![w] = h]
  BY DEF Goes
<1>3. h \in Hands
  BY <1>1 DEF Hands
<1>4. h.pc = pc /\ h.job = worker[w].job
  BY <1>1 DEF Hands
<1>5. h.digest = worker[w].digest /\ h.bytes = worker[w].bytes
  BY <1>1 DEF Hands
<1> HIDE DEF h
<1>6. worker' \in [Workers -> Hands] /\ worker'[w] = h
  BY <1>2, <1>3 DEF ReportsInv, TypeOK
<1> QED
  BY <1>4, <1>5, <1>6

LEMMA IdleHand == Idle \in Hands /\ Idle.pc = "idle"
PROOF
  BY DEF Idle, Hands, Places, Names, Bytes

LEMMA GaveUp ==
  ASSUME ReportsInv, NEW w \in Workers, GivesUp(w)
  PROVE  worker' \in [Workers -> Hands] /\ HandInv(w)'
PROOF
<1>1. worker' \in [Workers -> Hands] /\ worker'[w] = Idle
  BY IdleHand DEF GivesUp, ReportsInv, TypeOK
<1>2. worker'[w].pc = "idle"
  BY <1>1, IdleHand
<1> QED
  BY <1>1, <1>2 DEF HandInv

LEMMA RowWritten ==
  ASSUME ReportsInv, NEW k \in Kinds, NEW row \in Rows, job' = [job EXCEPT ![k] = row]
  PROVE  job' \in [Kinds -> Rows] /\ job'[k] = row /\ \A j \in Kinds : j # k => job'[j] = job[j]
PROOF
  BY DEF ReportsInv, TypeOK

(* No staged object of k is lost. *)
Stages(k) ==
  /\ staging' \in [Kinds -> [Digests -> Bytes]]
  /\ \A j \in Kinds : j # k => staging'[j] = staging[j]
  /\ \A d \in Digests : staging[k][d] # "none" => staging'[k][d] # "none"

LEMMA StagingKept ==
  ASSUME ReportsInv, NEW k, UNCHANGED staging
  PROVE  Stages(k)
PROOF
  BY DEF Stages, ReportsInv, TypeOK

LEMMA StagedIsPut ==
  ASSUME ReportsInv, NEW k \in Kinds, NEW d \in Digests, staging' = StagedPut(k, d)
  PROVE  Stages(k) /\ staging'[k][d] = "intact"
PROOF
<1>1. staging \in [Kinds -> [Digests -> Bytes]] /\ "intact" \in Bytes /\ "intact" # "none"
  BY DEF ReportsInv, TypeOK, Bytes
<1>2. staging' = [staging EXCEPT ![k][d] = "intact"]
  BY DEF StagedPut
<1>3. staging' \in [Kinds -> [Digests -> Bytes]]
  BY <1>1, <1>2
<1>4. \A j \in Kinds : j # k => staging'[j] = staging[j]
  BY <1>1, <1>2
<1>5. staging'[k] = [staging[k] EXCEPT ![d] = "intact"] /\ staging[k] \in [Digests -> Bytes]
  BY <1>1, <1>2
<1>6. /\ staging'[k][d] = "intact"
      /\ \A e \in Digests : e # d => staging'[k][e] = staging[k][e]
  BY <1>5
<1>7. \A e \in Digests : staging[k][e] # "none" => staging'[k][e] # "none"
  BY <1>1, <1>6
<1> QED
  BY <1>3, <1>4, <1>6, <1>7 DEF Stages

(* A row that keeps its report is as good as it was. *)
LEMMA RowKept ==
  ASSUME ReportsInv, NEW k \in Kinds, Stages(k), external'[k] = external[k],
         job'[k] \in Rows, SameReport(job'[k], job[k]), job'[k].status # "none",
         \/ job[k].status # "succeeded" /\ job'[k].status # "succeeded"
         \/ job'[k].status = job[k].status
  PROVE  KindInv(k)'
PROOF
<1>1. KindInv(k) /\ job[k] \in Rows
  BY DEF ReportsInv, TypeOK
<1>2. job[k].handle \in Names
  BY <1>1 DEF Rows
<1>3. job[k].handle # None => job[k].handle \in Digests
  BY <1>2 DEF Names
<1> QED
  BY <1>1, <1>3 DEF KindInv, SameReport, Stages

(* However a job fails: the worker gives up, and a failure is recorded or  *)
(* not.                                                                    *)
LEMMA FailureIsGood ==
  ASSUME ReportsInv, OneWorker, NEW w \in Workers,
         worker[w].pc \notin {"idle", "delete", "clear"}, GivesUp(w),
         NEW row \in Rows, SameReport(row, Row(w)),
         row.status \in {"failed", "dead_letter"},
         job' = [job EXCEPT ![worker[w].job] = row] \/ UNCHANGED job,
         Stages(worker[w].job), UNCHANGED <<created, recon, trigger>>,
         external' \in [Kinds -> [digest : Names, bytes : Bytes]],
         \A j \in Kinds : j # worker[w].job => external'[j] = external[j]
  PROVE  GoodStep
PROOF
<1>0. PICK k \in Kinds : k = worker[w].job
  BY HandTypes
<1>1. k \in Kinds /\ Row(w) = job[k] /\ KindInv(k) /\ job[k] \in Rows
  BY <1>0, HandTypes
<1>2. job[k].status \in {"claimed", "pending", "staged", "uploading"}
  BY <1>1, HandStatus
<1>3. /\ job' \in [Kinds -> Rows] /\ job'[k] \in {row, job[k]}
      /\ \A j \in Kinds : j # k => job'[j] = job[j]
  <2>1. CASE UNCHANGED job
    BY <2>1 DEF ReportsInv, TypeOK
  <2>2. CASE job' = [job EXCEPT ![worker[w].job] = row]
    BY <1>0, <1>1, <2>2, RowWritten
  <2> QED
    BY <2>1, <2>2
<1>4. worker' \in [Workers -> Hands] /\ HandInv(w)'
  BY GaveUp
<1>5. TypeOK'
  BY <1>3, <1>4 DEF ReportsInv, TypeOK, Stages
<1>6. OnlyKind(k)
  BY <1>0, <1>3 DEF OnlyKind, Stages
<1>7. SameReport(job'[k], job[k]) /\ job'[k].status \notin {"none", "succeeded"}
  BY <1>0, <1>1, <1>2, <1>3 DEF SameReport
<1>8. Stands(k)
  BY <1>2, <1>7 DEF Stands, SameReport
<1>9. KindInv(k)'
  <2>1. job[k].handle # None => job[k].handle \in Digests
    BY <1>1 DEF Rows, Names
  <2> QED
    BY <1>0, <1>1, <1>2, <1>7, <2>1 DEF KindInv, SameReport, Stages
<1> QED
  BY <1>1, <1>2, <1>4, <1>5, <1>6, <1>8, <1>9, WorkerStepIsGood

(* A worker that gives up without a word. *)
LEMMA SilenceIsGood ==
  ASSUME ReportsInv, OneWorker, NEW w \in Workers, worker[w].pc # "idle", GivesUp(w),
         UNCHANGED <<job, created, recon, trigger, external, staging>>
  PROVE  GoodStep
PROOF
<1>0. PICK k \in Kinds : k = worker[w].job
  BY HandTypes
<1>1. k \in Kinds /\ Row(w) = job[k] /\ KindInv(k)
  BY <1>0, HandTypes
<1>2. job[k].status # "none"
  BY <1>1, HandStatus
<1>3. worker' \in [Workers -> Hands] /\ HandInv(w)'
  BY GaveUp
<1>4. TypeOK' /\ OnlyKind(k) /\ Stands(k)
  BY <1>3 DEF ReportsInv, TypeOK, OnlyKind, Stands
<1>5. KindInv(k)'
  BY <1>1 DEF KindInv
<1> QED
  BY <1>1, <1>2, <1>3, <1>4, <1>5, WorkerStepIsGood

-----------------------------------------------------------------------------
(* The worker *)

Frame == UNCHANGED <<created, recon, trigger>>

LEMMA ClaimIsGood ==
  ASSUME ReportsInv, OneWorker, NEW w \in Workers, Claim(w), Frame
  PROVE  GoodStep
PROOF
<1>1. PICK i \in DOMAIN created :
        LET k == created[i]
            reuse == job[k].handle # None /\ job[k].digest # None
        IN  /\ Runnable(job[k])
            /\ job' = [job EXCEPT ![k] = Claimed(@)]
            /\ worker' = [worker EXCEPT ![w] =
                 [Idle EXCEPT !.job = k, !.pc = IF reuse THEN "verify" ELSE "load",
                              !.digest = job[k].handle]]
  BY DEF Claim
<1>2. created \in Seq(Kinds)
  BY DEF ReportsInv, TypeOK
<1>3. PICK k \in Kinds : k = created[i]
  BY <1>2
<1>4. UNCHANGED <<staging, external, created, recon, trigger>>
  BY DEF Claim, Frame
<1>5. job[k] \in Rows /\ KindInv(k)
  BY DEF ReportsInv, TypeOK
<1>6. job[k].status \in {"pending", "failed", "staged", "uploading"}
  BY <1>1, <1>3 DEF Runnable
<1>7. job' = [job EXCEPT ![k] = Claimed(job[k])]
  BY <1>1, <1>3
<1>8. /\ job' \in [Kinds -> Rows] /\ job'[k] = Claimed(job[k])
      /\ \A j \in Kinds : j # k => job'[j] = job[j]
  BY <1>5, <1>7, ClaimedRow, RowWritten
<1>9. job'[k].status = "claimed" /\ SameReport(job'[k], job[k])
  BY <1>5, <1>8, ClaimedRow
<1>10. job[k].handle = job[k].digest /\ job[k].handle \in Names
  BY <1>5, <1>6 DEF KindInv, Rows
<1> DEFINE pc == IF job[k].handle # None THEN "verify" ELSE "load"
           h == [Idle EXCEPT !.job = k, !.pc = pc, !.digest = job[k].handle]
<1>11. worker' = [worker EXCEPT ![w] = h]
  BY <1>1, <1>3, <1>10
<1>12. pc \in Places
  BY DEF Places
<1>13. h \in Hands
  BY <1>10, <1>12 DEF Idle, Hands, Bytes
<1>14. h.pc = pc /\ h.job = k /\ h.digest = job[k].handle
  BY DEF Idle
<1> HIDE DEF h
<1>15. worker' \in [Workers -> Hands] /\ worker'[w] = h
  BY <1>11, <1>13 DEF ReportsInv, TypeOK
<1>16. TypeOK' /\ OnlyKind(k)
  BY <1>4, <1>8, <1>15 DEF ReportsInv, TypeOK, OnlyKind
<1>17. Stages(k) /\ external'[k] = external[k]
  BY <1>4, StagingKept
<1>18. KindInv(k)'
  BY <1>6, <1>8, <1>9, <1>17, RowKept
<1>19. Stands(k)
  BY <1>6, <1>9 DEF Stands, SameReport
<1>20. HandInv(w)'
  <2>1. Row(w)' = job'[k]
    BY <1>14, <1>15 DEF Row
  <2>2. job[k].handle # None => job[k].handle \in Digests
    BY <1>10 DEF Names
  <2>3. worker'[w].pc = pc /\ worker'[w].job = k /\ worker'[w].digest = job[k].handle
    BY <1>14, <1>15
  <2>4. CASE job[k].handle # None
    BY <1>9, <2>1, <2>2, <2>3, <2>4 DEF HandInv, SameReport
  <2>5. CASE job[k].handle = None
    BY <1>9, <2>1, <2>3, <2>5 DEF HandInv, SameReport
  <2> QED
    BY <2>4, <2>5
<1> QED
  BY <1>4, <1>6, <1>16, <1>18, <1>19, <1>20, WorkerStepIsGood

LEMMA MismatchIsGood ==
  ASSUME ReportsInv, OneWorker, NEW w \in Workers, worker[w].pc \in {"verify", "fetch"},
         Mismatch(w), Frame, UNCHANGED <<staging, external>>
  PROVE  GoodStep
PROOF
<1>1. Row(w) \in Rows /\ worker[w].job \in Kinds
  BY HandTypes
<1>2. /\ GivesUp(w)
      /\ job' = [job EXCEPT ![worker[w].job] = MarkedTerminal(Row(w))] \/ UNCHANGED job
  BY DEF Mismatch, Writes
<1>3. Stages(worker[w].job)
  BY StagingKept
<1>4. external' \in [Kinds -> [digest : Names, bytes : Bytes]]
  BY DEF ReportsInv, TypeOK
<1> QED
  BY <1>1, <1>2, <1>3, <1>4, TerminalRow, FailureIsGood DEF Frame

(* The worker goes on and the row keeps its report. *)
LEMMA GoingOnIsGood ==
  ASSUME ReportsInv, OneWorker, NEW w \in Workers, NEW k \in Kinds, k = worker[w].job,
         worker[w].pc # "idle", worker' \in [Workers -> Hands], HandInv(w)',
         job' \in [Kinds -> Rows], \A j \in Kinds : j # k => job'[j] = job[j],
         SameReport(job'[k], job[k]), job'[k].status \notin {"none", "succeeded"},
         job[k].status \notin {"none", "succeeded", "dead_letter"},
         Stages(k), external' \in [Kinds -> [digest : Names, bytes : Bytes]],
         \A j \in Kinds : j # k => external'[j] = external[j], Frame
  PROVE  GoodStep
PROOF
<1>1. KindInv(k) /\ job[k] \in Rows
  BY DEF ReportsInv, TypeOK
<1>2. TypeOK' /\ OnlyKind(k)
  BY DEF ReportsInv, TypeOK, OnlyKind, Stages, Frame
<1>3. Stands(k)
  BY DEF Stands, SameReport
<1>4. KindInv(k)'
  <2>1. job[k].handle # None => job[k].handle \in Digests
    BY <1>1 DEF Rows, Names
  <2> QED
    BY <1>1, <2>1 DEF KindInv, SameReport, Stages
<1> QED
  BY <1>2, <1>3, <1>4, WorkerStepIsGood DEF Frame

LEMMA VerifyIsGood ==
  ASSUME ReportsInv, OneWorker, NEW w \in Workers, Verify(w), Frame
  PROVE  GoodStep
PROOF
<1>1. worker[w].pc = "verify" /\ HandInv(w) /\ UNCHANGED <<staging, external>>
  BY DEF Verify, At, ReportsInv
<1>2. PICK k \in Kinds : k = worker[w].job
  BY <1>1, HandTypes
<1>3. CASE GivesUp(w) /\ UNCHANGED job
  BY <1>1, <1>3, SilenceIsGood DEF Frame
<1>4. CASE Mismatch(w)
  BY <1>1, <1>4, MismatchIsGood
<1>5. CASE Goes(w, "mark_uploading") /\ UNCHANGED job
  <2>1. "mark_uploading" \in Places
    BY DEF Places
  <2>2. /\ worker' \in [Workers -> Hands] /\ worker'[w].pc = "mark_uploading"
        /\ worker'[w].job = k /\ worker'[w].digest = worker[w].digest
    BY <1>2, <1>5, <2>1, GoesOn
  <2>3. Row(w)' = job[k] /\ Row(w) = job[k]
    BY <1>2, <1>5, <2>2 DEF Row
  <2>4. HandInv(w)'
    BY <1>1, <2>2, <2>3 DEF HandInv
  <2>5. job[k].status \in {"claimed", "staged"}
    BY <1>1, <2>3 DEF HandInv
  <2>6. /\ SameReport(job'[k], job[k]) /\ job' \in [Kinds -> Rows]
        /\ external' \in [Kinds -> [digest : Names, bytes : Bytes]]
    BY <1>1, <1>5 DEF SameReport, ReportsInv, TypeOK
  <2> QED
    BY <1>1, <1>2, <1>5, <2>2, <2>4, <2>5, <2>6, StagingKept, GoingOnIsGood
<1> QED
  BY <1>3, <1>4, <1>5 DEF Verify

LEMMA LoadIsGood ==
  ASSUME ReportsInv, OneWorker, NEW w \in Workers, Load(w), Frame
  PROVE  GoodStep
PROOF
<1>1. worker[w].pc = "load" /\ HandInv(w) /\ UNCHANGED <<staging, external>>
  BY DEF Load, At, ReportsInv
<1>2. PICK k \in Kinds : k = worker[w].job
  BY <1>1, HandTypes
<1>3. Row(w) = job[k] /\ job[k] \in Rows /\ worker[w] \in Hands
  BY <1>1, <1>2, HandTypes
<1>4. external' \in [Kinds -> [digest : Names, bytes : Bytes]] /\ Stages(k)
  BY <1>1, StagingKept DEF ReportsInv, TypeOK
<1>5. CASE GivesUp(w) /\ Records(w, MarkedTerminal(Row(w)))
  BY <1>1, <1>2, <1>3, <1>4, <1>5, TerminalRow, FailureIsGood DEF Records, Frame
<1>6. ASSUME NEW d \in Digests,
             worker' = [worker EXCEPT ![w].pc = "render", ![w].digest = d], UNCHANGED job
      PROVE  GoodStep
  <2> DEFINE h == [worker[w] EXCEPT !.pc = "render", !.digest = d]
  <2>1. "render" \in Places /\ d \in Names
    BY DEF Places, Names
  <2>2. h \in Hands
    BY <1>3, <2>1 DEF Hands
  <2>3. h.pc = "render" /\ h.job = worker[w].job /\ h.digest = d
    BY <1>3 DEF Hands
  <2>4. worker' = [worker EXCEPT ![w] = h]
    BY <1>6 DEF ReportsInv, TypeOK
  <2> HIDE DEF h
  <2>5. worker' \in [Workers -> Hands] /\ worker'[w] = h
    BY <2>2, <2>4 DEF ReportsInv, TypeOK
  <2>6. Row(w)' = job[k]
    BY <1>2, <1>6, <2>3, <2>5 DEF Row
  <2>7. HandInv(w)'
    BY <1>1, <1>2, <1>3, <2>3, <2>5, <2>6 DEF HandInv
  <2>8. job[k].status \in {"claimed", "pending"}
    BY <1>1, <1>3 DEF HandInv
  <2>9. SameReport(job'[k], job[k]) /\ job' \in [Kinds -> Rows]
    BY <1>6 DEF SameReport, ReportsInv, TypeOK
  <2> QED
    BY <1>1, <1>2, <1>4, <1>6, <2>5, <2>7, <2>8, <2>9, GoingOnIsGood
<1> QED
  BY <1>5, <1>6 DEF Load

LEMMA RenderIsGood ==
  ASSUME ReportsInv, OneWorker, NEW w \in Workers, RenderAndPut(w), Frame
  PROVE  GoodStep
PROOF
<1>1. worker[w].pc = "render" /\ HandInv(w) /\ UNCHANGED external
  BY DEF RenderAndPut, At, ReportsInv
<1>2. PICK k \in Kinds : k = worker[w].job
  BY <1>1, HandTypes
<1>3. PICK d \in Digests : d = worker[w].digest
  BY <1>1 DEF HandInv
<1>4. Row(w) = job[k] /\ job[k] \in Rows /\ job[k].status \in {"claimed", "pending"}
  BY <1>1, <1>2, HandTypes DEF HandInv
<1>5. external' \in [Kinds -> [digest : Names, bytes : Bytes]]
  BY <1>1 DEF ReportsInv, TypeOK
<1>6. CASE GivesUp(w) /\ Records(w, MarkedTerminal(Row(w))) /\ UNCHANGED staging
  <2>1. Stages(k)
    BY <1>6, StagingKept
  <2> QED
    BY <1>1, <1>2, <1>4, <1>5, <1>6, <2>1, TerminalRow, FailureIsGood DEF Records, Frame
<1>7. CASE GivesUp(w) /\ staging' = StagedPut(k, d) /\ UNCHANGED job
  <2>1. Stages(k)
    BY <1>7, StagedIsPut
  <2> QED
    BY <1>1, <1>2, <1>4, <1>5, <1>7, <2>1, TerminalRow, FailureIsGood DEF Frame
<1>8. CASE Goes(w, "mark_staged") /\ staging' = StagedPut(k, d) /\ UNCHANGED job
  <2>1. "mark_staged" \in Places
    BY DEF Places
  <2>2. /\ worker' \in [Workers -> Hands] /\ worker'[w].pc = "mark_staged"
        /\ worker'[w].job = k /\ worker'[w].digest = d
    BY <1>2, <1>3, <1>8, <2>1, GoesOn
  <2>3. Stages(k) /\ staging'[k][d] = "intact"
    BY <1>8, StagedIsPut
  <2>4. Row(w)' = job[k] /\ Object(w)' = "intact"
    BY <1>8, <2>2, <2>3 DEF Row, Object
  <2>5. HandInv(w)'
    BY <1>1, <1>4, <2>2, <2>4 DEF HandInv
  <2>6. SameReport(job'[k], job[k]) /\ job' \in [Kinds -> Rows]
    BY <1>8 DEF SameReport, ReportsInv, TypeOK
  <2> QED
    BY <1>1, <1>2, <1>4, <1>5, <1>8, <2>2, <2>3, <2>5, <2>6, GoingOnIsGood
<1> QED
  BY <1>2, <1>3, <1>6, <1>7, <1>8 DEF RenderAndPut

LEMMA MarkStagedIsGood ==
  ASSUME ReportsInv, OneWorker, NEW w \in Workers, MarkStaged(w), Frame
  PROVE  GoodStep
PROOF
<1>1. worker[w].pc = "mark_staged" /\ HandInv(w) /\ UNCHANGED <<staging, external>>
  BY DEF MarkStaged, At, ReportsInv
<1>2. PICK k \in Kinds : k = worker[w].job
  BY <1>1, HandTypes
<1>3. PICK d \in Digests : d = worker[w].digest
  BY <1>1 DEF HandInv
<1>4. /\ Row(w) = job[k] /\ job[k] \in Rows /\ job[k].status \in {"claimed", "pending"}
      /\ job[k].handle = None /\ KindInv(k)
  BY <1>1, <1>2, HandTypes DEF HandInv
<1>5. CASE GivesUp(w) /\ UNCHANGED job
  BY <1>1, <1>5, SilenceIsGood DEF Frame
<1>6. CASE Goes(w, "mark_uploading") /\ Writes(w, MarkedStaged(Row(w), worker[w].digest))
  <2>1. "mark_uploading" \in Places
    BY DEF Places
  <2>2. /\ worker' \in [Workers -> Hands] /\ worker'[w].pc = "mark_uploading"
        /\ worker'[w].job = k /\ worker'[w].digest = d
    BY <1>2, <1>3, <1>6, <2>1, GoesOn
  <2>3. job' = [job EXCEPT ![k] = MarkedStaged(job[k], d)]
    BY <1>2, <1>3, <1>4, <1>6 DEF Writes
  <2>4. /\ job' \in [Kinds -> Rows] /\ job'[k] = MarkedStaged(job[k], d)
        /\ \A j \in Kinds : j # k => job'[j] = job[j]
    BY <1>4, <2>3, StagedRow, RowWritten
  <2>5. job'[k].status = "staged" /\ job'[k].handle = d /\ job'[k].digest = d
    BY <1>4, <2>4, StagedRow
  <2>6. TypeOK' /\ OnlyKind(k)
    BY <1>1, <2>2, <2>4 DEF ReportsInv, TypeOK, OnlyKind, Frame
  <2>7. job[k].digest = None
    BY <1>4 DEF KindInv
  <2>8. Stands(k)
    BY <1>4, <2>7 DEF Stands
  <2>9. staging'[k][d] # "none"
    BY <1>1, <1>2, <1>3 DEF HandInv, Object
  <2>10. KindInv(k)'
    BY <2>5, <2>9 DEF KindInv
  <2>11. Row(w)' = job'[k]
    BY <2>2 DEF Row
  <2>12. HandInv(w)'
    BY <2>2, <2>5, <2>11 DEF HandInv
  <2> QED
    BY <1>4, <2>6, <2>8, <2>10, <2>12, WorkerStepIsGood DEF Frame
<1> QED
  BY <1>5, <1>6 DEF MarkStaged

LEMMA MarkUploadingIsGood ==
  ASSUME ReportsInv, OneWorker, NEW w \in Workers, MarkUploading(w), Frame
  PROVE  GoodStep
PROOF
<1>1. worker[w].pc = "mark_uploading" /\ HandInv(w) /\ UNCHANGED <<staging, external>>
  BY DEF MarkUploading, At, ReportsInv
<1>2. PICK k \in Kinds : k = worker[w].job
  BY <1>1, HandTypes
<1>3. /\ Row(w) = job[k] /\ job[k] \in Rows /\ job[k].status \in {"claimed", "staged"}
      /\ job[k].handle = worker[w].digest /\ worker[w].digest \in Digests
  BY <1>1, <1>2, HandTypes DEF HandInv
<1>4. CASE GivesUp(w) /\ UNCHANGED job
  BY <1>1, <1>4, SilenceIsGood DEF Frame
<1>5. CASE Goes(w, "fetch") /\ Writes(w, MarkedUploading(Row(w)))
  <2>1. "fetch" \in Places
    BY DEF Places
  <2>2. /\ worker' \in [Workers -> Hands] /\ worker'[w].pc = "fetch"
        /\ worker'[w].job = k /\ worker'[w].digest = worker[w].digest
    BY <1>2, <1>5, <2>1, GoesOn
  <2>3. job' = [job EXCEPT ![k] = MarkedUploading(job[k])]
    BY <1>2, <1>3, <1>5 DEF Writes
  <2>4. /\ job' \in [Kinds -> Rows] /\ job'[k] = MarkedUploading(job[k])
        /\ \A j \in Kinds : j # k => job'[j] = job[j]
    BY <1>3, <2>3, UploadingRow, RowWritten
  <2>5. job'[k].status = "uploading" /\ SameReport(job'[k], job[k])
    BY <1>3, <2>4, UploadingRow
  <2>6. Row(w)' = job'[k]
    BY <2>2 DEF Row
  <2>7. HandInv(w)'
    BY <1>3, <2>2, <2>5, <2>6 DEF HandInv, SameReport
  <2>8. Stages(k) /\ external' \in [Kinds -> [digest : Names, bytes : Bytes]]
    BY <1>1, StagingKept DEF ReportsInv, TypeOK
  <2> QED
    BY <1>1, <1>2, <1>3, <2>2, <2>4, <2>5, <2>7, <2>8, GoingOnIsGood
<1> QED
  BY <1>4, <1>5 DEF MarkUploading

LEMMA FetchIsGood ==
  ASSUME ReportsInv, OneWorker, NEW w \in Workers, Fetch(w), Frame
  PROVE  GoodStep
PROOF
<1>1. worker[w].pc = "fetch" /\ HandInv(w) /\ UNCHANGED <<staging, external>>
  BY DEF Fetch, At, ReportsInv
<1>2. PICK k \in Kinds : k = worker[w].job
  BY <1>1, HandTypes
<1>3. /\ Row(w) = job[k] /\ job[k] \in Rows /\ job[k].status = "uploading"
      /\ job[k].handle = worker[w].digest /\ worker[w].digest \in Digests
      /\ worker[w] \in Hands
  BY <1>1, <1>2, HandTypes DEF HandInv
<1>4. Stages(k) /\ external' \in [Kinds -> [digest : Names, bytes : Bytes]]
  BY <1>1, StagingKept DEF ReportsInv, TypeOK
<1>5. CASE Mismatch(w)
  BY <1>1, <1>5, MismatchIsGood
<1>6. CASE GivesUp(w) /\ Records(w, MarkedFailure(Row(w)))
  BY <1>1, <1>2, <1>3, <1>4, <1>6, FailureRow, FailureIsGood DEF Records, Frame
<1>7. CASE /\ Object(w) = "intact" /\ UNCHANGED job
           /\ worker' = [worker EXCEPT ![w].pc = "upload", ![w].bytes = Object(w)]
  <2> DEFINE h == [worker[w] EXCEPT !.pc = "upload", !.bytes = "intact"]
  <2>1. "upload" \in Places /\ "intact" \in Bytes
    BY DEF Places, Bytes
  <2>2. h \in Hands
    BY <1>3, <2>1 DEF Hands
  <2>3. h.pc = "upload" /\ h.job = worker[w].job
    BY <1>3 DEF Hands
  <2>4. h.bytes = "intact" /\ h.digest = worker[w].digest
    BY <1>3 DEF Hands
  <2>5. worker' = [worker EXCEPT ![w] = h]
    BY <1>7 DEF ReportsInv, TypeOK
  <2> HIDE DEF h
  <2>6. worker' \in [Workers -> Hands] /\ worker'[w] = h
    BY <2>2, <2>5 DEF ReportsInv, TypeOK
  <2>7. Row(w)' = job[k]
    BY <1>2, <1>7, <2>3, <2>6 DEF Row
  <2>8. HandInv(w)'
    BY <1>2, <1>3, <2>3, <2>4, <2>6, <2>7 DEF HandInv
  <2>9. SameReport(job'[k], job[k]) /\ job' \in [Kinds -> Rows]
    BY <1>7 DEF SameReport, ReportsInv, TypeOK
  <2> QED
    BY <1>1, <1>2, <1>3, <1>4, <1>7, <2>6, <2>8, <2>9, GoingOnIsGood
<1> QED
  BY <1>5, <1>6, <1>7 DEF Fetch

LEMMA UploadIsGood ==
  ASSUME ReportsInv, OneWorker, NEW w \in Workers, Upload(w), Frame
  PROVE  GoodStep
PROOF
<1>1. worker[w].pc = "upload" /\ HandInv(w) /\ UNCHANGED staging
  BY DEF Upload, At, ReportsInv
<1>2. PICK k \in Kinds : k = worker[w].job
  BY <1>1, HandTypes
<1>3. /\ Row(w) = job[k] /\ job[k] \in Rows /\ job[k].status = "uploading"
      /\ job[k].handle = worker[w].digest /\ worker[w].digest \in Digests
      /\ worker[w].bytes = "intact"
  BY <1>1, <1>2, HandTypes DEF HandInv
<1> DEFINE o == [digest |-> worker[w].digest, bytes |-> "intact"]
           sent == [external EXCEPT ![k] = o]
<1>4. o \in [digest : Names, bytes : Bytes]
  BY <1>3 DEF Names, Bytes
<1>5. /\ external' \in {external, sent}
      /\ \/ external' = sent /\ Goes(w, "mark_succeeded") /\ UNCHANGED job
         \/ GivesUp(w) /\ Records(w, MarkedFailure(Row(w)))
  BY <1>2, <1>3 DEF Upload
<1> HIDE DEF o
<1>6. /\ external' \in [Kinds -> [digest : Names, bytes : Bytes]]
      /\ \A j \in Kinds : j # k => external'[j] = external[j]
      /\ external' = sent => external'[k] = o
  BY <1>4, <1>5 DEF ReportsInv, TypeOK
<1>7. Stages(k)
  BY <1>1, StagingKept
<1>8. CASE GivesUp(w) /\ Records(w, MarkedFailure(Row(w)))
  BY <1>1, <1>2, <1>3, <1>6, <1>7, <1>8, FailureRow, FailureIsGood DEF Records, Frame
<1>9. CASE external' = sent /\ Goes(w, "mark_succeeded") /\ UNCHANGED job
  <2>1. "mark_succeeded" \in Places
    BY DEF Places
  <2>2. /\ worker' \in [Workers -> Hands] /\ worker'[w].pc = "mark_succeeded"
        /\ worker'[w].job = k /\ worker'[w].digest = worker[w].digest
    BY <1>2, <1>9, <2>1, GoesOn
  <2>3. Row(w)' = job[k]
    BY <1>9, <2>2 DEF Row
  <2>4. external'[k] = [digest |-> worker[w].digest, bytes |-> "intact"]
    BY <1>6, <1>9 DEF o
  <2>5. HandInv(w)'
    BY <1>3, <2>2, <2>3, <2>4 DEF HandInv
  <2>6. SameReport(job'[k], job[k]) /\ job' \in [Kinds -> Rows]
    BY <1>9 DEF SameReport, ReportsInv, TypeOK
  <2> QED
    BY <1>1, <1>2, <1>3, <1>6, <1>7, <1>9, <2>2, <2>5, <2>6, GoingOnIsGood
<1> QED
  BY <1>5, <1>8, <1>9

LEMMA MarkSucceededIsGood ==
  ASSUME ReportsInv, OneWorker, NEW w \in Workers, MarkSucceeded(w), Frame
  PROVE  GoodStep
PROOF
<1>1. worker[w].pc = "mark_succeeded" /\ HandInv(w) /\ UNCHANGED <<staging, external>>
  BY DEF MarkSucceeded, At, ReportsInv
<1>2. PICK k \in Kinds : k = worker[w].job
  BY <1>1, HandTypes
<1>3. PICK d \in Digests : d = worker[w].digest
  BY <1>1 DEF HandInv
<1>4. /\ Row(w) = job[k] /\ job[k] \in Rows /\ job[k].status = "uploading"
      /\ external[k] = [digest |-> d, bytes |-> "intact"] /\ KindInv(k)
  BY <1>1, <1>2, <1>3, HandTypes DEF HandInv
<1>5. CASE GivesUp(w) /\ UNCHANGED job
  BY <1>1, <1>5, SilenceIsGood DEF Frame
<1>6. CASE Goes(w, "delete") /\ Writes(w, MarkedSucceeded(Row(w), worker[w].digest))
  <2>1. "delete" \in Places
    BY DEF Places
  <2>2. worker' \in [Workers -> Hands] /\ worker'[w].pc = "delete" /\ worker'[w].job = k
    BY <1>2, <1>6, <2>1, GoesOn
  <2>3. job' = [job EXCEPT ![k] = MarkedSucceeded(job[k], d)]
    BY <1>2, <1>3, <1>4, <1>6 DEF Writes
  <2>4. /\ job' \in [Kinds -> Rows] /\ job'[k] = MarkedSucceeded(job[k], d)
        /\ \A j \in Kinds : j # k => job'[j] = job[j]
    BY <1>4, <2>3, SucceededRow, RowWritten
  <2>5. /\ job'[k].status = "succeeded" /\ job'[k].etag = d
        /\ job'[k].handle = job[k].handle /\ job'[k].digest = job[k].digest
    BY <1>4, <2>4, SucceededRow
  <2>6. TypeOK' /\ OnlyKind(k)
    BY <1>1, <2>2, <2>4 DEF ReportsInv, TypeOK, OnlyKind, Frame
  <2>7. Stands(k)
    BY <1>4, <2>5 DEF Stands
  <2>8. KindInv(k)'
    BY <1>1, <1>4, <2>5 DEF KindInv
  <2>9. Row(w)' = job'[k]
    BY <2>2 DEF Row
  <2>10. HandInv(w)'
    BY <2>2, <2>5, <2>9 DEF HandInv
  <2> QED
    BY <1>4, <2>6, <2>7, <2>8, <2>10, WorkerStepIsGood DEF Frame
<1> QED
  BY <1>5, <1>6 DEF MarkSucceeded

(* Staged objects of a row that succeeded may go. *)
LEMMA StagedIsDeleted ==
  ASSUME ReportsInv, NEW k \in Kinds, NEW d, staging' = StagedDelete(k, d)
  PROVE  /\ staging' \in [Kinds -> [Digests -> Bytes]]
         /\ \A j \in Kinds : j # k => staging'[j] = staging[j]
PROOF
<1> DEFINE new == [x \in Digests |-> IF x = d THEN "none" ELSE staging[k][x]]
<1>1. staging \in [Kinds -> [Digests -> Bytes]]
  BY DEF ReportsInv, TypeOK
<1>2. staging' = [staging EXCEPT ![k] = new]
  BY <1>1 DEF StagedDelete
<1>3. new \in [Digests -> Bytes]
  BY <1>1 DEF Bytes
<1> HIDE DEF new
<1> QED
  BY <1>1, <1>2, <1>3

LEMMA SucceededKept ==
  ASSUME ReportsInv, NEW k \in Kinds, job[k].status = "succeeded", external'[k] = external[k],
         job'[k].status = "succeeded", job'[k].etag = job[k].etag,
         job'[k].digest = job[k].digest, job'[k].handle \in {None, job[k].handle}
  PROVE  KindInv(k)' /\ Stands(k)
PROOF
<1>1. KindInv(k)
  BY DEF ReportsInv
<1> QED
  BY <1>1 DEF KindInv, Stands

LEMMA DeleteStagedIsGood ==
  ASSUME ReportsInv, OneWorker, NEW w \in Workers, DeleteStaged(w), Frame
  PROVE  GoodStep
PROOF
<1>1. worker[w].pc = "delete" /\ HandInv(w) /\ UNCHANGED <<job, external>>
  BY DEF DeleteStaged, At, ReportsInv
<1>2. PICK k \in Kinds : k = worker[w].job
  BY <1>1, HandTypes
<1>3. Row(w) = job[k] /\ job[k].status = "succeeded"
  BY <1>1, <1>2, HandTypes DEF HandInv
<1>4. CASE GivesUp(w) /\ UNCHANGED staging
  BY <1>1, <1>4, SilenceIsGood DEF Frame
<1>5. CASE Goes(w, "clear") /\ staging' = StagedDelete(worker[w].job, worker[w].digest)
  <2>1. "clear" \in Places
    BY DEF Places
  <2>2. worker' \in [Workers -> Hands] /\ worker'[w].pc = "clear" /\ worker'[w].job = k
    BY <1>2, <1>5, <2>1, GoesOn
  <2>3. /\ staging' \in [Kinds -> [Digests -> Bytes]]
        /\ \A j \in Kinds : j # k => staging'[j] = staging[j]
    BY <1>2, <1>5, StagedIsDeleted
  <2>4. TypeOK' /\ OnlyKind(k)
    BY <1>1, <2>2, <2>3 DEF ReportsInv, TypeOK, OnlyKind, Frame
  <2>5. KindInv(k)' /\ Stands(k)
    BY <1>1, <1>3, SucceededKept
  <2>6. Row(w)' = job[k]
    BY <1>1, <2>2 DEF Row
  <2>7. HandInv(w)'
    BY <1>3, <2>2, <2>6 DEF HandInv
  <2> QED
    BY <1>3, <2>4, <2>5, <2>7, WorkerStepIsGood DEF Frame
<1> QED
  BY <1>4, <1>5 DEF DeleteStaged

LEMMA ClearHandleIsGood ==
  ASSUME ReportsInv, OneWorker, NEW w \in Workers, ClearHandle(w), Frame
  PROVE  GoodStep
PROOF
<1>1. worker[w].pc = "clear" /\ HandInv(w) /\ GivesUp(w) /\ UNCHANGED <<staging, external>>
  BY DEF ClearHandle, At, ReportsInv
<1>2. PICK k \in Kinds : k = worker[w].job
  BY <1>1, HandTypes
<1>3. Row(w) = job[k] /\ job[k] \in Rows /\ job[k].status = "succeeded"
  BY <1>1, <1>2, HandTypes DEF HandInv
<1>4. CASE UNCHANGED job
  BY <1>1, <1>4, SilenceIsGood DEF Frame
<1>5. CASE Writes(w, Cleared(Row(w)))
  <2>1. worker' \in [Workers -> Hands] /\ HandInv(w)'
    BY <1>1, GaveUp
  <2>2. job' = [job EXCEPT ![k] = Cleared(job[k])]
    BY <1>2, <1>3, <1>5 DEF Writes
  <2>3. /\ job' \in [Kinds -> Rows] /\ job'[k] = Cleared(job[k])
        /\ \A j \in Kinds : j # k => job'[j] = job[j]
    BY <1>3, <2>2, ClearedRow, RowWritten
  <2>4. TypeOK' /\ OnlyKind(k)
    BY <1>1, <2>1, <2>3 DEF ReportsInv, TypeOK, OnlyKind, Frame
  <2>5. KindInv(k)' /\ Stands(k)
    BY <1>1, <1>3, <2>3, ClearedRow, SucceededKept
  <2> QED
    BY <1>3, <2>1, <2>4, <2>5, WorkerStepIsGood DEF Frame
<1> QED
  BY <1>4, <1>5 DEF ClearHandle

LEMMA WorkersAreGood ==
  ASSUME ReportsInv, OneWorker, NEW w \in Workers, WorkerStep(w)
  PROVE  GoodStep
PROOF
<1>1. Frame
  BY DEF WorkerStep, Frame
<1> QED
  BY <1>1, ClaimIsGood, VerifyIsGood, LoadIsGood, RenderIsGood, MarkStagedIsGood,
     MarkUploadingIsGood, FetchIsGood, UploadIsGood, MarkSucceededIsGood, DeleteStagedIsGood,
     ClearHandleIsGood DEF WorkerStep

-----------------------------------------------------------------------------
(* Reconciliation, triggers and faults *)

(* A step that leaves the worker alone and changes at most the row of k. *)
LEMMA OtherStepIsGood ==
  ASSUME ReportsInv, NEW k \in Kinds, TypeOK', UNCHANGED worker, OnlyKind(k),
         KindInv(k)', Stands(k), ReconInv', TriggerInv',
         \A w \in Workers : worker[w].pc # "idle" /\ worker[w].job = k => HandInv(w)'
  PROVE  GoodStep
PROOF
<1>1. ASSUME NEW j \in Kinds PROVE KindInv(j)' /\ Stands(j)
  <2>1. CASE j = k
    BY <2>1
  <2>2. CASE j # k
    BY <2>2 DEF OnlyKind, ReportsInv, KindInv, Stands
  <2> QED
    BY <2>1, <2>2
<1>2. \A w \in Workers : HandInv(w)'
  BY HandKept
<1> QED
  BY <1>1, <1>2 DEF GoodStep, ReportsInv

(* A step that leaves rows, stores and the worker alone. *)
LEMMA QuietStepIsGood ==
  ASSUME ReportsInv, UNCHANGED <<job, created, staging, external>>,
         recon' \in Passes, ReconInv', trigger' \in [Triggers -> SUBSET Kinds], TriggerInv',
         UNCHANGED worker \/ worker' = [w \in Workers |-> Idle]
  PROVE  GoodStep
PROOF
<1>1. worker' \in [Workers -> Hands]
  BY IdleHand DEF ReportsInv, TypeOK
<1>2. TypeOK'
  BY <1>1 DEF ReportsInv, TypeOK
<1>3. ASSUME NEW w \in Workers PROVE HandInv(w)'
  <2>1. CASE UNCHANGED worker
    BY <2>1 DEF ReportsInv, HandInv, Row, Object
  <2>2. CASE worker' = [v \in Workers |-> Idle]
    <3>1. worker'[w].pc = "idle"
      BY <2>2, IdleHand
    <3> QED
      BY <3>1 DEF HandInv
  <2> QED
    BY <2>1, <2>2
<1>4. \A k \in Kinds : KindInv(k)' /\ Stands(k)
  BY DEF ReportsInv, KindInv, Stands
<1> QED
  BY <1>2, <1>3, <1>4 DEF GoodStep, ReportsInv

LEMMA TriggersKept ==
  ASSUME ReportsInv, UNCHANGED trigger,
         \A k \in Kinds : job[k].status = "none" => job'[k].status = "none"
  PROVE  TriggerInv'
PROOF
  BY DEF ReportsInv, TypeOK, TriggerInv

LEMMA NoneIsNoDigest == \A d \in Digests : d # None
PROOF
  BY DEF Digests, None

LEMMA PassTypes ==
  ASSUME ReportsInv
  PROVE  recon \in Passes /\ recon.todo \subseteq Kinds
         /\ trigger \in [Triggers -> SUBSET Kinds]
PROOF
  BY DEF ReportsInv, TypeOK, Passes

LEMMA ListsAreGood ==
  ASSUME ReportsInv, ListStaleClaims \/ ListSucceeded \/ ReconRests,
         UNCHANGED <<created, external, worker, trigger>>
  PROVE  GoodStep
PROOF
<1>1. UNCHANGED <<job, staging>>
  BY DEF ListStaleClaims, ListSucceeded, ReconRests
<1>2. TriggerInv' /\ trigger' \in [Triggers -> SUBSET Kinds]
  BY <1>1, PassTypes, TriggersKept
<1>3. recon' \in Passes /\ ReconInv'
  <2>1. CASE ListStaleClaims
    <3>1. PICK stale \in StaleClaims : recon' = [recon EXCEPT !.pc = "release", !.todo = stale]
      BY <2>1 DEF ListStaleClaims
    <3>2. stale \in SUBSET Kinds
      BY DEF StaleClaims
    <3>3. recon' \in Passes /\ recon'.pc = "release"
      BY <3>1, <3>2, PassTypes DEF Passes
    <3> QED
      BY <3>3 DEF ReconInv
  <2>2. CASE ListSucceeded
    <3>1. recon' = [recon EXCEPT !.pc = "retain", !.todo = RetentionCandidates]
      BY <2>2 DEF ListSucceeded
    <3>2. RetentionCandidates \in SUBSET Kinds
      BY DEF RetentionCandidates
    <3>3. recon' \in Passes /\ recon'.pc = "retain" /\ recon'.todo = RetentionCandidates
      BY <3>1, <3>2, PassTypes DEF Passes
    <3> QED
      BY <1>1, <3>3 DEF ReconInv, RetentionCandidates
  <2>3. CASE ReconRests
    BY <2>3 DEF ReconRests, Resting, Passes, ReconInv
  <2> QED
    BY <2>1, <2>2, <2>3
<1> QED
  BY <1>1, <1>2, <1>3, QuietStepIsGood

LEMMA ReleaseIsGood ==
  ASSUME ReportsInv, ReleaseStaleClaim, UNCHANGED <<created, external, worker, trigger>>
  PROVE  GoodStep
PROOF
<1>1. recon.pc = "release" /\ UNCHANGED staging
  BY DEF ReleaseStaleClaim
<1>2. PICK k \in recon.todo :
        /\ recon' = [recon EXCEPT !.todo = @ \ {k}]
        /\ job' = [job EXCEPT ![k] = Released(@)] \/ UNCHANGED job
  BY DEF ReleaseStaleClaim
<1>3. k \in Kinds /\ recon' \in Passes /\ recon'.pc = "release"
  BY <1>1, <1>2, PassTypes DEF Passes
<1>4. ReconInv'
  BY <1>3 DEF ReconInv
<1>5. CASE UNCHANGED job
  BY <1>1, <1>3, <1>4, <1>5, PassTypes, TriggersKept, QuietStepIsGood
<1>6. CASE job' = [job EXCEPT ![k] = Released(@)]
  <2>1. job[k] \in Rows /\ KindInv(k)
    BY <1>3 DEF ReportsInv, TypeOK
  <2>2. /\ job' \in [Kinds -> Rows] /\ job'[k] = Released(job[k])
        /\ \A j \in Kinds : j # k => job'[j] = job[j]
    <3>1. job' = [job EXCEPT ![k] = Released(job[k])]
      BY <1>6
    <3> QED
      BY <1>3, <2>1, <3>1, ReleasedRow, RowWritten
  <2>3. TypeOK' /\ OnlyKind(k)
    BY <1>1, <1>3, <2>2 DEF ReportsInv, TypeOK, OnlyKind
  <2>4. /\ SameReport(job'[k], job[k])
        /\ job[k].status # "claimed" => job'[k].status = job[k].status
        /\ job[k].status = "claimed" =>
             job'[k].status = IF job[k].handle # None THEN "staged" ELSE "pending"
    BY <2>1, <2>2, ReleasedRow
  <2>5. KindInv(k)'
    BY <1>1, <2>1, <2>4 DEF KindInv, SameReport
  <2>6. Stands(k)
    BY <2>4 DEF Stands, SameReport
  <2>7. TriggerInv'
    BY <2>2, <2>4, TriggersKept
  <2>8. ASSUME NEW w \in Workers, worker[w].pc # "idle" /\ worker[w].job = k
        PROVE  HandInv(w)'
    <3>1. HandInv(w) /\ Row(w) = job[k] /\ Row(w)' = job'[k] /\ Object(w)' = Object(w)
      BY <1>1, <2>8 DEF ReportsInv, Row, Object
    <3>2. CASE job[k].status # "claimed"
      BY <2>4, <3>1, <3>2 DEF HandInv, SameReport
    <3>3. CASE job[k].status = "claimed" /\ job[k].handle = None
      <4>1. worker[w].pc \in {"load", "render", "mark_staged"}
        BY <2>8, <3>1, <3>3, HandTypes, NoneIsNoDigest DEF HandInv, Places
      <4> QED
        BY <2>4, <3>1, <3>3, <4>1 DEF HandInv, SameReport
    <3>4. CASE job[k].status = "claimed" /\ job[k].handle # None
      <4>1. worker[w].pc \in {"verify", "mark_uploading"}
        BY <2>8, <3>1, <3>4, HandTypes DEF HandInv, Places
      <4> QED
        BY <2>4, <3>1, <3>4, <4>1 DEF HandInv, SameReport
    <3> QED
      BY <3>2, <3>3, <3>4
  <2> QED
    BY <1>3, <1>4, <2>3, <2>5, <2>6, <2>7, <2>8, OtherStepIsGood
<1> QED
  BY <1>2, <1>5, <1>6

(* A worker whose row has succeeded is done but for the staged object. *)
LEMMA SucceededHand ==
  ASSUME ReportsInv, NEW w \in Workers, NEW k \in Kinds, worker[w].pc # "idle",
         worker[w].job = k, job[k].status = "succeeded", UNCHANGED worker,
         job'[k].status = "succeeded"
  PROVE  HandInv(w)'
PROOF
<1>1. HandInv(w) /\ Row(w) = job[k] /\ Row(w)' = job'[k]
  BY DEF ReportsInv, Row
<1>2. worker[w].pc \in {"delete", "clear"}
  BY <1>1, HandStatus
<1> QED
  BY <1>1, <1>2 DEF HandInv

LEMMA RetentionIsGood ==
  ASSUME ReportsInv, DeleteRetained \/ ClearRetained,
         UNCHANGED <<created, external, worker, trigger>>
  PROVE  GoodStep
PROOF
<1>1. CASE DeleteRetained
  <2>1. PICK k \in recon.todo :
          \/ /\ recon' = [recon EXCEPT !.pc = "clear", !.job = k, !.todo = @ \ {k}]
             /\ staging' = StagedDelete(k, job[k].handle)
          \/ recon' = [recon EXCEPT !.todo = @ \ {k}] /\ UNCHANGED staging
    BY <1>1 DEF DeleteRetained
  <2>2. /\ recon.pc = "retain" /\ k \in Kinds /\ job[k].status = "succeeded" /\ UNCHANGED job
        /\ \A j \in recon.todo : job[j].status = "succeeded"
    BY <1>1, PassTypes DEF DeleteRetained, ReportsInv, ReconInv
  <2>3. CASE recon' = [recon EXCEPT !.todo = @ \ {k}] /\ UNCHANGED staging
    <3>1. recon' \in Passes /\ recon'.pc = "retain" /\ recon'.todo = recon.todo \ {k}
      BY <2>2, <2>3, PassTypes DEF Passes
    <3>2. ReconInv'
      BY <2>2, <3>1 DEF ReconInv
    <3> QED
      BY <2>2, <2>3, <3>1, <3>2, PassTypes, TriggersKept, QuietStepIsGood
  <2>4. CASE /\ recon' = [recon EXCEPT !.pc = "clear", !.job = k, !.todo = @ \ {k}]
             /\ staging' = StagedDelete(k, job[k].handle)
    <3>1. /\ recon' \in Passes /\ recon'.pc = "clear" /\ recon'.job = k
          /\ recon'.todo = recon.todo \ {k}
      BY <2>2, <2>4, PassTypes DEF Passes
    <3>2. ReconInv'
      BY <2>2, <3>1 DEF ReconInv
    <3>3. /\ staging' \in [Kinds -> [Digests -> Bytes]]
          /\ \A j \in Kinds : j # k => staging'[j] = staging[j]
      BY <2>2, <2>4, StagedIsDeleted
    <3>4. TypeOK' /\ OnlyKind(k)
      BY <2>2, <3>1, <3>3 DEF ReportsInv, TypeOK, OnlyKind
    <3>5. KindInv(k)' /\ Stands(k)
      BY <2>2, SucceededKept
    <3>6. \A w \in Workers : worker[w].pc # "idle" /\ worker[w].job = k => HandInv(w)'
      BY <2>2, SucceededHand
    <3>7. TriggerInv'
      BY <2>2, TriggersKept
    <3> QED
      BY <2>2, <3>2, <3>4, <3>5, <3>6, <3>7, OtherStepIsGood
  <2> QED
    BY <2>1, <2>3, <2>4
<1>2. CASE ClearRetained
  <2>1. PICK k : k = recon.job
    OBVIOUS
  <2>2. /\ recon.pc = "clear" /\ k \in Kinds /\ job[k].status = "succeeded"
        /\ \A j \in recon.todo : job[j].status = "succeeded"
    BY <1>2, <2>1 DEF ClearRetained, ReportsInv, ReconInv
  <2>3. /\ recon' = [recon EXCEPT !.pc = "retain", !.job = "none"] /\ UNCHANGED staging
        /\ job' = [job EXCEPT ![k] = Cleared(@)] \/ UNCHANGED job
    BY <1>2, <2>1 DEF ClearRetained
  <2>4. recon' \in Passes /\ recon'.pc = "retain" /\ recon'.todo = recon.todo
    BY <2>3, PassTypes DEF Passes
  <2>5. CASE UNCHANGED job
    <3>1. ReconInv'
      BY <2>2, <2>4, <2>5 DEF ReconInv
    <3> QED
      BY <2>3, <2>4, <2>5, <3>1, PassTypes, TriggersKept, QuietStepIsGood
  <2>6. CASE job' = [job EXCEPT ![k] = Cleared(@)]
    <3>1. job[k] \in Rows /\ job' = [job EXCEPT ![k] = Cleared(job[k])]
      BY <2>2, <2>6 DEF ReportsInv, TypeOK
    <3>2. /\ job' \in [Kinds -> Rows] /\ job'[k] = Cleared(job[k])
          /\ \A j \in Kinds : j # k => job'[j] = job[j]
      BY <2>2, <3>1, ClearedRow, RowWritten
    <3>3. /\ job'[k].status = "succeeded" /\ job'[k].etag = job[k].etag
          /\ job'[k].digest = job[k].digest /\ job'[k].handle = None
      BY <2>2, <3>1, <3>2, ClearedRow
    <3>4. TypeOK' /\ OnlyKind(k)
      BY <2>3, <2>4, <3>2 DEF ReportsInv, TypeOK, OnlyKind
    <3>5. KindInv(k)' /\ Stands(k)
      BY <2>2, <3>3, SucceededKept
    <3>6. \A w \in Workers : worker[w].pc # "idle" /\ worker[w].job = k => HandInv(w)'
      BY <2>2, <3>3, SucceededHand
    <3>7. TriggerInv'
      BY <2>2, <3>2, TriggersKept
    <3>8. ReconInv'
      BY <2>2, <2>4, <3>2, <3>3, PassTypes DEF ReconInv
    <3> QED
      BY <2>2, <3>4, <3>5, <3>6, <3>7, <3>8, OtherStepIsGood
  <2> QED
    BY <2>3, <2>5, <2>6
<1> QED
  BY <1>1, <1>2

LEMMA ReconIsGood ==
  ASSUME ReportsInv, ReconStep
  PROVE  GoodStep
PROOF
<1>1. UNCHANGED <<created, external, worker, trigger>>
  BY DEF ReconStep
<1> QED
  BY <1>1, ListsAreGood, ReleaseIsGood, RetentionIsGood DEF ReconStep

LEMMA NewRow ==
  /\ NewJob \in Rows /\ NewJob.status = "pending" /\ NewJob.handle = None /\ NewJob.digest = None
  /\ NoJob \in Rows /\ NoJob.status = "none" /\ NoJob.handle = None /\ NoJob.digest = None
PROOF
  BY DEF NewJob, NoJob, Rows, Statuses, Names

LEMMA EnqueueIsGood ==
  ASSUME ReportsInv, NEW t \in Triggers, Enqueue(t)
  PROVE  GoodStep
PROOF
<1>1. PICK k \in trigger[t] :
        \/ /\ job' = [job EXCEPT ![k] = NewJob] /\ created' = Append(created, k)
           /\ trigger' = [u \in Triggers |-> trigger[u] \ {k}]
        \/ /\ trigger' = [trigger EXCEPT ![t] = IF t = "manual" THEN {} ELSE @ \ {k}]
           /\ UNCHANGED <<job, created>>
  BY DEF Enqueue
<1>2. UNCHANGED <<staging, external, worker, recon>>
  BY DEF Enqueue
<1>3. k \in Kinds /\ job[k].status = "none"
  BY PassTypes DEF ReportsInv, TriggerInv
<1>4. job[k] \in Rows /\ KindInv(k) /\ created \in Seq(Kinds)
  BY <1>3 DEF ReportsInv, TypeOK
<1>5. CASE /\ trigger' = [trigger EXCEPT ![t] = IF t = "manual" THEN {} ELSE @ \ {k}]
           /\ UNCHANGED <<job, created>>
  <2>1. /\ trigger' \in [Triggers -> SUBSET Kinds]
        /\ \A u \in Triggers : trigger'[u] \subseteq trigger[u]
    BY <1>5, PassTypes
  <2>2. TriggerInv' /\ ReconInv'
    BY <1>2, <1>5, <2>1 DEF ReportsInv, TriggerInv, ReconInv
  <2> QED
    BY <1>2, <1>5, <2>1, <2>2, PassTypes, QuietStepIsGood
<1>6. CASE /\ job' = [job EXCEPT ![k] = NewJob] /\ created' = Append(created, k)
           /\ trigger' = [u \in Triggers |-> trigger[u] \ {k}]
  <2>1. /\ job' \in [Kinds -> Rows] /\ job'[k] = NewJob
        /\ \A j \in Kinds : j # k => job'[j] = job[j]
    BY <1>3, <1>6, NewRow, RowWritten
  <2>2. /\ trigger' \in [Triggers -> SUBSET Kinds]
        /\ \A u \in Triggers : trigger'[u] = trigger[u] \ {k}
    BY <1>6, PassTypes
  <2>3. created' \in Seq(Kinds)
    BY <1>3, <1>4, <1>6
  <2>4. TypeOK' /\ OnlyKind(k)
    BY <1>2, <2>1, <2>2, <2>3 DEF ReportsInv, TypeOK, OnlyKind
  <2>5. KindInv(k)'
    BY <2>1, NewRow DEF KindInv
  <2>6. Stands(k)
    BY <1>3, <1>4 DEF Stands, KindInv
  <2>7. TriggerInv'
    BY <2>1, <2>2, PassTypes DEF TriggerInv, ReportsInv
  <2>8. ReconInv'
    BY <1>2, <1>3, <2>1, PassTypes DEF ReconInv, ReportsInv
  <2>9. ASSUME NEW w \in Workers, worker[w].pc # "idle" /\ worker[w].job = k
        PROVE  HandInv(w)'
    <3>1. Row(w).status # "none"
      BY <2>9, HandStatus
    <3> QED
      BY <1>3, <2>9, <3>1 DEF Row
  <2> QED
    BY <1>2, <1>3, <2>4, <2>5, <2>6, <2>7, <2>8, <2>9, OtherStepIsGood
<1> QED
  BY <1>1, <1>5, <1>6

LEMMA TriggerIsGood ==
  ASSUME ReportsInv, TriggerFires
  PROVE  GoodStep
PROOF
<1>1. UNCHANGED <<job, created, staging, external, worker, recon>>
  BY DEF TriggerFires
<1>2. PICK t \in Triggers : trigger' = [trigger EXCEPT ![t] = Missing]
  BY DEF TriggerFires, SagaReacts, ScheduleTicks, ManualPress, Triggers
<1>3. Missing \in SUBSET Kinds /\ \A k \in Missing : job[k].status = "none"
  BY DEF Missing
<1>4. trigger' \in [Triggers -> SUBSET Kinds] /\ TriggerInv'
  BY <1>1, <1>2, <1>3, PassTypes DEF ReportsInv, TriggerInv
<1>5. ReconInv'
  BY <1>1 DEF ReportsInv, ReconInv
<1> QED
  BY <1>1, <1>4, <1>5, PassTypes, QuietStepIsGood

LEMMA DamageIsGood ==
  ASSUME ReportsInv, Damage
  PROVE  GoodStep
PROOF
<1>1. PICK k \in Kinds, d \in Digests : staging' = [staging EXCEPT ![k][d] = "damaged"]
  BY DEF Damage
<1>2. UNCHANGED <<job, created, external, worker, recon, trigger>>
  BY DEF Damage
<1>3. staging \in [Kinds -> [Digests -> Bytes]] /\ "damaged" \in Bytes
  BY DEF ReportsInv, TypeOK, Bytes
<1>4. staging'[k] = [staging[k] EXCEPT ![d] = "damaged"] /\ staging[k] \in [Digests -> Bytes]
  BY <1>1, <1>3
<1>5. \A e \in Digests : staging[k][e] # "none" => staging'[k][e] # "none"
  BY <1>4
<1>6. /\ staging' \in [Kinds -> [Digests -> Bytes]]
      /\ \A j \in Kinds : j # k => staging'[j] = staging[j]
  BY <1>1, <1>3
<1>7. TypeOK' /\ OnlyKind(k) /\ Stages(k)
  BY <1>2, <1>5, <1>6 DEF ReportsInv, TypeOK, OnlyKind, Stages
<1>8. KindInv(k)'
  <2>1. KindInv(k) /\ (job[k].handle # None => job[k].handle \in Digests)
    BY DEF ReportsInv, TypeOK, Rows, Names
  <2> QED
    BY <1>2, <1>5, <2>1 DEF KindInv
<1>9. Stands(k) /\ ReconInv' /\ TriggerInv'
  BY <1>2 DEF Stands, ReportsInv, ReconInv, TriggerInv
<1>10. ASSUME NEW w \in Workers, worker[w].pc # "idle" /\ worker[w].job = k
       PROVE  HandInv(w)'
  <2>1. HandInv(w) /\ Row(w)' = Row(w)
    BY <1>2 DEF ReportsInv, Row
  <2>2. worker[w].digest \in Digests /\ Object(w) # "none" => Object(w)' # "none"
    BY <1>2, <1>5, <1>10 DEF Object
  <2> QED
    BY <1>2, <2>1, <2>2 DEF HandInv
<1> QED
  BY <1>2, <1>7, <1>8, <1>9, <1>10, OtherStepIsGood

LEMMA CrashIsGood ==
  ASSUME ReportsInv, Crash
  PROVE  GoodStep
PROOF
<1>1. /\ UNCHANGED <<job, created, staging, external>>
      /\ worker' = [w \in Workers |-> Idle] /\ recon' = Resting
      /\ trigger' = [t \in Triggers |-> {}]
  BY DEF Crash
<1>2. recon' \in Passes /\ ReconInv'
  BY <1>1 DEF Resting, Passes, ReconInv
<1>3. trigger' \in [Triggers -> SUBSET Kinds] /\ TriggerInv'
  BY <1>1 DEF TriggerInv
<1> QED
  BY <1>1, <1>2, <1>3, QuietStepIsGood

LEMMA ReportsInvInit == Init => ReportsInv
PROOF
<1> SUFFICES ASSUME Init PROVE ReportsInv
  OBVIOUS
<1>1. NoReport \in [digest : Names, bytes : Bytes] /\ "none" \in Bytes
  BY DEF NoReport, Names, Bytes
<1>2. recon \in Passes /\ ReconInv
  BY DEF Init, Resting, Passes, ReconInv
<1>3. created \in Seq(Kinds)
  BY DEF Init
<1>4. TypeOK
  BY <1>1, <1>2, <1>3, NewRow, IdleHand DEF Init, TypeOK
<1>5. TriggerInv
  BY DEF Init, TriggerInv
<1>6. \A k \in Kinds : KindInv(k)
  BY NewRow DEF Init, KindInv
<1>7. \A w \in Workers : HandInv(w)
  BY IdleHand DEF Init, HandInv
<1> QED
  BY <1>2, <1>4, <1>5, <1>6, <1>7 DEF ReportsInv

LEMMA ReportsNext ==
  ASSUME OneWorker, ReportsInv, [Next]_vars
  PROVE  GoodStep
PROOF
<1>1. CASE Wrap \/ UNCHANGED vars
  <2>1. UNCHANGED <<job, created, staging, external, worker, recon, trigger>>
    BY <1>1 DEF Wrap, vars
  <2>2. ReconInv' /\ TriggerInv'
    BY <2>1 DEF ReportsInv, ReconInv, TriggerInv
  <2> QED
    BY <2>1, <2>2, PassTypes, QuietStepIsGood
<1>2. ASSUME NEW t \in Triggers, Enqueue(t) PROVE GoodStep
  BY <1>2, EnqueueIsGood
<1>3. ASSUME NEW w \in Workers, WorkerStep(w) PROVE GoodStep
  BY <1>3, WorkersAreGood
<1> QED
  BY <1>1, <1>2, <1>3, TriggerIsGood, ReconIsGood, DamageIsGood, CrashIsGood DEF Next

(* The only copy of a report is never given away: a staged object that a   *)
(* row names is there until the row has succeeded, and then the report is  *)
(* at the destination, whatever fails, crashes, is damaged or cleaned up.  *)
THEOREM RecordedReportsExist ==
  ASSUME OneWorker
  PROVE  Spec => []RecordedReportExists
PROOF
<1>1. ReportsInv => RecordedReportExists
  BY DEF ReportsInv, KindInv, RecordedReportExists
<1>2. ReportsInv /\ [Next]_vars => ReportsInv'
  BY ReportsNext DEF GoodStep
<1> QED
  BY <1>1, <1>2, ReportsInvInit, PTL DEF Spec

(* A report is rendered once, and neither a late release of a claim nor a  *)
(* second trigger takes a job back from where it ended.                    *)
THEOREM OutcomesStand ==
  ASSUME OneWorker
  PROVE  Spec => OutcomeStands
PROOF
<1>1. ReportsInv /\ [Next]_vars => ReportsInv'
  BY ReportsNext DEF GoodStep
<1>2. ReportsInv /\ [Next]_vars =>
        [\A k \in Kinds :
           /\ job[k].digest # None => job'[k].digest = job[k].digest
           /\ job[k].status \in {"succeeded", "dead_letter"}
                => job'[k].status = job[k].status]_vars
  BY ReportsNext DEF GoodStep, Stands
<1> QED
  BY <1>1, <1>2, ReportsInvInit, PTL DEF Spec, OutcomeStands
=============================================================================
