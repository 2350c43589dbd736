------------------------------ MODULE Permits ------------------------------
(***************************************************************************)
(* The ceiling on AI jobs: PgAiConcurrencyLimiter, whose permits are rows  *)
(* of ai_import.concurrency_permit with a lease, and run_with_renewal,     *)
(* which runs a job and keeps its permit alive.  A task takes one permit;  *)
(* it is cancelled when its process shuts down, and is gone without a      *)
(* trace when the process dies.  A job that is claimed again is another    *)
(* task with another permit.                                               *)
(*                                                                         *)
(* Time passes in ticks.  A lease is written as the ticks it has left: in  *)
(* the row, and in the task as `left', the distance to its                 *)
(* confirmed_deadline.                                                     *)
(***************************************************************************)
EXTENDS Naturals, FiniteSets, Sequences

CONSTANTS
  Tasks, Users, UserOf,
  MaxGlobal, MaxPerUser,   \* the two ceilings
  Lease,                   \* ticks of a lease
  Interval,                \* ticks between renewals: permit_renewal_interval
  ReclaimAttempts,
  MaxDelay,                \* ticks the answer to a renewal may take
  MaxFaults                \* bound: faults

ASSUME PermitsConstants ==
  /\ IsFiniteSet(Tasks) /\ UserOf \in [Tasks -> Users]
  /\ MaxGlobal \in Nat \ {0} /\ MaxPerUser \in 1..MaxGlobal
  /\ Lease \in Nat \ {0} /\ Interval \in 1..Lease
  /\ ReclaimAttempts \in Nat \ {0} /\ MaxDelay \in Nat /\ MaxFaults \in Nat

VARIABLES
  rows,       \* the permits: a function from the tasks that hold one
  task,       \* what each task is at
  reclaim,    \* the channel of the reclaimer
  attempts,   \* failed attempts at its first message
  faults

vars == <<rows, task, reclaim, attempts, faults>>

Phases == {"waiting", "acquiring", "admitted", "running", "releasing", "ended"}

Renewals == {"none", "sent", "granted", "lost", "failed"}

States == [phase : Phases, left : 0..Lease, pause : 0..Interval, renewal : Renewals,
           delay : 0..MaxDelay]

(* A task outside of renew_while, and one within. *)
At(phase) == [phase |-> phase, left |-> 0, pause |-> 0, renewal |-> "none", delay |-> 0]

Runs(left, pause, renewal) ==
  [phase |-> "running", left |-> left, pause |-> pause, renewal |-> renewal, delay |-> 0]

Fault == faults < MaxFaults /\ faults' = faults + 1

Without(r, t) == [k \in DOMAIN r \ {t} |-> r[k]]

With(r, t, n) == [k \in DOMAIN r \cup {t} |-> IF k = t THEN n ELSE r[k]]

-----------------------------------------------------------------------------
(* Acquiring *)

(* acquired_no_later_than is read before the limiter is asked. *)
Begin(t) ==
  /\ task[t].phase = "waiting"
  /\ task' = [task EXCEPT ![t] = [At("acquiring") EXCEPT !.left = Lease]]
  /\ UNCHANGED <<rows, reclaim, attempts, faults>>

(* Mutant: the rows of the dead are not swept *)
SweptNever == rows

(* Mutant: a lease that runs out within a tick is swept as well *)
SweptEarly == [t \in {k \in DOMAIN rows : rows[k] > 1} |-> rows[t]]

Swept == [t \in {k \in DOMAIN rows : rows[k] > 0} |-> rows[t]]

OfUser(r, u) == {k \in DOMAIN r : UserOf[k] = u}

HasCapacity(r, t) ==
  /\ Cardinality(DOMAIN r) < MaxGlobal
  /\ Cardinality(OfUser(r, UserOf[t])) < MaxPerUser

(* try_acquire_as: one transaction under the advisory lock. *)
Admit(t) ==
  /\ task[t].phase = "acquiring" /\ HasCapacity(Swept, t)
  /\ rows' = With(Swept, t, Lease)
  /\ task' = [task EXCEPT ![t].phase = "admitted"]
  /\ UNCHANGED <<reclaim, attempts, faults>>

(* Saturated: the claim goes back and is taken again later. *)
Refuse(t) ==
  /\ task[t].phase = "acquiring" /\ ~HasCapacity(Swept, t)
  /\ rows' = Swept
  /\ task' = [task EXCEPT ![t] = At("waiting")]
  /\ UNCHANGED <<reclaim, attempts, faults>>

Enter(t) ==
  /\ task[t].phase = "admitted"
  /\ task' = [task EXCEPT ![t] = Runs(task[t].left, Interval, "none")]
  /\ UNCHANGED <<rows, reclaim, attempts, faults>>

-----------------------------------------------------------------------------
(* renew_while *)

Running(t) == task[t].phase = "running" /\ task[t].left > 0

SendRenewal(t) ==
  /\ Running(t) /\ task[t].renewal = "none" /\ task[t].pause = 0
  /\ task' = [task EXCEPT ![t] = Runs(task[t].left, 0, "sent")]
  /\ UNCHANGED <<rows, reclaim, attempts, faults>>

(* The UPDATE takes effect; a permit that is not live is a conflict. *)
Renew(t) ==
  LET live == t \in DOMAIN rows /\ rows[t] > 0
  IN  /\ task[t].phase = "running" /\ task[t].renewal = "sent"
      /\ task' = [task EXCEPT ![t].renewal = IF live THEN "granted" ELSE "lost"]
      /\ rows' = IF live THEN With(rows, t, Lease) ELSE rows
      /\ UNCHANGED <<reclaim, attempts, faults>>

(* The database is not there, or its answer is lost. *)
RenewFails(t) ==
  /\ task[t].phase = "running" /\ task[t].renewal \in {"sent", "granted"}
  /\ Fault
  /\ task' = [task EXCEPT ![t].renewal = "failed"]
  /\ UNCHANGED <<rows, reclaim, attempts>>

(* Mutant: any answer starts a new lease *)
TakeAnyAnswer(t) ==
  /\ Running(t) /\ task[t].renewal \in {"granted", "failed"}
  /\ task' = [task EXCEPT ![t] = Runs(Lease, Interval, "none")]
  /\ UNCHANGED <<rows, reclaim, attempts, faults>>

(* confirmed_deadline is counted from the answer; an error is retried after *)
(* the interval, or at the deadline if that comes first.                    *)
TakeAnswer(t) ==
  /\ Running(t) /\ task[t].renewal \in {"granted", "failed"}
  /\ task' = [task EXCEPT ![t] = Runs(IF task[t].renewal = "granted" THEN Lease ELSE task[t].left,
                                      Interval, "none")]
  /\ UNCHANGED <<rows, reclaim, attempts, faults>>

(* The permit is lost, or its deadline passes unconfirmed. *)
Abort(t) ==
  /\ task[t].phase = "running"
  /\ task[t].left = 0 \/ task[t].renewal = "lost"
  /\ task' = [task EXCEPT ![t] = At("releasing")]
  /\ UNCHANGED <<rows, reclaim, attempts, faults>>

(* The operation is over, well or badly. *)
Finish(t) ==
  /\ task[t].phase = "running"
  /\ task' = [task EXCEPT ![t] = At("releasing")]
  /\ UNCHANGED <<rows, reclaim, attempts, faults>>

-----------------------------------------------------------------------------
(* Giving a permit back *)

Release(t) ==
  /\ task[t].phase = "releasing"
  /\ rows' = Without(rows, t)
  /\ task' = [task EXCEPT ![t] = At("ended")]
  /\ UNCHANGED <<reclaim, attempts, faults>>

(* The DELETE fails; dropping the permit hands it to the reclaimer. *)
ReleaseFails(t) ==
  /\ task[t].phase = "releasing" /\ Fault
  /\ reclaim' = Append(reclaim, t)
  /\ task' = [task EXCEPT ![t] = At("ended")]
  /\ UNCHANGED <<rows, attempts>>

(* The task is cancelled and drops its permit. *)
Cancel(t) ==
  /\ task[t].phase \in {"acquiring", "admitted", "running", "releasing"} /\ Fault
  /\ reclaim' = IF task[t].phase = "acquiring" THEN reclaim ELSE Append(reclaim, t)
  /\ task' = [task EXCEPT ![t] = At("ended")]
  /\ UNCHANGED <<rows, attempts>>

(* reclaim_loop *)
Reclaim ==
  /\ reclaim # <<>>
  /\ rows' = Without(rows, Head(reclaim))
  /\ reclaim' = Tail(reclaim) /\ attempts' = 0
  /\ UNCHANGED <<task, faults>>

ReclaimFails ==
  /\ reclaim # <<>> /\ Fault
  /\ IF attempts + 1 < ReclaimAttempts
     THEN attempts' = attempts + 1 /\ UNCHANGED reclaim
     ELSE attempts' = 0 /\ reclaim' = Tail(reclaim)
  /\ UNCHANGED <<rows, task>>

(* The process dies.  The rows stay until their leases run out. *)
Crash ==
  /\ Fault
  /\ task' = [t \in Tasks |-> IF task[t].phase = "waiting" THEN task[t]
                               ELSE At("ended")]
  /\ reclaim' = <<>> /\ attempts' = 0
  /\ UNCHANGED rows

-----------------------------------------------------------------------------
Down(n) == IF n > 0 THEN n - 1 ELSE 0

(* What a task has to do before time goes on: timers fire when they are due *)
(* and an answer takes at most MaxDelay ticks.                              *)
Due(t) ==
  /\ task[t].phase = "running"
  /\ \/ task[t].left = 0
     \/ task[t].renewal = "none" /\ task[t].pause = 0
     \/ task[t].renewal \in {"granted", "lost", "failed"} /\ task[t].delay = MaxDelay

Aged(s) ==
  [s EXCEPT !.left = Down(@),
            !.pause = IF s.renewal = "none" THEN Down(@) ELSE @,
            !.delay = IF s.renewal \in {"granted", "lost", "failed"} THEN @ + 1 ELSE @]

Tick ==
  /\ \A t \in Tasks : ~Due(t)
  /\ rows' = [t \in DOMAIN rows |-> Down(rows[t])]
  /\ task' = [t \in Tasks |-> Aged(task[t])]
  /\ UNCHANGED <<reclaim, attempts, faults>>

Init ==
  /\ rows = [t \in {} |-> 0]
  /\ task = [t \in Tasks |-> At("waiting")]
  /\ reclaim = <<>> /\ attempts = 0 /\ faults = 0

Renewing(t) == SendRenewal(t) \/ Renew(t) \/ TakeAnswer(t) \/ Abort(t)

Next ==
  \/ \E t \in Tasks : \/ Begin(t) \/ Admit(t) \/ Refuse(t) \/ Enter(t)
                     \/ Renewing(t) \/ RenewFails(t) \/ Finish(t)
                     \/ Release(t) \/ ReleaseFails(t) \/ Cancel(t)
  \/ Reclaim \/ ReclaimFails \/ Crash \/ Tick

Spec == Init /\ [][Next]_vars

(* Tasks run, time passes, jobs end; a task that is turned away comes back.  *)
FairSpec ==
  /\ Spec /\ WF_vars(Tick) /\ WF_vars(Reclaim)
  /\ \A t \in Tasks :
       /\ WF_vars(Begin(t)) /\ SF_vars(Admit(t)) /\ WF_vars(Refuse(t)) /\ WF_vars(Enter(t))
       /\ WF_vars(Renewing(t)) /\ WF_vars(Finish(t)) /\ WF_vars(Release(t))

-----------------------------------------------------------------------------
(* Types *)
TypeOK ==
  /\ DOMAIN rows \subseteq Tasks /\ \A t \in DOMAIN rows : rows[t] \in 0..Lease
  /\ task \in [Tasks -> States]
  /\ reclaim \in Seq(Tasks) /\ attempts \in 0..(ReclaimAttempts - 1)
  /\ faults \in 0..MaxFaults

(* A running task that is further from its deadline than an answer can be   *)
(* slow.  confirmed_deadline is counted from the answer and the row expires *)
(* Lease after the statement, so in its last MaxDelay ticks a task may run  *)
(* on although its row is gone.                                             *)
Secure(t) == Running(t) /\ task[t].left > MaxDelay

(* The permit of a running task lasts until the task's own deadline but for *)
(* the delay of one answer, so no admission sweeps it before: delays do not *)
(* add up over renewals, and neither failed renewals nor sweeps widen it.   *)
DeadlineIsCovered ==
  \A t \in Tasks : Secure(t) => t \in DOMAIN rows /\ task[t].left <= rows[t] + MaxDelay

(* No more tasks run at once than the two ceilings admit, but for tasks in  *)
(* the last MaxDelay ticks before their own deadline, whatever the order of *)
(* lapses, sweeps, renewals, releases and crashes.                          *)
CeilingHolds ==
  /\ Cardinality({t \in Tasks : Secure(t)}) <= MaxGlobal
  /\ \A u \in Users : Cardinality({t \in Tasks : Secure(t) /\ UserOf[t] = u}) <= MaxPerUser

(* What the comments of renew_while and the import rules say of the         *)
(* ceilings: no running task is ever over them.                             *)
CeilingIsNeverExceeded ==
  /\ Cardinality({t \in Tasks : Running(t)}) <= MaxGlobal
  /\ \A u \in Users : Cardinality({t \in Tasks : Running(t) /\ UserOf[t] = u}) <= MaxPerUser

(* Capacity is never lost for good: every task gets its turn, although      *)
(* releases and reclaims fail and processes die with permits in hand.       *)
EveryTaskEnds == <>(\A t \in Tasks : task[t].phase = "ended")
=============================================================================
