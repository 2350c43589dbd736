--------------------------- MODULE PermitsProofs ---------------------------
(***************************************************************************)
(* Proofs about module Permits, for any number of tasks and users, any     *)
(* ceilings, any lease and any number of faults.                           *)
(*                                                                         *)
(* That the ceilings hold rests on three facts: a row whose task still     *)
(* runs is alive as long as the task believes but for MaxDelay ticks       *)
(* (Covered), which needs that the row of a granted renewal has aged no    *)
(* more than its answer (Granted) and that the reclaimer only removes rows *)
(* of tasks that have ended (HandedOver); and the rows never exceed the    *)
(* ceilings (Counted).                                                     *)
(***************************************************************************)
EXTENDS Permits, FiniteSetTheorems, TLAPS

(* Only a running task waits for a renewal. *)
Quiet == \A t \in Tasks : task[t].phase # "running" => task[t].renewal = "none"

Typed == TypeOK /\ Quiet

HandedOver == \A i \in 1..Len(reclaim) : task[reclaim[i]].phase = "ended"

(* What task state s needs of the row table r, as the state of task t. *)
CoveredBy(s, r, t) ==
  s.phase \in {"admitted", "running"} /\ s.left > MaxDelay
    => t \in DOMAIN r /\ s.left <= r[t] + MaxDelay

(* A granted renewal is as old as its answer is late. *)
GrantedBy(s, r, t) ==
  /\ s.renewal = "sent" => s.delay = 0
  /\ s.phase = "running" /\ s.renewal = "granted"
       => /\ s.left + s.delay <= Lease
          /\ s.delay < Lease => t \in DOMAIN r /\ r[t] = Lease - s.delay

Covered == \A t \in Tasks : CoveredBy(task[t], rows, t)

Granted == \A t \in Tasks : GrantedBy(task[t], rows, t)

Held == HandedOver /\ Covered /\ Granted

Counted ==
  /\ Cardinality(DOMAIN rows) <= MaxGlobal
  /\ \A u \in Users : Cardinality(OfUser(rows, u)) <= MaxPerUser

-----------------------------------------------------------------------------
(* Functions of rows *)

LEMMA WithoutRow ==
  ASSUME NEW r, NEW t
  PROVE  /\ DOMAIN Without(r, t) = DOMAIN r \ {t}
         /\ \A k \in DOMAIN r \ {t} : Without(r, t)[k] = r[k]
BY DEF Without

LEMMA WithRow ==
  ASSUME NEW r, NEW t, NEW n
  PROVE  /\ DOMAIN With(r, t, n) = DOMAIN r \cup {t}
         /\ With(r, t, n)[t] = n
         /\ \A k \in DOMAIN r \ {t} : With(r, t, n)[k] = r[k]
BY DEF With

LEMMA SweptRows ==
  /\ DOMAIN Swept = {k \in DOMAIN rows : rows[k] > 0}
  /\ \A k \in DOMAIN Swept : Swept[k] = rows[k]
BY DEF Swept

LEMMA DownBounds ==
  ASSUME NEW n \in Nat
  PROVE  /\ Down(n) \in 0..n
         /\ \A k \in Nat : k <= n => Down(k) <= Down(n)
         /\ Down(n) > 0 => n > 0
BY DEF Down

LEMMA AtTyped ==
  ASSUME NEW p \in Phases
  PROVE  /\ At(p) \in States
         /\ At(p).renewal = "none" /\ At(p).phase = p
BY PermitsConstants DEF At, States, Renewals

LEMMA RunsTyped ==
  ASSUME NEW n \in 0..Lease, NEW p \in 0..Interval, NEW a \in Renewals
  PROVE  /\ Runs(n, p, a) \in States
         /\ Runs(n, p, a).phase = "running"
         /\ Runs(n, p, a).left = n /\ Runs(n, p, a).renewal = a
BY PermitsConstants DEF Runs, States, Phases

(* A task moves to another state, the others stay. *)
LEMMA TaskMoves ==
  ASSUME Typed, NEW t \in Tasks, NEW s \in States,
         task' = [task EXCEPT ![t] = s],
         s.phase # "running" => s.renewal = "none"
  PROVE  task' \in [Tasks -> States] /\ Quiet'
BY DEF Typed, TypeOK, Quiet

-----------------------------------------------------------------------------
(* The three functions of rows keep the type of the table. *)
RowsTyped(r) == DOMAIN r \subseteq Tasks /\ \A t \in DOMAIN r : r[t] \in 0..Lease

LEMMA RowsStayTyped ==
  ASSUME Typed, NEW t \in Tasks
  PROVE  /\ RowsTyped(rows) /\ RowsTyped(Swept) /\ RowsTyped(Without(rows, t))
         /\ RowsTyped(With(rows, t, Lease)) /\ RowsTyped(With(Swept, t, Lease))
<1>1. RowsTyped(rows)
  BY DEF Typed, TypeOK, RowsTyped
<1>2. RowsTyped(Swept)
  BY <1>1, SweptRows DEF RowsTyped
<1>3. RowsTyped(Without(rows, t))
  <2>1. /\ DOMAIN Without(rows, t) = DOMAIN rows \ {t}
        /\ \A k \in DOMAIN rows \ {t} : Without(rows, t)[k] = rows[k]
    BY WithoutRow
  <2> QED BY <1>1, <2>1 DEF RowsTyped
<1>4. ASSUME NEW r, RowsTyped(r) PROVE RowsTyped(With(r, t, Lease))
  <2>1. /\ DOMAIN With(r, t, Lease) = DOMAIN r \cup {t}
        /\ With(r, t, Lease)[t] = Lease
        /\ \A k \in DOMAIN r \ {t} : With(r, t, Lease)[k] = r[k]
    BY DEF With
  <2>2. Lease \in 0..Lease
    BY PermitsConstants
  <2> QED BY <1>4, <2>1, <2>2 DEF RowsTyped
<1> QED BY <1>1, <1>2, <1>3, <1>4

LEMMA InitTyped == Init => Typed
BY PermitsConstants DEF Init, Typed, TypeOK, Quiet, At, States, Phases, Renewals

LEMMA NextTyped == Typed /\ [Next]_vars => Typed'
<1> SUFFICES ASSUME Typed, [Next]_vars PROVE Typed'
  OBVIOUS
<1> USE PermitsConstants
<1>c. /\ task \in [Tasks -> States] /\ reclaim \in Seq(Tasks)
      /\ attempts \in 0..(ReclaimAttempts - 1) /\ faults \in 0..MaxFaults
      /\ RowsTyped(rows)
  BY DEF Typed, TypeOK, RowsTyped
<1>q. Quiet
  BY DEF Typed
<1>r. /\ task' \in [Tasks -> States] /\ Quiet' /\ RowsTyped(rows')
      /\ reclaim' \in Seq(Tasks) /\ attempts' \in 0..(ReclaimAttempts - 1)
      /\ faults' \in 0..MaxFaults
      => Typed'
  BY DEF Typed, TypeOK, RowsTyped
<1>f. Fault => faults' \in 0..MaxFaults
  BY <1>c DEF Fault
<1>1. ASSUME NEW t \in Tasks, Begin(t) PROVE Typed'
  <2> DEFINE s == [At("acquiring") EXCEPT !.left = Lease]
  <2>1. s \in States /\ s.renewal = "none"
    BY DEF States, Phases, Renewals, At
  <2>2. task' = [task EXCEPT ![t] = s]
    BY <1>1 DEF Begin
  <2> HIDE DEF s
  <2> QED BY <1>1, <2>1, <2>2, <1>c, <1>r, TaskMoves DEF Begin
<1>2. ASSUME NEW t \in Tasks, Admit(t) PROVE Typed'
  <2>1. task[t] \in States /\ task[t].renewal = "none"
    BY <1>2, <1>c, <1>q DEF Admit, Quiet
  <2>2. [task[t] EXCEPT !.phase = "admitted"] \in States
    BY <2>1 DEF States, Phases
  <2>3. task' = [task EXCEPT ![t] = [task[t] EXCEPT !.phase = "admitted"]]
    BY <1>2, <1>c DEF Admit
  <2>4. [task[t] EXCEPT !.phase = "admitted"].renewal = "none"
    BY <2>1 DEF States
  <2>5. RowsTyped(rows')
    BY <1>2, RowsStayTyped DEF Admit
  <2> QED BY <1>2, <2>2, <2>3, <2>4, <2>5, <1>c, <1>r, TaskMoves DEF Admit
<1>3. ASSUME NEW t \in Tasks, Refuse(t) PROVE Typed'
  <2>1. At("waiting") \in States /\ At("waiting").renewal = "none"
    BY AtTyped DEF Phases
  <2> QED BY <1>3, <2>1, <1>c, <1>r, TaskMoves, RowsStayTyped DEF Refuse
<1>4. ASSUME NEW t \in Tasks, Enter(t) PROVE Typed'
  <2> DEFINE n == task[t].left
             s == Runs(n, Interval, "none")
  <2>1. task[t] \in States
    BY <1>c
  <2>2. n \in 0..Lease /\ Interval \in 0..Interval /\ "none" \in Renewals
    BY <2>1 DEF States, Renewals
  <2>3. task' = [task EXCEPT ![t] = s]
    BY <1>4 DEF Enter
  <2> HIDE DEF n
  <2>4. s \in States /\ s.phase = "running"
    BY <2>2, RunsTyped
  <2> HIDE DEF s
  <2> QED BY <1>4, <2>3, <2>4, <1>c, <1>r, TaskMoves DEF Enter
<1>5. ASSUME NEW t \in Tasks, SendRenewal(t) PROVE Typed'
  <2> DEFINE n == task[t].left
             s == Runs(n, 0, "sent")
  <2>1. task[t] \in States
    BY <1>c
  <2>2. n \in 0..Lease /\ 0 \in 0..Interval /\ "sent" \in Renewals
    BY <2>1 DEF States, Renewals
  <2>3. task' = [task EXCEPT ![t] = s]
    BY <1>5 DEF SendRenewal
  <2> HIDE DEF n
  <2>4. s \in States /\ s.phase = "running"
    BY <2>2, RunsTyped
  <2> HIDE DEF s
  <2> QED BY <1>5, <2>3, <2>4, <1>c, <1>r, TaskMoves DEF SendRenewal
<1>6. ASSUME NEW t \in Tasks, NEW a \in Renewals, task[t].phase = "running",
             task' = [task EXCEPT ![t].renewal = a]
      PROVE  task' \in [Tasks -> States] /\ Quiet'
  <2> DEFINE s == [task[t] EXCEPT !.renewal = a]
  <2>1. task[t] \in States
    BY <1>c
  <2>2. s \in States /\ s.phase = "running"
    BY <1>6, <2>1 DEF States
  <2>3. task' = [task EXCEPT ![t] = s]
    BY <1>6, <1>c
  <2> HIDE DEF s
  <2> QED BY <2>2, <2>3, TaskMoves
<1>8. ASSUME NEW t \in Tasks, Renew(t) PROVE Typed'
  <2>1. task' \in [Tasks -> States] /\ Quiet'
    BY <1>6, <1>8 DEF Renew, Renewals
  <2>2. RowsTyped(rows')
    BY <1>8, RowsStayTyped DEF Renew
  <2> QED BY <1>8, <2>1, <2>2, <1>c, <1>r DEF Renew
<1>9. ASSUME NEW t \in Tasks, RenewFails(t) PROVE Typed'
  <2>1. task' \in [Tasks -> States] /\ Quiet'
    BY <1>6, <1>9 DEF RenewFails, Renewals
  <2> QED BY <1>9, <2>1, <1>c, <1>r, <1>f DEF RenewFails
<1>10. ASSUME NEW t \in Tasks, TakeAnswer(t) PROVE Typed'
  <2> DEFINE n == IF task[t].renewal = "granted" THEN Lease ELSE task[t].left
             s == Runs(n, Interval, "none")
  <2>1. task[t] \in States
    BY <1>c
  <2>2. n \in 0..Lease /\ Interval \in 0..Interval /\ "none" \in Renewals
    BY <2>1 DEF States, Renewals
  <2>3. task' = [task EXCEPT ![t] = s]
    BY <1>10 DEF TakeAnswer
  <2> HIDE DEF n
  <2>4. s \in States /\ s.phase = "running"
    BY <2>2, RunsTyped
  <2> HIDE DEF s
  <2> QED BY <1>10, <2>3, <2>4, <1>c, <1>r, TaskMoves DEF TakeAnswer
<1>11. ASSUME NEW t \in Tasks, NEW p \in Phases,
              task' = [task EXCEPT ![t] = At(p)]
       PROVE  task' \in [Tasks -> States] /\ Quiet'
  BY <1>11, AtTyped, TaskMoves
<1>12. ASSUME NEW t \in Tasks, Abort(t) \/ Finish(t) PROVE Typed'
  <2>1. task' \in [Tasks -> States] /\ Quiet'
    BY <1>11, <1>12 DEF Abort, Finish, Phases
  <2> QED BY <1>12, <2>1, <1>c, <1>r DEF Abort, Finish
<1>13. ASSUME NEW t \in Tasks, Release(t) PROVE Typed'
  <2>1. task' \in [Tasks -> States] /\ Quiet'
    BY <1>11, <1>13 DEF Release, Phases
  <2> QED BY <1>13, <2>1, <1>c, <1>r, RowsStayTyped DEF Release
<1>14. ASSUME NEW t \in Tasks, ReleaseFails(t) \/ Cancel(t) PROVE Typed'
  <2>1. task' \in [Tasks -> States] /\ Quiet'
    BY <1>11, <1>14 DEF ReleaseFails, Cancel, Phases
  <2>2. Append(reclaim, t) \in Seq(Tasks)
    BY <1>c
  <2>3. reclaim' \in Seq(Tasks)
    BY <1>14, <1>c, <2>2 DEF ReleaseFails, Cancel
  <2> QED BY <1>14, <2>1, <2>3, <1>c, <1>r, <1>f DEF ReleaseFails, Cancel
<1>15. ASSUME Reclaim PROVE Typed'
  <2>1. Head(reclaim) \in Tasks /\ Tail(reclaim) \in Seq(Tasks)
    BY <1>15, <1>c DEF Reclaim
  <2>2. RowsTyped(rows')
    BY <1>15, <2>1, RowsStayTyped DEF Reclaim
  <2>3. Quiet'
    BY <1>15, <1>q DEF Reclaim, Quiet
  <2> QED BY <1>15, <2>1, <2>2, <2>3, <1>c, <1>r DEF Reclaim
<1>16. ASSUME ReclaimFails PROVE Typed'
  <2>1. Tail(reclaim) \in Seq(Tasks)
    BY <1>16, <1>c DEF ReclaimFails
  <2>2. attempts + 1 < ReclaimAttempts => attempts + 1 \in 0..(ReclaimAttempts - 1)
    BY <1>c
  <2>4. 0 \in 0..(ReclaimAttempts - 1)
    OBVIOUS
  <2>5. reclaim' \in Seq(Tasks) /\ attempts' \in 0..(ReclaimAttempts - 1)
    BY <1>16, <1>c, <2>1, <2>2, <2>4 DEF ReclaimFails
  <2>3. Quiet'
    BY <1>16, <1>q DEF ReclaimFails, Quiet
  <2> QED BY <1>16, <2>5, <2>3, <1>c, <1>r, <1>f DEF ReclaimFails
<1>17. ASSUME Crash PROVE Typed'
  <2>1. "ended" \in Phases
    BY DEF Phases
  <2>2. task' \in [Tasks -> States] /\ Quiet'
    BY <1>17, <1>c, <1>q, <2>1, AtTyped DEF Crash, Quiet
  <2> QED BY <1>17, <2>2, <1>c, <1>r, <1>f DEF Crash
<1>18. ASSUME Tick PROVE Typed'
  <2>1. ASSUME NEW t \in Tasks
        PROVE  Aged(task[t]) \in States
               /\ Aged(task[t]).phase = task[t].phase /\ Aged(task[t]).renewal = task[t].renewal
    <3>1. task[t] \in States
      BY <1>c
    <3>2. Down(task[t].left) \in 0..Lease /\ Down(task[t].pause) \in 0..Interval
      BY <3>1, DownBounds DEF States
    <3>3. task[t].renewal \in {"granted", "lost", "failed"} => task[t].delay + 1 \in 0..MaxDelay
      BY <1>18, <1>q, <3>1 DEF Tick, Due, Quiet, States
    <3> QED BY <3>1, <3>2, <3>3 DEF Aged, States
  <2>2. task' \in [Tasks -> States] /\ Quiet'
    BY <1>18, <1>q, <2>1 DEF Tick, Quiet
  <2>3. RowsTyped(rows')
    <3>1. ASSUME NEW t \in DOMAIN rows PROVE Down(rows[t]) \in 0..Lease
      BY <1>c, DownBounds DEF RowsTyped
    <3> QED BY <1>18, <1>c, <3>1 DEF Tick, RowsTyped
  <2> QED BY <1>18, <2>2, <2>3, <1>c, <1>r DEF Tick
<1>19. CASE UNCHANGED vars
  BY <1>19, <1>c, <1>q, <1>r DEF vars, Quiet
<1> QED
  BY <1>1, <1>2, <1>3, <1>4, <1>5, <1>8, <1>9, <1>10, <1>12, <1>13, <1>14, <1>15, <1>16,
     <1>17, <1>18, <1>19 DEF Next, Renewing

(* The limiter, its tasks and its reclaimer are type correct: leases,       *)
(* pauses and delays stay within their bounds, and so do the attempts of    *)
(* reclaim_permit_with_retry.                                               *)
THEOREM TypeCorrect == Spec => []TypeOK
<1>1. Typed => TypeOK
  BY DEF Typed
<1> QED BY <1>1, InitTyped, NextTyped, PTL DEF Spec
-----------------------------------------------------------------------------
(* Every step keeps the rows of the tasks that still need theirs. *)

LEMMA HeldPrimed ==
  (\A k \in Tasks : CoveredBy(task'[k], rows', k) /\ GrantedBy(task'[k], rows', k))
    => Covered' /\ Granted'
BY DEF Covered, Granted, CoveredBy, GrantedBy

(* A task that waits for no renewal needs no fresh row, and one that        *)
(* neither is admitted nor runs needs no row.                               *)
LEMMA NothingNeeded ==
  ASSUME NEW s, NEW r, NEW t
  PROVE  /\ s.renewal \notin {"sent", "granted"} => GrantedBy(s, r, t)
         /\ s.phase \notin {"admitted", "running"} => CoveredBy(s, r, t)
BY DEF CoveredBy, GrantedBy

(* A row table that keeps what the tasks need, under unchanged tasks but t. *)
LEMMA OthersHeld ==
  ASSUME Typed, Held, NEW t \in Tasks, NEW s \in States,
         task' = [task EXCEPT ![t] = s],
         \A k \in DOMAIN rows \ {t} : rows[k] > 0 => k \in DOMAIN rows' /\ rows'[k] = rows[k]
  PROVE  \A k \in Tasks \ {t} :
           /\ task'[k] = task[k]
           /\ CoveredBy(task'[k], rows', k) /\ GrantedBy(task'[k], rows', k)
<1> SUFFICES ASSUME NEW k \in Tasks \ {t}
             PROVE  /\ task'[k] = task[k]
                    /\ CoveredBy(task'[k], rows', k) /\ GrantedBy(task'[k], rows', k)
  OBVIOUS
<1>1. task'[k] = task[k] /\ task[k] \in States
  BY DEF Typed, TypeOK
<1>2. task[k].left \in Nat /\ task[k].delay \in Nat /\ Lease \in Nat /\ MaxDelay \in Nat
  BY <1>1, PermitsConstants DEF States
<1>3. k \in DOMAIN rows => rows[k] \in Nat
  BY DEF Typed, TypeOK
<1>4. CoveredBy(task[k], rows, k) /\ GrantedBy(task[k], rows, k)
  BY DEF Held, Covered, Granted
<1>5. k \in DOMAIN rows /\ rows[k] > 0 => k \in DOMAIN rows' /\ rows'[k] = rows[k]
  OBVIOUS
<1>6. CoveredBy(task[k], rows', k)
  BY <1>2, <1>3, <1>4, <1>5 DEF CoveredBy
<1>7. GrantedBy(task[k], rows', k)
  BY <1>2, <1>3, <1>4, <1>5 DEF GrantedBy
<1> QED BY <1>1, <1>6, <1>7

(* A step of one task that has not been handed over. *)
LEMMA TaskStepHeld ==
  ASSUME Typed, Held, NEW t \in Tasks, NEW s \in States,
         task' = [task EXCEPT ![t] = s], reclaim' = reclaim,
         task[t].phase # "ended",
         \A k \in DOMAIN rows \ {t} : rows[k] > 0 => k \in DOMAIN rows' /\ rows'[k] = rows[k],
         CoveredBy(s, rows', t), GrantedBy(s, rows', t)
  PROVE  Held'
<1>1. task'[t] = s
  BY DEF Typed, TypeOK
<1>2. \A k \in Tasks \ {t} :
        /\ task'[k] = task[k]
        /\ CoveredBy(task'[k], rows', k) /\ GrantedBy(task'[k], rows', k)
  BY OthersHeld
<1>3. HandedOver'
  <2> SUFFICES ASSUME NEW i \in 1..Len(reclaim) PROVE task'[reclaim[i]].phase = "ended"
    BY DEF HandedOver
  <2>1. reclaim[i] \in Tasks /\ task[reclaim[i]].phase = "ended"
    BY DEF Typed, TypeOK, Held, HandedOver
  <2> QED BY <1>2, <2>1
<1>4. \A k \in Tasks : CoveredBy(task'[k], rows', k) /\ GrantedBy(task'[k], rows', k)
  BY <1>1, <1>2
<1>5. Covered' /\ Granted'
  BY <1>4, HeldPrimed
<1> QED BY <1>3, <1>5 DEF Held

(* A task ends and hands its row over. *)
LEMMA TaskEndsHeld ==
  ASSUME Typed, Held, NEW t \in Tasks,
         task' = [task EXCEPT ![t] = At("ended")], rows' = rows,
         reclaim' = reclaim \/ reclaim' = Append(reclaim, t)
  PROVE  Held'
<1>1. At("ended") \in States /\ At("ended").phase = "ended" /\ At("ended").renewal = "none"
  BY AtTyped DEF Phases
<1>2. task'[t] = At("ended")
  BY DEF Typed, TypeOK
<1>3. \A k \in Tasks \ {t} :
        /\ task'[k] = task[k]
        /\ CoveredBy(task'[k], rows', k) /\ GrantedBy(task'[k], rows', k)
  BY <1>1, OthersHeld
<1>4. HandedOver'
  <2>1. \A k \in Tasks : task[k].phase = "ended" => task'[k].phase = "ended"
    BY <1>1, <1>2, <1>3
  <2>2. \A i \in 1..Len(reclaim) : task'[reclaim[i]].phase = "ended"
    BY <2>1 DEF Typed, TypeOK, Held, HandedOver
  <2>3. \A i \in 1..Len(Append(reclaim, t)) : task'[Append(reclaim, t)[i]].phase = "ended"
    BY <1>1, <1>2, <2>2 DEF Typed, TypeOK
  <2> QED BY <2>2, <2>3 DEF HandedOver
<1>5. CoveredBy(At("ended"), rows', t) /\ GrantedBy(At("ended"), rows', t)
  BY <1>1 DEF CoveredBy, GrantedBy
<1>6. \A k \in Tasks : CoveredBy(task'[k], rows', k) /\ GrantedBy(task'[k], rows', k)
  BY <1>2, <1>3, <1>5
<1>7. Covered' /\ Granted'
  BY <1>6, HeldPrimed
<1> QED BY <1>4, <1>7 DEF Held

LEMMA InitHeld == Init => Held
<1> SUFFICES ASSUME Init PROVE Held
  OBVIOUS
<1>1. \A t \in Tasks : task[t].phase = "waiting" /\ task[t].renewal = "none"
  BY DEF Init, At
<1>2. Len(reclaim) = 0
  BY DEF Init
<1>3. \A t \in Tasks : CoveredBy(task[t], rows, t) /\ GrantedBy(task[t], rows, t)
  BY <1>1, NothingNeeded
<1> QED BY <1>2, <1>3 DEF Held, HandedOver, Covered, Granted

LEMMA NextHeld ==
  ASSUME Typed, Held, [Next]_vars
  PROVE  Held'
<1>c. /\ task \in [Tasks -> States] /\ reclaim \in Seq(Tasks)
      /\ DOMAIN rows \subseteq Tasks /\ \A t \in DOMAIN rows : rows[t] \in 0..Lease
  BY DEF Typed, TypeOK
<1>l. Lease \in Nat /\ Lease > 0 /\ Interval \in Nat /\ MaxDelay \in Nat
  BY PermitsConstants
<1>s. \A k \in DOMAIN rows : rows[k] > 0 => k \in DOMAIN Swept /\ Swept[k] = rows[k]
  BY SweptRows
<1>1. ASSUME NEW t \in Tasks, Begin(t) PROVE Held'
  <2> DEFINE s == [At("acquiring") EXCEPT !.left = Lease]
  <2>1. s \in States /\ s.phase = "acquiring" /\ s.renewal = "none"
    BY PermitsConstants DEF States, Phases, Renewals, At
  <2>2. task' = [task EXCEPT ![t] = s] /\ rows' = rows /\ reclaim' = reclaim /\ task[t].phase = "waiting"
    BY <1>1 DEF Begin
  <2> HIDE DEF s
  <2>3. CoveredBy(s, rows', t) /\ GrantedBy(s, rows', t)
    BY <2>1, NothingNeeded
  <2> QED BY <2>1, <2>2, <2>3, TaskStepHeld
<1>2. ASSUME NEW t \in Tasks, Admit(t) PROVE Held'
  <2> DEFINE s == [task[t] EXCEPT !.phase = "admitted"]
  <2>1. task[t] \in States
    BY <1>c
  <2>9. task[t].renewal = "none"
    BY <1>2 DEF Admit, Typed, Quiet
  <2>2. s \in States /\ s.phase = "admitted" /\ s.left \in 0..Lease /\ s.renewal = "none"
    BY <2>1, <2>9 DEF States, Phases
  <2>3. task' = [task EXCEPT ![t] = s] /\ reclaim' = reclaim /\ task[t].phase = "acquiring"
    BY <1>2, <1>c DEF Admit
  <2>4. rows' = With(Swept, t, Lease)
    BY <1>2 DEF Admit
  <2>5. /\ DOMAIN rows' = DOMAIN Swept \cup {t} /\ rows'[t] = Lease
        /\ \A k \in DOMAIN Swept \ {t} : rows'[k] = Swept[k]
    BY <2>4 DEF With
  <2>6. \A k \in DOMAIN rows \ {t} : rows[k] > 0 => k \in DOMAIN rows' /\ rows'[k] = rows[k]
    BY <2>5, <1>s
  <2>7. t \in DOMAIN rows'
    BY <2>5
  <2>8. task[t].phase # "ended"
    BY <2>3
  <2>10. s.left <= rows'[t] + MaxDelay
    BY <2>2, <2>5, <1>l
  <2> HIDE DEF s
  <2>11. CoveredBy(s, rows', t) /\ GrantedBy(s, rows', t)
    BY <2>2, <2>7, <2>10, NothingNeeded DEF CoveredBy
  <2> QED BY <2>2, <2>3, <2>6, <2>8, <2>11, TaskStepHeld
<1>3. ASSUME NEW t \in Tasks, Refuse(t) PROVE Held'
  <2> DEFINE s == At("waiting")
  <2>1. s \in States /\ s.phase = "waiting" /\ s.renewal = "none"
    BY AtTyped DEF Phases
  <2>2. task' = [task EXCEPT ![t] = s] /\ rows' = Swept /\ reclaim' = reclaim
        /\ task[t].phase = "acquiring"
    BY <1>3 DEF Refuse
  <2> HIDE DEF s
  <2>3. CoveredBy(s, rows', t) /\ GrantedBy(s, rows', t)
    BY <2>1, NothingNeeded
  <2> QED BY <1>s, <2>1, <2>2, <2>3, TaskStepHeld
<1>4. ASSUME NEW t \in Tasks, Enter(t) PROVE Held'
  <2> DEFINE s == Runs(task[t].left, Interval, "none")
  <2>1. task[t] \in States
    BY <1>c
  <2>2. task[t].left \in 0..Lease /\ Interval \in 0..Interval /\ "none" \in Renewals
    BY <1>l, <2>1 DEF States, Renewals
  <2>3. s \in States /\ s.phase = "running" /\ s.left = task[t].left /\ s.renewal = "none"
    BY <2>2, RunsTyped
  <2>4. task' = [task EXCEPT ![t] = s] /\ rows' = rows /\ reclaim' = reclaim
        /\ task[t].phase = "admitted"
    BY <1>4 DEF Enter
  <2>5. CoveredBy(task[t], rows, t)
    BY DEF Held, Covered
  <2> HIDE DEF s
  <2>6. CoveredBy(s, rows', t) /\ GrantedBy(s, rows', t)
    BY <2>3, <2>4, <2>5, NothingNeeded DEF CoveredBy
  <2> QED BY <2>3, <2>4, <2>6, TaskStepHeld
<1>5. ASSUME NEW t \in Tasks, SendRenewal(t) PROVE Held'
  <2> DEFINE s == Runs(task[t].left, 0, "sent")
  <2>1. task[t] \in States
    BY <1>c
  <2>2. task[t].left \in 0..Lease /\ 0 \in 0..Interval /\ "sent" \in Renewals
    BY <1>l, <2>1 DEF States, Renewals
  <2>3. s \in States /\ s.phase = "running" /\ s.left = task[t].left /\ s.renewal = "sent"
    BY <2>2, RunsTyped
  <2>4. task' = [task EXCEPT ![t] = s] /\ rows' = rows /\ reclaim' = reclaim
        /\ task[t].phase = "running"
    BY <1>5 DEF SendRenewal, Running
  <2>5. CoveredBy(task[t], rows, t) /\ s.delay = 0
    BY DEF Held, Covered, Runs
  <2> HIDE DEF s
  <2>6. CoveredBy(s, rows', t) /\ GrantedBy(s, rows', t)
    BY <2>3, <2>4, <2>5 DEF CoveredBy, GrantedBy
  <2> QED BY <2>3, <2>4, <2>6, TaskStepHeld
<1>6. ASSUME NEW t \in Tasks, Renew(t) PROVE Held'
  <2> DEFINE live == t \in DOMAIN rows /\ rows[t] > 0
             a == IF live THEN "granted" ELSE "lost"
             s == [task[t] EXCEPT !.renewal = a]
  <2>1. task[t] \in States /\ task[t].phase = "running"
    BY <1>6, <1>c DEF Renew
  <2>2. a \in Renewals /\ (a = "granted" => live)
    BY DEF Renewals
  <2>3. task' = [task EXCEPT ![t] = s] /\ reclaim' = reclaim
    BY <1>6, <1>c DEF Renew
  <2>4. rows' = IF live THEN With(rows, t, Lease) ELSE rows
    BY <1>6 DEF Renew
  <2>5. live => /\ DOMAIN rows' = DOMAIN rows \cup {t} /\ rows'[t] = Lease
                /\ \A k \in DOMAIN rows \ {t} : rows'[k] = rows[k]
    BY <2>4 DEF With
  <2>6. ~live => rows' = rows
    BY <2>4
  <2>7. CoveredBy(task[t], rows, t) /\ task[t].delay = 0
    BY <1>6 DEF Held, Covered, Granted, GrantedBy, Renew
  <2> HIDE DEF a
  <2>8. s \in States /\ s.phase = "running" /\ s.left = task[t].left /\ s.renewal = a
        /\ s.left \in 0..Lease /\ s.delay = 0
    BY <2>1, <2>2, <2>7 DEF States
  <2>13. a # "sent"
    BY DEF a
  <2> HIDE DEF s
  <2>9. live => CoveredBy(s, rows', t)
    BY <2>5, <2>8, <1>l DEF CoveredBy
  <2>10. ~live => CoveredBy(s, rows', t)
    BY <2>1, <2>6, <2>7, <2>8 DEF CoveredBy
  <2>11. GrantedBy(s, rows', t)
    BY <2>2, <2>5, <2>8, <2>13, <1>l DEF GrantedBy
  <2>12. \A k \in DOMAIN rows \ {t} : rows[k] > 0 => k \in DOMAIN rows' /\ rows'[k] = rows[k]
    BY <2>5, <2>6
  <2> HIDE DEF live
  <2> QED BY <2>1, <2>3, <2>8, <2>9, <2>10, <2>11, <2>12, TaskStepHeld
<1>7. ASSUME NEW t \in Tasks, RenewFails(t) PROVE Held'
  <2> DEFINE s == [task[t] EXCEPT !.renewal = "failed"]
  <2>1. task[t] \in States /\ task[t].phase = "running"
    BY <1>7, <1>c DEF RenewFails
  <2>2. s \in States /\ s.phase = "running" /\ s.left = task[t].left /\ s.renewal = "failed"
    BY <2>1 DEF States, Renewals
  <2>3. task' = [task EXCEPT ![t] = s] /\ rows' = rows /\ reclaim' = reclaim
    BY <1>7, <1>c DEF RenewFails
  <2>4. CoveredBy(task[t], rows, t)
    BY DEF Held, Covered
  <2> HIDE DEF s
  <2>5. CoveredBy(s, rows', t) /\ GrantedBy(s, rows', t)
    BY <2>1, <2>2, <2>3, <2>4, NothingNeeded DEF CoveredBy
  <2> QED BY <2>1, <2>2, <2>3, <2>5, TaskStepHeld
<1>8. ASSUME NEW t \in Tasks, TakeAnswer(t) PROVE Held'
  <2> DEFINE n == IF task[t].renewal = "granted" THEN Lease ELSE task[t].left
             s == Runs(n, Interval, "none")
  <2>1. task[t] \in States /\ task[t].phase = "running"
    BY <1>8, <1>c DEF TakeAnswer, Running
  <2>2. n \in 0..Lease /\ Interval \in 0..Interval /\ "none" \in Renewals
    BY <1>l, <2>1 DEF States, Renewals
  <2>3. task' = [task EXCEPT ![t] = s] /\ rows' = rows /\ reclaim' = reclaim
    BY <1>8 DEF TakeAnswer
  <2>4. task[t].left > 0 /\ task[t].left \in Nat /\ task[t].delay \in 0..MaxDelay
    BY <1>8, <2>1 DEF TakeAnswer, Running, States
  <2>5. task[t].renewal = "granted" => t \in DOMAIN rows /\ rows[t] = Lease - task[t].delay
    <3>1. GrantedBy(task[t], rows, t)
      BY DEF Held, Granted
    <3> QED BY <1>l, <2>1, <2>4, <3>1 DEF GrantedBy
  <2>6. n > MaxDelay => t \in DOMAIN rows /\ n <= rows[t] + MaxDelay
    <3>1. CoveredBy(task[t], rows, t)
      BY DEF Held, Covered
    <3> QED BY <1>l, <2>1, <2>4, <2>5, <3>1 DEF CoveredBy
  <2> HIDE DEF n
  <2>7. s \in States /\ s.phase = "running" /\ s.left = n /\ s.renewal = "none"
    BY <2>2, RunsTyped
  <2> HIDE DEF s
  <2>8. CoveredBy(s, rows', t) /\ GrantedBy(s, rows', t)
    BY <2>3, <2>6, <2>7, NothingNeeded DEF CoveredBy
  <2> QED BY <2>1, <2>3, <2>7, <2>8, TaskStepHeld
<1>9. ASSUME NEW t \in Tasks, Abort(t) \/ Finish(t) PROVE Held'
  <2>1. /\ At("releasing") \in States /\ At("releasing").phase = "releasing"
        /\ At("releasing").renewal = "none"
    BY AtTyped DEF Phases
  <2>2. task' = [task EXCEPT ![t] = At("releasing")] /\ rows' = rows /\ reclaim' = reclaim
        /\ task[t].phase = "running"
    BY <1>9 DEF Abort, Finish
  <2>3. CoveredBy(At("releasing"), rows', t) /\ GrantedBy(At("releasing"), rows', t)
    BY <2>1, NothingNeeded
  <2> QED BY <2>1, <2>2, <2>3, TaskStepHeld
<1>10. ASSUME NEW t \in Tasks, Release(t) PROVE Held'
  <2>1. At("ended") \in States /\ At("ended").phase = "ended" /\ At("ended").renewal = "none"
    BY AtTyped DEF Phases
  <2>2. task' = [task EXCEPT ![t] = At("ended")] /\ reclaim' = reclaim
        /\ task[t].phase = "releasing"
    BY <1>10 DEF Release
  <2>3. rows' = Without(rows, t)
    BY <1>10 DEF Release
  <2>4. \A k \in DOMAIN rows \ {t} : k \in DOMAIN rows' /\ rows'[k] = rows[k]
    BY <2>3 DEF Without
  <2>5. CoveredBy(At("ended"), rows', t) /\ GrantedBy(At("ended"), rows', t)
    BY <2>1, NothingNeeded
  <2> QED BY <2>1, <2>2, <2>4, <2>5, TaskStepHeld
<1>11. ASSUME NEW t \in Tasks, ReleaseFails(t) \/ Cancel(t) PROVE Held'
  <2>1. task' = [task EXCEPT ![t] = At("ended")] /\ rows' = rows
        /\ (reclaim' = reclaim \/ reclaim' = Append(reclaim, t))
    BY <1>11 DEF ReleaseFails, Cancel
  <2> QED BY <2>1, TaskEndsHeld
<1>12. ASSUME Reclaim PROVE Held'
  <2> DEFINE h == Head(reclaim)
  <2>1. reclaim # << >> /\ rows' = Without(rows, h) /\ reclaim' = Tail(reclaim) /\ task' = task
    BY <1>12 DEF Reclaim
  <2>2. h = reclaim[1] /\ Len(reclaim) >= 1 /\ 1 \in 1..Len(reclaim)
    BY <2>1, <1>c
  <2>3. task[h].phase = "ended"
    BY <2>2 DEF Held, HandedOver
  <2>4. /\ DOMAIN rows' = DOMAIN rows \ {h}
        /\ \A k \in DOMAIN rows \ {h} : rows'[k] = rows[k]
    BY <2>1 DEF Without
  <2>5. HandedOver'
    <3> SUFFICES ASSUME NEW i \in 1..Len(Tail(reclaim)) PROVE task[Tail(reclaim)[i]].phase = "ended"
      BY <2>1 DEF HandedOver
    <3>1. Tail(reclaim)[i] = reclaim[i + 1] /\ i + 1 \in 1..Len(reclaim)
      BY <2>1, <2>2, <1>c
    <3> QED BY <3>1 DEF Held, HandedOver
  <2> HIDE DEF h
  <2>8. Quiet
    BY DEF Typed
  <2>6. ASSUME NEW t \in Tasks
        PROVE  CoveredBy(task[t], rows', t) /\ GrantedBy(task[t], rows', t)
    <3>1. CoveredBy(task[t], rows, t) /\ GrantedBy(task[t], rows, t)
      BY DEF Held, Covered, Granted
    <3> QED BY <2>3, <2>4, <2>8, <3>1 DEF CoveredBy, GrantedBy, Quiet
  <2>7. Covered' /\ Granted'
    BY <2>1, <2>6, HeldPrimed
  <2> QED BY <2>5, <2>7 DEF Held
<1>13. ASSUME ReclaimFails PROVE Held'
  <2>1. task' = task /\ rows' = rows /\ reclaim # << >>
        /\ (reclaim' = reclaim \/ reclaim' = Tail(reclaim))
    BY <1>13 DEF ReclaimFails
  <2>2. \A i \in 1..Len(Tail(reclaim)) : task[Tail(reclaim)[i]].phase = "ended"
    <3> SUFFICES ASSUME NEW i \in 1..Len(Tail(reclaim)) PROVE task[Tail(reclaim)[i]].phase = "ended"
      OBVIOUS
    <3>1. Tail(reclaim)[i] = reclaim[i + 1] /\ i + 1 \in 1..Len(reclaim)
      BY <2>1, <1>c
    <3> QED BY <3>1 DEF Held, HandedOver
  <2>3. HandedOver'
    BY <2>1, <2>2 DEF Held, HandedOver
  <2>4. Covered' /\ Granted'
    BY <2>1, HeldPrimed DEF Held, Covered, Granted
  <2> QED BY <2>3, <2>4 DEF Held
<1>14. ASSUME Crash PROVE Held'
  <2>1. At("ended").phase = "ended" /\ At("ended").renewal = "none"
    BY DEF At
  <2>2. \A t \in Tasks : task'[t].phase \notin {"admitted", "running"} /\ task'[t].renewal = "none"
    BY <1>14, <2>1 DEF Crash, Typed, Quiet
  <2>3. Len(reclaim') = 0
    BY <1>14 DEF Crash
  <2>4. Covered' /\ Granted'
    BY <2>2, NothingNeeded, HeldPrimed
  <2> QED BY <2>3, <2>4 DEF Held, HandedOver
<1>15. ASSUME Tick PROVE Held'
  <2>1. \A t \in Tasks : task'[t] = Aged(task[t]) /\ task[t] \in States /\ ~Due(t)
    BY <1>15, <1>c DEF Tick
  <2>2. \A t \in Tasks : /\ task'[t].phase = task[t].phase /\ task'[t].renewal = task[t].renewal
                         /\ task'[t].left = Down(task[t].left)
    BY <2>1 DEF Aged, States
  <2>3. DOMAIN rows' = DOMAIN rows /\ \A t \in DOMAIN rows : rows'[t] = Down(rows[t])
    BY <1>15 DEF Tick
  <2>4. reclaim' = reclaim
    BY <1>15 DEF Tick
  <2>5. HandedOver'
    BY <2>2, <2>4, <1>c DEF Held, HandedOver
  <2>6. ASSUME NEW t \in Tasks
        PROVE  CoveredBy(task'[t], rows', t) /\ GrantedBy(task'[t], rows', t)
    <3>1. /\ task[t].left \in Nat /\ task[t].delay \in Nat
          /\ task'[t].phase = task[t].phase /\ task'[t].renewal = task[t].renewal
          /\ task'[t].left = Down(task[t].left)
      BY <2>1, <2>2 DEF States
    <3>2. /\ task[t].renewal \in {"none", "sent"} => task'[t].delay = task[t].delay
          /\ task[t].renewal = "granted" => task'[t].delay = task[t].delay + 1
      BY <2>1 DEF Aged, States
    <3>3. t \in DOMAIN rows => rows[t] \in Nat /\ t \in DOMAIN rows' /\ rows'[t] = Down(rows[t])
      BY <2>3, <1>c
    <3>4. task[t].phase = "running" => task[t].left > 0
      BY <2>1, <3>1 DEF Due
    <3>5. CoveredBy(task[t], rows, t) /\ GrantedBy(task[t], rows, t)
      BY DEF Held, Covered, Granted
    <3>6. CoveredBy(task'[t], rows', t)
      BY <1>l, <3>1, <3>3, <3>5 DEF CoveredBy, Down
    <3>7. GrantedBy(task'[t], rows', t)
      BY <1>l, <3>1, <3>2, <3>3, <3>4, <3>5 DEF GrantedBy, Down
    <3> QED BY <3>6, <3>7
  <2>7. Covered' /\ Granted'
    BY <2>6, HeldPrimed
  <2> QED BY <2>5, <2>7 DEF Held
<1>16. CASE UNCHANGED vars
  BY <1>16, HeldPrimed DEF vars, Held, HandedOver, Covered, Granted
<1> QED
  BY <1>1, <1>2, <1>3, <1>4, <1>5, <1>6, <1>7, <1>8, <1>9, <1>10, <1>11, <1>12, <1>13,
     <1>14, <1>15, <1>16 DEF Next, Renewing

(* However slow the database answers, the row of a running task lasts until *)
(* the deadline renew_while holds for it but for the delay of one answer,   *)
(* whatever fails, is cancelled or crashes: no admission sweeps the permit  *)
(* of a running job before that.                                            *)
THEOREM DeadlinesAreCovered == Spec => []DeadlineIsCovered
<1>1. Init => Typed /\ Held
  BY InitTyped, InitHeld
<1>2. Typed /\ Held /\ [Next]_vars => (Typed /\ Held)'
  BY NextTyped, NextHeld
<1>3. Typed /\ Held => DeadlineIsCovered
  BY DEF Held, Covered, CoveredBy, DeadlineIsCovered, Secure, Running
<1> QED BY <1>1, <1>2, <1>3, PTL DEF Spec

-----------------------------------------------------------------------------
(* The rows are within the ceilings: only an admission adds one. *)

LEMMA RowsFinite ==
  ASSUME Typed
  PROVE  /\ IsFiniteSet(DOMAIN rows) /\ IsFiniteSet(DOMAIN Swept)
         /\ \A u \in Users : IsFiniteSet(OfUser(rows, u)) /\ IsFiniteSet(OfUser(Swept, u))
<1>1. IsFiniteSet(Tasks)
  BY PermitsConstants
<1>2. DOMAIN rows \subseteq Tasks /\ DOMAIN Swept \subseteq Tasks
  BY SweptRows DEF Typed, TypeOK
<1>3. \A u \in Users : OfUser(rows, u) \subseteq Tasks /\ OfUser(Swept, u) \subseteq Tasks
  BY <1>2 DEF OfUser
<1> QED BY <1>1, <1>2, <1>3, FS_Subset

LEMMA FewerRows ==
  ASSUME Typed, Counted, DOMAIN rows' \subseteq DOMAIN rows
  PROVE  Counted'
<1>c. MaxGlobal \in Nat /\ MaxPerUser \in Nat
  BY PermitsConstants
<1>1. Cardinality(DOMAIN rows') <= MaxGlobal
  <2>1. /\ Cardinality(DOMAIN rows') \in Nat /\ Cardinality(DOMAIN rows) \in Nat
        /\ Cardinality(DOMAIN rows') <= Cardinality(DOMAIN rows)
    BY RowsFinite, FS_Subset, FS_CardinalityType
  <2>2. Cardinality(DOMAIN rows) <= MaxGlobal
    BY DEF Counted
  <2> QED BY <1>c, <2>1, <2>2
<1>2. ASSUME NEW u \in Users PROVE Cardinality(OfUser(rows', u)) <= MaxPerUser
  <2>0. OfUser(rows', u) \subseteq OfUser(rows, u)
    BY DEF OfUser
  <2>1. /\ Cardinality(OfUser(rows', u)) \in Nat /\ Cardinality(OfUser(rows, u)) \in Nat
        /\ Cardinality(OfUser(rows', u)) <= Cardinality(OfUser(rows, u))
    BY <2>0, RowsFinite, FS_Subset, FS_CardinalityType
  <2>2. Cardinality(OfUser(rows, u)) <= MaxPerUser
    BY DEF Counted
  <2> QED BY <1>c, <2>1, <2>2
<1>3. \A u \in Users : Cardinality(OfUser(rows, u)') <= MaxPerUser
  BY <1>2 DEF OfUser
<1> QED BY <1>1, <1>3 DEF Counted

LEMMA AdmitCounted ==
  ASSUME Typed, Counted, NEW t \in Tasks, Admit(t)
  PROVE  Counted'
<1>c. MaxGlobal \in Nat /\ MaxPerUser \in Nat
  BY PermitsConstants
<1>r. DOMAIN rows' = DOMAIN Swept \cup {t} /\ DOMAIN Swept \subseteq DOMAIN rows
  BY SweptRows DEF Admit, With
<1>h. Cardinality(DOMAIN Swept) < MaxGlobal /\ Cardinality(OfUser(Swept, UserOf[t])) < MaxPerUser
  BY DEF Admit, HasCapacity
<1>1. Cardinality(DOMAIN rows') <= MaxGlobal
  <2>1. /\ Cardinality(DOMAIN Swept) \in Nat
        /\ \/ Cardinality(DOMAIN Swept \cup {t}) = Cardinality(DOMAIN Swept)
           \/ Cardinality(DOMAIN Swept \cup {t}) = Cardinality(DOMAIN Swept) + 1
    BY RowsFinite, FS_AddElement, FS_CardinalityType
  <2> QED BY <1>c, <1>r, <1>h, <2>1
<1>2. ASSUME NEW u \in Users PROVE Cardinality(OfUser(rows', u)) <= MaxPerUser
  <2>1. CASE u = UserOf[t]
    <3>1. OfUser(rows', u) = OfUser(Swept, u) \cup {t}
      BY <1>r, <2>1 DEF OfUser
    <3>2. /\ Cardinality(OfUser(Swept, u)) \in Nat
          /\ \/ Cardinality(OfUser(Swept, u) \cup {t}) = Cardinality(OfUser(Swept, u))
             \/ Cardinality(OfUser(Swept, u) \cup {t}) = Cardinality(OfUser(Swept, u)) + 1
      BY RowsFinite, FS_AddElement, FS_CardinalityType
    <3> QED BY <1>c, <1>h, <2>1, <3>1, <3>2
  <2>2. CASE u # UserOf[t]
    <3>1. OfUser(rows', u) \subseteq OfUser(rows, u)
      BY <1>r, <2>2 DEF OfUser
    <3>2. /\ Cardinality(OfUser(rows', u)) \in Nat /\ Cardinality(OfUser(rows, u)) \in Nat
          /\ Cardinality(OfUser(rows', u)) <= Cardinality(OfUser(rows, u))
      BY <3>1, RowsFinite, FS_Subset, FS_CardinalityType
    <3>3. Cardinality(OfUser(rows, u)) <= MaxPerUser
      BY DEF Counted
    <3> QED BY <1>c, <3>2, <3>3
  <2> QED BY <2>1, <2>2
<1>3. \A u \in Users : Cardinality(OfUser(rows, u)') <= MaxPerUser
  BY <1>2 DEF OfUser
<1> QED BY <1>1, <1>3 DEF Counted

LEMMA InitCounted == Init => Counted
<1> SUFFICES ASSUME Init PROVE Counted
  OBVIOUS
<1>1. DOMAIN rows = {} /\ \A u \in Users : OfUser(rows, u) = {}
  BY DEF Init, OfUser
<1>2. Cardinality({}) = 0
  BY FS_EmptySet
<1>3. 0 <= MaxGlobal /\ 0 <= MaxPerUser
  BY PermitsConstants
<1> QED BY <1>1, <1>2, <1>3 DEF Counted

LEMMA NextCounted == Typed /\ Counted /\ [Next]_vars => Counted'
<1> SUFFICES ASSUME Typed, Counted, [Next]_vars PROVE Counted'
  OBVIOUS
<1>1. ASSUME NEW t \in Tasks, Admit(t) PROVE Counted'
  BY <1>1, AdmitCounted
<1>2. ASSUME NEW t \in Tasks, Refuse(t) PROVE Counted'
  <2>1. DOMAIN rows' \subseteq DOMAIN rows
    BY <1>2, SweptRows DEF Refuse
  <2> QED BY <2>1, FewerRows
<1>3. ASSUME NEW t \in Tasks, Renew(t) PROVE Counted'
  <2>1. DOMAIN rows' \subseteq DOMAIN rows
    BY <1>3 DEF Renew, With
  <2> QED BY <2>1, FewerRows
<1>4. ASSUME NEW t \in Tasks, Release(t) PROVE Counted'
  <2>1. DOMAIN rows' \subseteq DOMAIN rows
    BY <1>4 DEF Release, Without
  <2> QED BY <2>1, FewerRows
<1>5. ASSUME Reclaim PROVE Counted'
  <2>1. DOMAIN rows' \subseteq DOMAIN rows
    BY <1>5 DEF Reclaim, Without
  <2> QED BY <2>1, FewerRows
<1>6. ASSUME Tick PROVE Counted'
  <2>1. DOMAIN rows' \subseteq DOMAIN rows
    BY <1>6 DEF Tick
  <2> QED BY <2>1, FewerRows
<1>7. ASSUME rows' = rows PROVE Counted'
  <2>1. DOMAIN rows' \subseteq DOMAIN rows
    BY <1>7
  <2> QED BY <2>1, FewerRows
<1>8. ASSUME NEW t \in Tasks,
             \/ Begin(t) \/ Enter(t) \/ SendRenewal(t) \/ TakeAnswer(t) \/ Abort(t)
             \/ RenewFails(t) \/ Finish(t) \/ ReleaseFails(t) \/ Cancel(t)
      PROVE  rows' = rows
  BY <1>8 DEF Begin, Enter, SendRenewal, TakeAnswer, Abort, RenewFails, Finish, ReleaseFails, Cancel
<1>9. ASSUME ReclaimFails \/ Crash \/ UNCHANGED vars PROVE rows' = rows
  BY <1>9 DEF ReclaimFails, Crash, vars
<1> QED
  BY <1>1, <1>2, <1>3, <1>4, <1>5, <1>6, <1>7, <1>8, <1>9 DEF Next, Renewing

(* Never more jobs run than the two ceilings of try_acquire_as admit, but   *)
(* for jobs that are at most the delay of one answer from their own         *)
(* deadline: every other running job holds a row, and the rows are within   *)
(* the ceilings.  With answers that take no time these are all jobs.        *)
THEOREM CeilingsHold == Spec => []CeilingHolds
<1>1. Init => Typed /\ Held /\ Counted
  BY InitTyped, InitHeld, InitCounted
<1>2. Typed /\ Held /\ Counted /\ [Next]_vars => (Typed /\ Held /\ Counted)'
  BY NextTyped, NextHeld, NextCounted
<1>3. Typed /\ Held /\ Counted => CeilingHolds
  <2> SUFFICES ASSUME Typed, Held, Counted PROVE CeilingHolds
    OBVIOUS
  <2>c. MaxGlobal \in Nat /\ MaxPerUser \in Nat
    BY PermitsConstants
  <2>0. \A t \in Tasks : Secure(t) => t \in DOMAIN rows
    BY DEF Secure, Running, Held, Covered, CoveredBy
  <2>1. Cardinality({t \in Tasks : Secure(t)}) <= MaxGlobal
    <3> DEFINE S == {t \in Tasks : Secure(t)}
    <3>1. S \subseteq DOMAIN rows
      BY <2>0
    <3> HIDE DEF S
    <3>2. /\ Cardinality(S) \in Nat /\ Cardinality(DOMAIN rows) \in Nat
          /\ Cardinality(S) <= Cardinality(DOMAIN rows)
      BY <3>1, RowsFinite, FS_Subset, FS_CardinalityType
    <3>3. Cardinality(S) <= MaxGlobal
      BY <2>c, <3>2 DEF Counted
    <3> QED BY <3>3 DEF S
  <2>2. ASSUME NEW u \in Users
        PROVE  Cardinality({t \in Tasks : Secure(t) /\ UserOf[t] = u}) <= MaxPerUser
    <3> DEFINE S == {t \in Tasks : Secure(t) /\ UserOf[t] = u}
    <3>1. S \subseteq OfUser(rows, u)
      BY <2>0 DEF OfUser
    <3> HIDE DEF S
    <3>2. /\ Cardinality(S) \in Nat /\ Cardinality(OfUser(rows, u)) \in Nat
          /\ Cardinality(S) <= Cardinality(OfUser(rows, u))
      BY <3>1, RowsFinite, FS_Subset, FS_CardinalityType
    <3>3. Cardinality(S) <= MaxPerUser
      BY <2>c, <3>2 DEF Counted
    <3> QED BY <3>3 DEF S
  <2> QED BY <2>1, <2>2 DEF CeilingHolds
<1> QED BY <1>1, <1>2, <1>3, PTL DEF Spec
=============================================================================
