---------------------------- MODULE WrapFinality ----------------------------
(***************************************************************************)
(* Commands on shooting days and scene shoots, from the handler through    *)
(* the command adapter and the entity actors to the event streams, and the *)
(* gate that keeps the execution side of a wrapped day frozen.             *)
(*                                                                         *)
(* Every API instance keeps an actor per stream, which answers commands    *)
(* from the state it replayed and appends with that state's version as the *)
(* expected version; only a rejected append makes it read the stream       *)
(* again.  A frozen command takes the day's advisory lock, probes the day  *)
(* for a wrap and sends its command to the shoot's actor; wrap takes the   *)
(* same lock.  A sent command is handled even when the handler that sent   *)
(* it has been dropped, and dropping the handler drops the lock.           *)
(*                                                                         *)
(* Handling a command, the append included, is one step: the actor handles *)
(* nothing else meanwhile, and another instance's append in between shows  *)
(* up as a version conflict, exactly as if it had come first.              *)
(***************************************************************************)
EXTENDS ShootingDay, SceneShoot

CONSTANTS
  Instances,        \* API processes
  Calls,            \* request handlers that may be running at a time
  Days, Shoots,
  DayOf,            \* DayOf[s]: the day scene shoot s was planned on
  Unloaded,         \* an actor that has not been started
  Ops,              \* the commands that clients send
  ConflictRetries,  \* conflict_reties of the entity actor
  MaxVersion,       \* bound: no new request to a stream of this length
  Faults,           \* kinds of fault that happen
  MaxFaults         \* bound: number of faults

ASSUME WrapConstants ==
  /\ DayOf \in [Shoots -> Days]
  /\ None \notin Calls \cup Days \cup Shoots \cup Times
  /\ Unloaded \notin DayStates \cup ShootStates
  /\ Ops \subseteq DayOps \cup ShootOps
  /\ ConflictRetries \in Nat /\ MaxVersion \in Nat /\ MaxFaults \in Nat
  /\ Faults \subseteq {"cancel", "lost_reply", "lost_session"}

VARIABLES
  day,         \* day[d]: the state the stream of d replays to
  shoot,       \* shoot[s]: the state the stream of s replays to
  shown,       \* shown[d]: the read model shows d as wrapped
  dayActor,    \* dayActor[i][d]: the state instance i's actor of d holds
  shootActor,  \* shootActor[i][s]: likewise
  lock,        \* lock[d]: the call that holds d's advisory lock
  call,        \* call[c]: the request that handler c serves
  faults

vars == <<day, shoot, shown, dayActor, shootActor, lock, call, faults>>

-----------------------------------------------------------------------------
(* Requests *)

LockedOps == FrozenOps \cup {"wrap"}

(* orphaned: the handler is gone, its command is still in the mailbox.      *)
Phases == {"idle", "locking", "probing", "waiting", "orphaned", "done"}

CallStates == [phase : Phases, inst : Instances \cup {None}, op : DayOps \cup ShootOps \cup {None},
               day : Days \cup {None}, shoot : Shoots \cup {None}, version : Nat,
               item : Times \cup Notes \cup Photos \cup {None}, attempt : Nat,
               reply : {"none", "ok", "error"}]

IdleCall == [phase |-> "idle", inst |-> None, op |-> None, day |-> None, shoot |-> None,
             version |-> 0, item |-> None, attempt |-> 0, reply |-> "none"]

Unlock(c) == lock' = [d \in Days |-> IF lock[d] = c THEN None ELSE lock[d]]

(* The handler sees the answer; without a handler nobody does. *)
Answered(c, reply) ==
  [call EXCEPT ![c] = IF @.phase = "orphaned" THEN IdleCall
                      ELSE [@ EXCEPT !.phase = "done", !.reply = reply, !.attempt = 0]]

(* check_nonzero_version, then the command is sent to the stream's actor.   *)
Sent(c) == IF call[c].op # "add_note" /\ call[c].version = 0
           THEN Answered(c, "error")
           ELSE [call EXCEPT ![c].phase = "waiting"]

Init == /\ day = [d \in Days |-> CreatedDay]
        /\ shoot = [s \in Shoots |-> PlannedShoot]
        /\ shown = [d \in Days |-> FALSE]
        /\ dayActor = [i \in Instances |-> [d \in Days |-> Unloaded]]
        /\ shootActor = [i \in Instances |-> [s \in Shoots |-> Unloaded]]
        /\ lock = [d \in Days |-> None]
        /\ call = [c \in Calls |-> IdleCall]
        /\ faults = 0

Request(c, i, op, d, s, v, item) ==
  call' = [call EXCEPT ![c] =
    [phase |-> IF op \in LockedOps THEN "locking" ELSE IF v = 0 THEN "done" ELSE "waiting",
     inst |-> i, op |-> op, day |-> d, shoot |-> s, version |-> v, item |-> item,
     attempt |-> 0,
     reply |-> IF op \notin LockedOps /\ v = 0 THEN "error" ELSE "none"]]

(* A client sends a version it once read, or none. The read model only      *)
(* turns frozen commands away once it shows the wrap; whether it also       *)
(* checks the day against the shoot is not relied on.                       *)
Begin(c) ==
  /\ call[c].phase = "idle"
  /\ \E i \in Instances, d \in Days :
       \/ \E op \in Ops \cap DayOps :
            /\ day[d].version < MaxVersion
            /\ \E v \in 0..day[d].version : Request(c, i, op, d, None, v, None)
       \/ \E op \in Ops \cap ShootOps, s \in Shoots :
            /\ shoot[s].version < MaxVersion
            /\ op \in FrozenOps => ~shown[d]
            /\ op \in OpenOps => d = DayOf[s]
            /\ \E v \in 0..shoot[s].version, item \in Items(op) :
                 Request(c, i, op, d, s, v, item)
  /\ UNCHANGED <<day, shoot, shown, dayActor, shootActor, lock, faults>>

-----------------------------------------------------------------------------
(* The command adapter *)

(* Mutant: the lock is shared. *)
AcquireLockShared(c) ==
  /\ call[c].phase = "locking"
  /\ lock' = [lock EXCEPT ![call[c].day] = c]
  /\ call' = IF call[c].op = "wrap" THEN Sent(c) ELSE [call EXCEPT ![c].phase = "probing"]
  /\ UNCHANGED <<day, shoot, shown, dayActor, shootActor, faults>>

(* lock_day; wrap then sends its command, a frozen command probes first.    *)
AcquireLock(c) ==
  /\ call[c].phase = "locking"
  /\ lock[call[c].day] = None
  /\ lock' = [lock EXCEPT ![call[c].day] = c]
  /\ call' = IF call[c].op = "wrap" THEN Sent(c) ELSE [call EXCEPT ![c].phase = "probing"]
  /\ UNCHANGED <<day, shoot, shown, dayActor, shootActor, faults>>

(* lock_timeout *)
LockTimeout(c) ==
  /\ call[c].phase = "locking"
  /\ lock[call[c].day] # None
  /\ call' = Answered(c, "error")
  /\ UNCHANGED <<day, shoot, shown, dayActor, shootActor, lock, faults>>

(* The state an actor answers from: a new one replays the stream. *)
DayState(i, d) == IF dayActor[i][d] = Unloaded THEN day[d] ELSE dayActor[i][d]

ShootState(i, s) == IF shootActor[i][s] = Unloaded THEN shoot[s] ELSE shootActor[i][s]

InMailbox(c, ops) == call[c].phase \in {"waiting", "orphaned"} /\ call[c].op \in ops

(* No command waits for instance i's actor of day d. *)
DayMailboxEmpty(i, d) ==
  \A c \in Calls : InMailbox(c, DayOps) => ~(call[c].inst = i /\ call[c].day = d)

(* ensure_day_open: the probe waits its turn in the mailbox.  It emits no   *)
(* event, so the actor answers it from its own state and never looks at the *)
(* stream.                                                                  *)
Probe(c) ==
  /\ call[c].phase = "probing"
  /\ DayMailboxEmpty(call[c].inst, call[c].day)
  /\ LET i == call[c].inst  d == call[c].day
     IN /\ dayActor' = [dayActor EXCEPT ![i][d] = DayState(i, d)]
        /\ call' = IF DayOpen(DayState(i, d)) THEN Sent(c) ELSE Answered(c, "error")
  /\ UNCHANGED <<day, shoot, shown, shootActor, lock, faults>>

(* Mutant: the guard is leaked. *)
ReturnLeaksLock(c) ==
  /\ call[c].phase = "done"
  /\ call' = [call EXCEPT ![c] = IdleCall]
  /\ UNCHANGED <<day, shoot, shown, dayActor, shootActor, lock, faults>>

(* The adapter returns and drops its guard. *)
Return(c) ==
  /\ call[c].phase = "done"
  /\ call' = [call EXCEPT ![c] = IdleCall]
  /\ Unlock(c)
  /\ UNCHANGED <<day, shoot, shown, dayActor, shootActor, faults>>

-----------------------------------------------------------------------------
(* Entity actors *)

Stale(actor, stream) == actor.version # stream.version

(* A WrongVer append: resync and try again while the budget lasts. *)
MayRetry(c) == call[c].attempt < ConflictRetries

Retried(c) == IF MayRetry(c) THEN [call EXCEPT ![c].attempt = @ + 1]
              ELSE Answered(c, "error")

(* Rejected, or accepted without an event, which map_executed_result also   *)
(* turns into an error ("command produced no events").                      *)
DayAnswers(c) ==
  LET i == call[c].inst  d == call[c].day  s == DayState(i, d)
  IN /\ InMailbox(c, DayOps)
     /\ DayRejects(s, call[c]) \/ DayIgnores(s, call[c])
     /\ dayActor' = [dayActor EXCEPT ![i][d] = s]
     /\ call' = Answered(c, "error")
     /\ UNCHANGED <<day, shoot, shown, shootActor, lock, faults>>

DayAppends(c) ==
  LET i == call[c].inst  d == call[c].day  s == DayState(i, d)
  IN /\ InMailbox(c, DayOps)
     /\ ~DayRejects(s, call[c]) /\ ~DayIgnores(s, call[c])
     /\ ~Stale(s, day[d])
     /\ day' = [day EXCEPT ![d] = DayApplied(s, call[c])]
     /\ dayActor' = [dayActor EXCEPT ![i][d] = DayApplied(s, call[c])]
     /\ call' = Answered(c, "ok")
     /\ UNCHANGED <<shoot, shown, shootActor, lock, faults>>

DayConflicts(c) ==
  LET i == call[c].inst  d == call[c].day  s == DayState(i, d)
  IN /\ InMailbox(c, DayOps)
     /\ ~DayRejects(s, call[c]) /\ ~DayIgnores(s, call[c])
     /\ Stale(s, day[d])
     /\ dayActor' = [dayActor EXCEPT ![i][d] = IF MayRetry(c) THEN day[d] ELSE s]
     /\ call' = Retried(c)
     /\ UNCHANGED <<day, shoot, shown, shootActor, lock, faults>>

ShootAnswers(c) ==
  LET i == call[c].inst  e == call[c].shoot  s == ShootState(i, e)
  IN /\ InMailbox(c, ShootOps)
     /\ ShootRejects(s, DayOf[e], call[c]) \/ ShootIgnores(s, call[c])
     /\ shootActor' = [shootActor EXCEPT ![i][e] = s]
     /\ call' = Answered(c, "error")
     /\ UNCHANGED <<day, shoot, shown, dayActor, lock, faults>>

ShootAppends(c) ==
  LET i == call[c].inst  e == call[c].shoot  s == ShootState(i, e)
  IN /\ InMailbox(c, ShootOps)
     /\ ~ShootRejects(s, DayOf[e], call[c]) /\ ~ShootIgnores(s, call[c])
     /\ ~Stale(s, shoot[e])
     /\ shoot' = [shoot EXCEPT ![e] = ShootApplied(s, call[c])]
     /\ shootActor' = [shootActor EXCEPT ![i][e] = ShootApplied(s, call[c])]
     /\ call' = Answered(c, "ok")
     /\ UNCHANGED <<day, shown, dayActor, lock, faults>>

(* Mutant: the rejected events are appended again after the resync. *)
ShootConflictsReappends(c) ==
  LET i == call[c].inst  e == call[c].shoot  s == ShootState(i, e)
  IN /\ InMailbox(c, ShootOps)
     /\ ~ShootRejects(s, DayOf[e], call[c]) /\ ~ShootIgnores(s, call[c])
     /\ Stale(s, shoot[e])
     /\ shoot' = [shoot EXCEPT ![e] = ShootApplied(shoot[e], call[c])]
     /\ shootActor' = [shootActor EXCEPT ![i][e] = ShootApplied(shoot[e], call[c])]
     /\ call' = Answered(c, "ok")
     /\ UNCHANGED <<day, shown, dayActor, lock, faults>>

(* Mutant: the actor applies its events before it knows them appended. *)
ShootConflictsAppliesFirst(c) ==
  LET i == call[c].inst  e == call[c].shoot  s == ShootState(i, e)
  IN /\ InMailbox(c, ShootOps)
     /\ ~ShootRejects(s, DayOf[e], call[c]) /\ ~ShootIgnores(s, call[c])
     /\ Stale(s, shoot[e])
     /\ shootActor' = [shootActor EXCEPT ![i][e] = ShootApplied(s, call[c])]
     /\ call' = Answered(c, "error")
     /\ UNCHANGED <<day, shoot, shown, dayActor, lock, faults>>

ShootConflicts(c) ==
  LET i == call[c].inst  e == call[c].shoot  s == ShootState(i, e)
  IN /\ InMailbox(c, ShootOps)
     /\ ~ShootRejects(s, DayOf[e], call[c]) /\ ~ShootIgnores(s, call[c])
     /\ Stale(s, shoot[e])
     /\ shootActor' = [shootActor EXCEPT ![i][e] = IF MayRetry(c) THEN shoot[e] ELSE s]
     /\ call' = Retried(c)
     /\ UNCHANGED <<day, shoot, shown, dayActor, lock, faults>>

(* An actor is stopped (its place in the cache is taken, or it panicked)    *)
(* while no command waits for it; the next command starts a new one.        *)
StopDayActor(i, d) ==
  /\ dayActor[i][d] # Unloaded
  /\ DayMailboxEmpty(i, d)
  /\ dayActor' = [dayActor EXCEPT ![i][d] = Unloaded]
  /\ UNCHANGED <<day, shoot, shown, shootActor, lock, call, faults>>

StopShootActor(i, e) ==
  /\ shootActor[i][e] # Unloaded
  /\ \A c \in Calls : InMailbox(c, ShootOps) => ~(call[c].inst = i /\ call[c].shoot = e)
  /\ shootActor' = [shootActor EXCEPT ![i][e] = Unloaded]
  /\ UNCHANGED <<day, shoot, shown, dayActor, lock, call, faults>>

(* The projector shows the wrap, some time after its event. *)
ShowWrap(d) ==
  /\ day[d].wrapped /\ ~shown[d]
  /\ shown' = [shown EXCEPT ![d] = TRUE]
  /\ UNCHANGED <<day, shoot, dayActor, shootActor, lock, call, faults>>

-----------------------------------------------------------------------------
(* Faults *)

Fault(kind) == kind \in Faults /\ faults < MaxFaults /\ faults' = faults + 1

(* The client disconnects and the handler is dropped, its lock guard too;   *)
(* a command it has sent stays in the mailbox.                              *)
Cancel(c) ==
  /\ call[c].phase \in {"locking", "probing", "waiting", "done"}
  /\ Fault("cancel")
  /\ call' = [call EXCEPT ![c] = IF @.phase = "waiting"
                                 THEN [@ EXCEPT !.phase = "orphaned"] ELSE IdleCall]
  /\ Unlock(c)
  /\ UNCHANGED <<day, shoot, shown, dayActor, shootActor>>

(* The reply to an append is lost, whether it committed or not: the actor   *)
(* keeps the state from before it and answers with the error.               *)
DayReplyLost(c) ==
  LET d == call[c].day  s == DayState(call[c].inst, d)
  IN /\ InMailbox(c, DayOps)
     /\ ~DayRejects(s, call[c]) /\ ~DayIgnores(s, call[c])
     /\ ~Stale(s, day[d])
     /\ Fault("lost_reply")
     /\ day' \in {day, [day EXCEPT ![d] = DayApplied(s, call[c])]}
     /\ dayActor' = [dayActor EXCEPT ![call[c].inst][d] = s]
     /\ call' = Answered(c, "error")
     /\ UNCHANGED <<shoot, shown, shootActor, lock>>

ShootReplyLost(c) ==
  LET e == call[c].shoot  s == ShootState(call[c].inst, e)
  IN /\ InMailbox(c, ShootOps)
     /\ ~ShootRejects(s, DayOf[e], call[c]) /\ ~ShootIgnores(s, call[c])
     /\ ~Stale(s, shoot[e])
     /\ Fault("lost_reply")
     /\ shoot' \in {shoot, [shoot EXCEPT ![e] = ShootApplied(s, call[c])]}
     /\ shootActor' = [shootActor EXCEPT ![call[c].inst][e] = s]
     /\ call' = Answered(c, "error")
     /\ UNCHANGED <<day, shown, dayActor, lock>>

(* The database session behind a guard dies; the handler does not notice.   *)
SessionLost(d) ==
  /\ lock[d] # None
  /\ Fault("lost_session")
  /\ lock' = [lock EXCEPT ![d] = None]
  /\ UNCHANGED <<day, shoot, shown, dayActor, shootActor, call>>

-----------------------------------------------------------------------------

AdapterStep(c) == AcquireLock(c) \/ LockTimeout(c) \/ Probe(c) \/ Return(c)

ActorStep(c) == \/ DayAnswers(c) \/ DayAppends(c) \/ DayConflicts(c)
                \/ ShootAnswers(c) \/ ShootAppends(c) \/ ShootConflicts(c)

CallFault(c) == Cancel(c) \/ DayReplyLost(c) \/ ShootReplyLost(c)

Next == \/ \E c \in Calls : Begin(c) \/ AdapterStep(c) \/ ActorStep(c) \/ CallFault(c)
        \/ \E i \in Instances :
             \/ \E d \in Days : StopDayActor(i, d)
             \/ \E e \in Shoots : StopShootActor(i, e)
        \/ \E d \in Days : ShowWrap(d) \/ SessionLost(d)

Spec == Init /\ [][Next]_vars

(* Handlers and actors are scheduled, and a lock wait ends by its timeout.  *)
(* A mailbox is first in, first out: a probe is not passed over for ever.   *)
FairSpec == Spec /\ \A c \in Calls : /\ WF_vars(AdapterStep(c)) /\ WF_vars(ActorStep(c))
                                    /\ SF_vars(Probe(c))

-----------------------------------------------------------------------------
(* Properties *)

(* The variables have their types: streams and actors hold states of their  *)
(* aggregates, and a day's lock is held by a handler.                       *)
TypeOK ==
  /\ day \in [Days -> DayStates]
  /\ shoot \in [Shoots -> ShootStates]
  /\ shown \in [Days -> BOOLEAN]
  /\ dayActor \in [Instances -> [Days -> DayStates \cup {Unloaded}]]
  /\ shootActor \in [Instances -> [Shoots -> ShootStates \cup {Unloaded}]]
  /\ lock \in [Days -> Calls \cup {None}]
  /\ call \in [Calls -> CallStates]
  /\ faults \in 0..MaxFaults

(* After a day's wrap event, nothing is appended that changes what happened *)
(* on the day: the promise of the wrap-finality gate.                       *)
WrapIsFinal ==
  [][\A e \in Shoots : day[DayOf[e]].wrapped => Execution(shoot'[e]) = Execution(shoot[e])]_vars

(* An actor's state is one its stream has had: it is never ahead of the     *)
(* stream, and never differs from it at the same version, whatever faults   *)
(* and however many instances append.                                       *)
ActorsReplayTheStream ==
  \A i \in Instances :
    /\ \A d \in Days : dayActor[i][d] # Unloaded =>
         /\ dayActor[i][d].version <= day[d].version
         /\ ~Stale(dayActor[i][d], day[d]) => dayActor[i][d] = day[d]
    /\ \A e \in Shoots : shootActor[i][e] # Unloaded =>
         /\ shootActor[i][e].version <= shoot[e].version
         /\ ~Stale(shootActor[i][e], shoot[e]) => shootActor[i][e] = shoot[e]

(* The history of a shoot stands although actors decide on stale states: a  *)
(* shot or skipped shoot changes no more, a start time once recorded stays, *)
(* and the planned order is frozen once there is execution data.            *)
HistoryStands ==
  [][\A e \in Shoots :
       /\ shoot[e].status \in TerminalStatuses => shoot'[e] = shoot[e]
       /\ shoot[e].start # None => shoot'[e].start = shoot[e].start
       /\ HasExecutionData(shoot[e]) => shoot'[e].planned = shoot[e].planned]_vars

(* Optimistic locking: an event is appended for a client that has seen the  *)
(* state it changes, unless it only adds a note, across conflicts, resyncs  *)
(* and retries.                                                             *)
ClientSawTheState ==
  [][\A e \in Shoots : shoot'[e] # shoot[e] =>
       \E c \in Calls : /\ call'[c] # call[c] /\ call[c].shoot = e
                        /\ call[c].op = "add_note" \/ call[c].version = shoot[e].version]_vars

(* A day's lock is released in the end by whoever holds it. *)
LocksAreReleased ==
  \A d \in Days : \A c \in Calls : lock[d] = c ~> lock[d] # c
=============================================================================
