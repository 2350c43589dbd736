------------------------- MODULE WrapFinalityProofs -------------------------
(***************************************************************************)
(* Theorems about WrapFinality.  The first part holds for any number of    *)
(* API instances and of faults of every kind: the actors replay their      *)
(* streams, and so no stale decision reaches a stream.  The second part is *)
(* the promise of the wrap-finality gate, for one API instance and without *)
(* faults: the runs of the two-instance and of the cancelled-handler model *)
(* show that it needs both.                                                *)
(***************************************************************************)
EXTENDS WrapFinality, TLAPS

(* A handler that serves a request knows its instance and its streams. *)
RequestOK(r) ==
  r.phase # "idle" =>
    /\ r.inst \in Instances /\ r.day \in Days
    /\ r.op \in DayOps \cup ShootOps
    /\ r.op \in ShootOps => r.shoot \in Shoots /\ r.item \in Items(r.op)

Requests(f) == f \in [Calls -> CallStates] /\ \A c \in Calls : RequestOK(f[c])

(* An actor holds a state its stream has had. *)
Replays(a, s) == a # Unloaded => /\ a.version <= s.version
                                 /\ ~Stale(a, s) => a = s

(* The days and their actors, the shoots and theirs, and the rest. *)
DayPart ==
  /\ day \in [Days -> DayStates]
  /\ dayActor \in [Instances -> [Days -> DayStates \cup {Unloaded}]]
  /\ \A i \in Instances, d \in Days : Replays(dayActor[i][d], day[d])

ShootPart ==
  /\ shoot \in [Shoots -> ShootStates]
  /\ shootActor \in [Instances -> [Shoots -> ShootStates \cup {Unloaded}]]
  /\ \A i \in Instances, e \in Shoots : Replays(shootActor[i][e], shoot[e])

RestPart ==
  /\ shown \in [Days -> BOOLEAN]
  /\ lock \in [Days -> Calls \cup {None}]
  /\ faults \in 0..MaxFaults

StreamInv == DayPart /\ ShootPart /\ RestPart /\ Requests(call)

-----------------------------------------------------------------------------
(* The aggregates *)

LEMMA DayEvents ==
  ASSUME NEW d \in DayStates, NEW c
  PROVE  DayApplied(d, c) \in DayStates /\ DayApplied(d, c).version = d.version + 1
BY DEF DayStates, DayApplied

(* An event of a well-formed command keeps a shoot well-formed and counts   *)
(* as one; the commands a wrap leaves open do not touch the execution.      *)
LEMMA ShootEvents ==
  ASSUME NEW s \in ShootStates, NEW c, c.op \in ShootOps, c.item \in Items(c.op)
  PROVE  /\ ShootApplied(s, c) \in ShootStates
         /\ ShootApplied(s, c).version = s.version + 1
         /\ c.op \in OpenOps => Execution(ShootApplied(s, c)) = Execution(s)
         /\ c.op # "replan" => ShootApplied(s, c).planned = s.planned
         /\ c.op # "start" => ShootApplied(s, c).start = s.start
         /\ c.op = "start" => ShootApplied(s, c).start = c.item
PROOF
<1> DEFINE t == [s EXCEPT !.version = @ + 1]
<1>1. t \in ShootStates /\ t.version = s.version + 1 /\ t.version \in Nat
  BY DEF ShootStates
<1>2. TransitionOnExecution(s) \in {"planned", "in_progress"} \cup TerminalStatuses
  BY DEF TransitionOnExecution, ShootStates
<1>3. CASE c.op = "replan"
  <2>1. ShootApplied(s, c) = [t EXCEPT !.planned = t.version]
    BY <1>3 DEF ShootApplied
  <2> QED
    BY <1>1, <1>3, <2>1 DEF ShootStates, Execution
<1>4. CASE c.op = "start"
  <2>1. ShootApplied(s, c) = [t EXCEPT !.start = c.item, !.status = TransitionOnExecution(s)]
    BY <1>4 DEF ShootApplied
  <2>2. c.item \in Times
    BY <1>4 DEF Items
  <2> QED
    BY <1>1, <1>2, <1>4, <2>1, <2>2 DEF ShootStates, OpenOps
<1>5. CASE c.op = "set_order"
  <2>1. ShootApplied(s, c) = [t EXCEPT !.actual = t.version, !.status = TransitionOnExecution(s)]
    BY <1>5 DEF ShootApplied
  <2> QED
    BY <1>1, <1>2, <1>5, <2>1 DEF ShootStates, OpenOps
<1>6. CASE c.op \in {"finish", "skip"}
  <2>1. PICK x \in TerminalStatuses : ShootApplied(s, c) = [t EXCEPT !.status = x]
    BY <1>6 DEF ShootApplied, TerminalStatuses
  <2> QED
    BY <1>1, <1>6, <2>1 DEF ShootStates, OpenOps
<1>7. CASE c.op \in {"add_note", "update_note", "remove_note"}
  <2>1. PICK x \in Nat : ShootApplied(s, c) = [t EXCEPT !.notes[c.item] = x]
    BY <1>1, <1>7 DEF ShootApplied
  <2>2. c.item \in Notes
    BY <1>7 DEF Items
  <2>3. PICK n \in [Notes -> Nat] : ShootApplied(s, c) = [t EXCEPT !.notes = n]
    <3>1. [t.notes EXCEPT ![c.item] = x] \in [Notes -> Nat]
      BY <1>1, <2>2 DEF ShootStates
    <3>2. [t EXCEPT !.notes[c.item] = x] = [t EXCEPT !.notes = [t.notes EXCEPT ![c.item] = x]]
      OBVIOUS
    <3> QED
      BY <2>1, <3>1, <3>2
  <2> QED
    BY <1>1, <1>7, <2>3 DEF ShootStates, OpenOps
<1>8. CASE c.op \in {"link_photo", "unlink_photo"}
  <2>1. c.item \in Photos
    BY <1>8 DEF Items
  <2>2. PICK x \in SUBSET Photos : ShootApplied(s, c) = [t EXCEPT !.photos = x]
    BY <1>1, <1>8, <2>1 DEF ShootApplied, ShootStates
  <2> QED
    BY <1>1, <1>8, <2>2 DEF ShootStates, Execution
<1> QED
  BY <1>3, <1>4, <1>5, <1>6, <1>7, <1>8 DEF ShootOps, FrozenOps, OpenOps

-----------------------------------------------------------------------------
(* Handlers *)

LEMMA IdleRequest == IdleCall \in CallStates /\ RequestOK(IdleCall)
BY DEF IdleCall, CallStates, Phases, RequestOK

(* Writing a handler's state by one that is well-formed. *)
LEMMA CallWrite ==
  ASSUME Requests(call), NEW c \in Calls, NEW r \in CallStates, RequestOK(r)
  PROVE  Requests([call EXCEPT ![c] = r])
BY DEF Requests

LEMMA CallTypes ==
  ASSUME Requests(call), NEW c \in Calls
  PROVE  /\ call[c] \in CallStates /\ RequestOK(call[c])
         /\ call[c].phase \in Phases /\ call[c].attempt \in Nat /\ call[c].version \in Nat
BY DEF Requests, CallStates

(* What the handlers' updates make of the requests. *)
LEMMA CallUpdates ==
  ASSUME Requests(call), NEW c \in Calls, call[c].phase # "idle",
         NEW reply \in {"ok", "error"}
  PROVE  /\ Requests(Answered(c, reply))
         /\ Requests(Sent(c))
         /\ Requests(Retried(c))
         /\ Requests([call EXCEPT ![c] = IdleCall])
         /\ Requests([call EXCEPT ![c].phase = "probing"])
         /\ Requests([call EXCEPT ![c].phase = "orphaned"])
PROOF
<1>1. call[c] \in CallStates /\ RequestOK(call[c])
  BY CallTypes
<1>2. ASSUME NEW p \in Phases PROVE Requests([call EXCEPT ![c].phase = p])
  <2>1. [call[c] EXCEPT !.phase = p] \in CallStates /\ RequestOK([call[c] EXCEPT !.phase = p])
    BY <1>1 DEF CallStates, RequestOK
  <2> QED
    BY <2>1, CallWrite
<1>3. ASSUME NEW a \in {"ok", "error"} PROVE Requests(Answered(c, a))
  <2> DEFINE r == [call[c] EXCEPT !.phase = "done", !.reply = a, !.attempt = 0]
  <2>1. r \in CallStates /\ RequestOK(r)
    BY <1>1 DEF CallStates, RequestOK, Phases
  <2>2. Answered(c, a) = [call EXCEPT ![c] = IF call[c].phase = "orphaned" THEN IdleCall ELSE r]
    BY DEF Answered, Requests
  <2> HIDE DEF r
  <2> QED
    BY <2>1, <2>2, IdleRequest, CallWrite
<1>4. Requests([call EXCEPT ![c].attempt = @ + 1])
  <2>1. [call[c] EXCEPT !.attempt = @ + 1] \in CallStates
        /\ RequestOK([call[c] EXCEPT !.attempt = @ + 1])
    BY <1>1 DEF CallStates, RequestOK
  <2> QED
    BY <2>1, CallWrite
<1>5. Requests(Sent(c)) /\ Requests(Retried(c))
  BY <1>2, <1>3, <1>4 DEF Sent, Retried, Phases
<1>6. Requests([call EXCEPT ![c] = IdleCall])
  BY IdleRequest, CallWrite
<1> QED
  BY <1>2, <1>3, <1>5, <1>6 DEF Phases

LEMMA NewRequest ==
  ASSUME TypeOK, Requests(call), NEW c \in Calls, Begin(c)
  PROVE  Requests(call')
PROOF
<1>1. ASSUME NEW i \in Instances, NEW op \in DayOps \cup ShootOps, NEW d \in Days,
             NEW s \in Shoots \cup {None}, NEW v \in Nat,
             NEW item \in Times \cup Notes \cup Photos \cup {None},
             op \in ShootOps => s \in Shoots /\ item \in Items(op),
             Request(c, i, op, d, s, v, item)
      PROVE  Requests(call')
  <2> DEFINE p == IF op \in LockedOps THEN "locking" ELSE IF v = 0 THEN "done" ELSE "waiting"
             a == IF op \notin LockedOps /\ v = 0 THEN "error" ELSE "none"
             r == [phase |-> p, inst |-> i, op |-> op, day |-> d, shoot |-> s,
                   version |-> v, item |-> item, attempt |-> 0, reply |-> a]
  <2>1. call' = [call EXCEPT ![c] = r]
    BY <1>1 DEF Request
  <2>2. p \in Phases /\ a \in {"none", "ok", "error"}
    BY DEF Phases
  <2> HIDE DEF p, a
  <2>3. r \in CallStates /\ RequestOK(r)
    BY <1>1, <2>2 DEF CallStates, RequestOK
  <2> HIDE DEF r
  <2> QED
    BY <2>1, <2>3, CallWrite
<1>2. ASSUME NEW op \in ShootOps, NEW item \in Items(op)
      PROVE  item \in Times \cup Notes \cup Photos \cup {None}
  BY <1>2 DEF Items
<1>3. \A d \in Days : \A v \in 0..day[d].version : v \in Nat
  BY DEF TypeOK, DayStates
<1>4. \A s \in Shoots : \A v \in 0..shoot[s].version : v \in Nat
  BY DEF TypeOK, ShootStates
<1>5. PICK i \in Instances, d \in Days :
       \/ \E op \in Ops \cap DayOps : \E v \in 0..day[d].version :
            Request(c, i, op, d, None, v, None)
       \/ \E op \in Ops \cap ShootOps, s \in Shoots :
            \E v \in 0..shoot[s].version, item \in Items(op) :
              Request(c, i, op, d, s, v, item)
  BY DEF Begin
<1>6. CASE \E op \in Ops \cap DayOps : \E v \in 0..day[d].version :
             Request(c, i, op, d, None, v, None)
  <2>1. PICK op \in Ops \cap DayOps, v \in 0..day[d].version :
             Request(c, i, op, d, None, v, None)
    BY <1>6
  <2>2. op \notin ShootOps
    BY DEF DayOps, ShootOps, FrozenOps, OpenOps
  <2> QED
    BY <1>1, <1>3, <2>1, <2>2
<1>7. CASE \E op \in Ops \cap ShootOps, s \in Shoots :
             \E v \in 0..shoot[s].version, item \in Items(op) :
               Request(c, i, op, d, s, v, item)
  <2>1. PICK op \in Ops \cap ShootOps, s \in Shoots :
             \E v \in 0..shoot[s].version, item \in Items(op) :
               Request(c, i, op, d, s, v, item)
    BY <1>7
  <2>2. PICK v \in 0..shoot[s].version, item \in Items(op) :
             Request(c, i, op, d, s, v, item)
    BY <2>1
  <2> QED
    BY <1>1, <1>2, <1>4, <2>2
<1> QED
  BY <1>5, <1>6, <1>7

-----------------------------------------------------------------------------
(* Actors *)

LEMMA StreamInvType == StreamInv => TypeOK /\ ActorsReplayTheStream
BY DEF StreamInv, DayPart, ShootPart, RestPart, Requests, TypeOK, ActorsReplayTheStream, Replays

(* An actor answers from a state its stream has had, and when the append    *)
(* is accepted from the one it has.                                         *)
LEMMA DayAnswersFrom ==
  ASSUME DayPart, NEW i \in Instances, NEW d \in Days
  PROVE  /\ day[d] \in DayStates /\ day[d] # Unloaded
         /\ DayState(i, d) \in DayStates /\ DayState(i, d) # Unloaded
         /\ Replays(DayState(i, d), day[d])
         /\ ~Stale(DayState(i, d), day[d]) => DayState(i, d) = day[d]
BY WrapConstants DEF DayPart, DayState, Replays, DayStates

LEMMA ShootAnswersFrom ==
  ASSUME ShootPart, NEW i \in Instances, NEW e \in Shoots
  PROVE  /\ shoot[e] \in ShootStates /\ shoot[e] # Unloaded
         /\ ShootState(i, e) \in ShootStates /\ ShootState(i, e) # Unloaded
         /\ Replays(ShootState(i, e), shoot[e])
         /\ ~Stale(ShootState(i, e), shoot[e]) => ShootState(i, e) = shoot[e]
PROOF
<1>1. shoot[e] \in ShootStates /\ shoot[e] # Unloaded /\ shoot[e].version \in Nat
  BY WrapConstants DEF ShootPart, ShootStates
<1> QED
  BY <1>1, WrapConstants DEF ShootPart, ShootState, Replays

(* An actor takes another state of its stream, or is stopped. *)
LEMMA DayActorMoves ==
  ASSUME DayPart, NEW i \in Instances, NEW d \in Days, NEW x \in DayStates \cup {Unloaded},
         Replays(x, day[d]), UNCHANGED day, dayActor' = [dayActor EXCEPT ![i][d] = x]
  PROVE  DayPart'
BY DEF DayPart

LEMMA ShootActorMoves ==
  ASSUME ShootPart, NEW i \in Instances, NEW e \in Shoots, NEW x \in ShootStates \cup {Unloaded},
         Replays(x, shoot[e]), UNCHANGED shoot, shootActor' = [shootActor EXCEPT ![i][e] = x]
  PROVE  ShootPart'
BY DEF ShootPart

(* The stream grows by an event; the actor that appended it follows, or     *)
(* stays behind when the reply is lost.                                     *)
LEMMA DayGrows ==
  ASSUME DayPart, NEW i \in Instances, NEW d \in Days, NEW y \in DayStates,
         y.version = day[d].version + 1, NEW x \in {y, day[d]},
         day' = [day EXCEPT ![d] = y], dayActor' = [dayActor EXCEPT ![i][d] = x]
  PROVE  DayPart'
PROOF
<1>1. \A j \in Instances : Replays(dayActor[j][d], y)
  BY WrapConstants DEF DayPart, Replays, Stale, DayStates
<1>2. Replays(x, y) /\ x \in DayStates
  BY DEF DayPart, Replays, Stale, DayStates
<1> QED
  BY <1>1, <1>2 DEF DayPart

LEMMA ShootGrows ==
  ASSUME ShootPart, NEW i \in Instances, NEW e \in Shoots, NEW y \in ShootStates,
         y.version = shoot[e].version + 1, NEW x \in {y, shoot[e]},
         shoot' = [shoot EXCEPT ![e] = y], shootActor' = [shootActor EXCEPT ![i][e] = x]
  PROVE  ShootPart'
PROOF
<1>1. /\ shoot[e] \in ShootStates /\ shoot[e].version \in Nat /\ y.version \in Nat
      /\ \A j \in Instances : shootActor[j][e] # Unloaded => shootActor[j][e].version \in Nat
  BY DEF ShootPart, ShootStates
<1>2. \A j \in Instances : Replays(shootActor[j][e], y)
  BY <1>1 DEF ShootPart, Replays, Stale
<1>3. Replays(x, y) /\ x \in ShootStates
  BY <1>1 DEF Replays, Stale
<1> QED
  BY <1>2, <1>3 DEF ShootPart

-----------------------------------------------------------------------------
(* The stream invariant *)

LEMMA StreamInit == Init => StreamInv
PROOF
<1> SUFFICES ASSUME Init PROVE StreamInv
  OBVIOUS
<1>1. DayPart
  BY DEF Init, DayPart, CreatedDay, DayStates, Replays
<1>2. ShootPart
  BY DEF Init, ShootPart, PlannedShoot, ShootStates, Replays
<1>3. RestPart
  BY WrapConstants DEF Init, RestPart
<1>4. Requests(call)
  BY IdleRequest DEF Init, Requests
<1> QED
  BY <1>1, <1>2, <1>3, <1>4 DEF StreamInv

LEMMA Unlocked == ASSUME RestPart, NEW c \in Calls, Unlock(c)
                  PROVE  lock' \in [Days -> Calls \cup {None}]
BY DEF RestPart, Unlock

LEMMA Frames ==
  /\ DayPart /\ UNCHANGED <<day, dayActor>> => DayPart'
  /\ ShootPart /\ UNCHANGED <<shoot, shootActor>> => ShootPart'
  /\ RestPart /\ UNCHANGED <<shown, lock, faults>> => RestPart'
  /\ Requests(call) /\ UNCHANGED call => Requests(call)'
PROOF
<1>1. DayPart /\ UNCHANGED <<day, dayActor>> => DayPart'
  BY DEF DayPart
<1>2. ShootPart /\ UNCHANGED <<shoot, shootActor>> => ShootPart'
  BY DEF ShootPart
<1>3. RestPart /\ UNCHANGED <<shown, lock, faults>> => RestPart'
  BY DEF RestPart
<1>4. Requests(call) /\ UNCHANGED call => Requests(call)'
  BY DEF Requests
<1> QED
  BY <1>1, <1>2, <1>3, <1>4

(* The streams a command in a mailbox is for. *)
LEMMA MailboxTypes ==
  ASSUME Requests(call), NEW c \in Calls
  PROVE  /\ InMailbox(c, DayOps) => /\ call[c].phase # "idle"
                                    /\ call[c].inst \in Instances /\ call[c].day \in Days
         /\ InMailbox(c, ShootOps) => /\ call[c].phase # "idle"
                                      /\ call[c].inst \in Instances /\ call[c].shoot \in Shoots
                                      /\ call[c].op \in ShootOps
                                      /\ call[c].item \in Items(call[c].op)
BY DEF Requests, RequestOK, InMailbox

LEMMA AdapterKeepsStreams ==
  ASSUME StreamInv, NEW c \in Calls, AdapterStep(c)
  PROVE  StreamInv'
PROOF
<1> USE DEF StreamInv
<1>1. CASE AcquireLock(c)
  <2>1. call[c].phase # "idle" /\ call[c].day \in Days
    BY <1>1 DEF AcquireLock, Requests, RequestOK
  <2>2. RestPart'
    BY <1>1, <2>1 DEF AcquireLock, RestPart
  <2>3. Requests(call')
    BY <1>1, <2>1, CallUpdates DEF AcquireLock
  <2> QED
    BY <1>1, <2>2, <2>3, Frames DEF AcquireLock
<1>2. CASE LockTimeout(c)
  <2>1. Requests(call')
    BY <1>2, CallUpdates DEF LockTimeout
  <2> QED
    BY <1>2, <2>1, Frames DEF LockTimeout
<1>3. CASE Probe(c)
  <2>1. call[c].phase # "idle" /\ call[c].day \in Days /\ call[c].inst \in Instances
    BY <1>3 DEF Probe, Requests, RequestOK
  <2>2. DayPart'
    <3> DEFINE x == DayState(call[c].inst, call[c].day)
    <3>1. UNCHANGED day /\ dayActor' = [dayActor EXCEPT ![call[c].inst][call[c].day] = x]
      BY <1>3 DEF Probe
    <3>2. x \in DayStates /\ Replays(x, day[call[c].day])
      BY <2>1, DayAnswersFrom
    <3> HIDE DEF x
    <3> QED
      BY <2>1, <3>1, <3>2, DayActorMoves
  <2>3. Requests(call')
    BY <1>3, <2>1, CallUpdates DEF Probe
  <2> QED
    BY <1>3, <2>2, <2>3, Frames DEF Probe
<1>4. CASE Return(c)
  <2>1. RestPart'
    BY <1>4, Unlocked DEF Return, RestPart
  <2>2. Requests(call')
    BY <1>4, CallUpdates DEF Return
  <2> QED
    BY <1>4, <2>1, <2>2, Frames DEF Return
<1> QED
  BY <1>1, <1>2, <1>3, <1>4 DEF AdapterStep

LEMMA DayActorKeepsStreams ==
  ASSUME StreamInv, NEW c \in Calls, DayAnswers(c) \/ DayAppends(c) \/ DayConflicts(c)
  PROVE  StreamInv'
PROOF
<1> USE DEF StreamInv
<1> DEFINE i == call[c].inst
           d == call[c].day
<1>1. InMailbox(c, DayOps)
  BY DEF DayAnswers, DayAppends, DayConflicts
<1>2. call[c].phase # "idle" /\ i \in Instances /\ d \in Days
  BY <1>1, MailboxTypes
<1>3. ShootPart' /\ RestPart'
  BY Frames DEF DayAnswers, DayAppends, DayConflicts
<1>4. Requests(call')
  BY <1>2, CallUpdates DEF DayAnswers, DayAppends, DayConflicts
<1>5. CASE DayAnswers(c)
  <2> DEFINE x == DayState(i, d)
  <2>1. UNCHANGED day /\ dayActor' = [dayActor EXCEPT ![i][d] = x]
    BY <1>5 DEF DayAnswers
  <2>2. x \in DayStates /\ Replays(x, day[d])
    BY <1>2, DayAnswersFrom
  <2> HIDE DEF x
  <2> QED
    BY <1>2, <1>3, <1>4, <2>1, <2>2, DayActorMoves
<1>6. CASE DayAppends(c)
  <2> DEFINE y == DayApplied(DayState(i, d), call[c])
  <2>1. /\ DayState(i, d) = day[d]
        /\ day' = [day EXCEPT ![d] = y]
        /\ dayActor' = [dayActor EXCEPT ![i][d] = y]
    BY <1>2, <1>6, DayAnswersFrom DEF DayAppends
  <2>2. y \in DayStates /\ y.version = day[d].version + 1
    BY <1>2, <2>1, DayAnswersFrom, DayEvents
  <2> HIDE DEF y
  <2> QED
    BY <1>2, <1>3, <1>4, <2>1, <2>2, DayGrows
<1>7. CASE DayConflicts(c)
  <2> DEFINE x == IF MayRetry(c) THEN day[d] ELSE DayState(i, d)
  <2>1. UNCHANGED day /\ dayActor' = [dayActor EXCEPT ![i][d] = x]
    BY <1>7 DEF DayConflicts
  <2>2. day[d] \in DayStates /\ Replays(day[d], day[d])
    BY <1>2, DayAnswersFrom DEF Replays, DayStates
  <2>3. x \in DayStates /\ Replays(x, day[d])
    BY <1>2, <2>2, DayAnswersFrom
  <2> HIDE DEF x
  <2> QED
    BY <1>2, <1>3, <1>4, <2>1, <2>3, DayActorMoves
<1> QED
  BY <1>5, <1>6, <1>7

LEMMA ShootActorKeepsStreams ==
  ASSUME StreamInv, NEW c \in Calls, ShootAnswers(c) \/ ShootAppends(c) \/ ShootConflicts(c)
  PROVE  StreamInv'
PROOF
<1> USE DEF StreamInv
<1> DEFINE i == call[c].inst
           e == call[c].shoot
<1>1. InMailbox(c, ShootOps)
  BY DEF ShootAnswers, ShootAppends, ShootConflicts
<1>2. /\ call[c].phase # "idle" /\ i \in Instances /\ e \in Shoots
      /\ call[c].op \in ShootOps /\ call[c].item \in Items(call[c].op)
  BY <1>1, MailboxTypes
<1>3. DayPart' /\ RestPart'
  BY Frames DEF ShootAnswers, ShootAppends, ShootConflicts
<1>4. Requests(call')
  BY <1>2, CallUpdates DEF ShootAnswers, ShootAppends, ShootConflicts
<1>5. CASE ShootAnswers(c)
  <2> DEFINE x == ShootState(i, e)
  <2>1. UNCHANGED shoot /\ shootActor' = [shootActor EXCEPT ![i][e] = x]
    BY <1>5 DEF ShootAnswers
  <2>2. x \in ShootStates /\ Replays(x, shoot[e])
    BY <1>2, ShootAnswersFrom
  <2> HIDE DEF x
  <2> QED
    BY <1>2, <1>3, <1>4, <2>1, <2>2, ShootActorMoves
<1>6. CASE ShootAppends(c)
  <2> DEFINE y == ShootApplied(ShootState(i, e), call[c])
  <2>1. /\ ShootState(i, e) = shoot[e]
        /\ shoot' = [shoot EXCEPT ![e] = y]
        /\ shootActor' = [shootActor EXCEPT ![i][e] = y]
    BY <1>2, <1>6, ShootAnswersFrom DEF ShootAppends
  <2>2. y \in ShootStates /\ y.version = shoot[e].version + 1
    BY <1>2, <2>1, ShootAnswersFrom, ShootEvents
  <2> HIDE DEF y
  <2> QED
    BY <1>2, <1>3, <1>4, <2>1, <2>2, ShootGrows
<1>7. CASE ShootConflicts(c)
  <2> DEFINE x == IF MayRetry(c) THEN shoot[e] ELSE ShootState(i, e)
  <2>1. UNCHANGED shoot /\ shootActor' = [shootActor EXCEPT ![i][e] = x]
    BY <1>7 DEF ShootConflicts
  <2>2. shoot[e] \in ShootStates /\ Replays(shoot[e], shoot[e])
    BY <1>2, ShootAnswersFrom DEF Replays, ShootStates
  <2>3. x \in ShootStates /\ Replays(x, shoot[e])
    BY <1>2, <2>2, ShootAnswersFrom
  <2> HIDE DEF x
  <2> QED
    BY <1>2, <1>3, <1>4, <2>1, <2>3, ShootActorMoves
<1> QED
  BY <1>5, <1>6, <1>7

LEMMA FaultsKeepStreams ==
  ASSUME StreamInv, NEW c \in Calls, CallFault(c)
  PROVE  StreamInv'
PROOF
<1> USE DEF StreamInv
<1>1. faults' \in 0..MaxFaults
  BY WrapConstants DEF CallFault, Cancel, DayReplyLost, ShootReplyLost, Fault, RestPart
<1>2. CASE Cancel(c)
  <2>1. RestPart'
    BY <1>1, <1>2, Unlocked DEF Cancel, RestPart
  <2>2. call[c].phase # "idle"
    BY <1>2 DEF Cancel
  <2>3. call' = IF call[c].phase = "waiting" THEN [call EXCEPT ![c].phase = "orphaned"]
                ELSE [call EXCEPT ![c] = IdleCall]
    BY <1>2 DEF Cancel, Requests
  <2>4. Requests(call')
    BY <2>2, <2>3, CallUpdates
  <2> QED
    BY <1>2, <2>1, <2>4, Frames DEF Cancel
<1>3. CASE DayReplyLost(c)
  <2> DEFINE i == call[c].inst
             d == call[c].day
             y == DayApplied(DayState(i, d), call[c])
  <2>1. call[c].phase # "idle" /\ i \in Instances /\ d \in Days
    BY <1>3, MailboxTypes DEF DayReplyLost
  <2>2. /\ DayState(i, d) = day[d]
        /\ day' \in {day, [day EXCEPT ![d] = y]}
        /\ dayActor' = [dayActor EXCEPT ![i][d] = day[d]]
    BY <1>3, <2>1, DayAnswersFrom DEF DayReplyLost
  <2>3. y \in DayStates /\ y.version = day[d].version + 1
    BY <2>1, <2>2, DayAnswersFrom, DayEvents
  <2>4. DayPart'
    <3> HIDE DEF y
    <3>1. CASE UNCHANGED day
      <4>1. day[d] \in DayStates /\ Replays(day[d], day[d])
        BY <2>1, DayAnswersFrom DEF Replays, DayStates
      <4> QED
        BY <2>1, <2>2, <3>1, <4>1, DayActorMoves
    <3>2. CASE day' = [day EXCEPT ![d] = y]
      BY <2>1, <2>2, <2>3, <3>2, DayGrows
    <3> QED
      BY <2>2, <3>1, <3>2
  <2>5. Requests(call')
    BY <1>3, <2>1, CallUpdates DEF DayReplyLost
  <2>6. RestPart'
    BY <1>1, <1>3 DEF DayReplyLost, RestPart
  <2> QED
    BY <1>3, <2>4, <2>5, <2>6, Frames DEF DayReplyLost
<1>4. CASE ShootReplyLost(c)
  <2> DEFINE i == call[c].inst
             e == call[c].shoot
             y == ShootApplied(ShootState(i, e), call[c])
  <2>1. /\ call[c].phase # "idle" /\ i \in Instances /\ e \in Shoots
        /\ call[c].op \in ShootOps /\ call[c].item \in Items(call[c].op)
    BY <1>4, MailboxTypes DEF ShootReplyLost
  <2>2. /\ ShootState(i, e) = shoot[e]
        /\ shoot' \in {shoot, [shoot EXCEPT ![e] = y]}
        /\ shootActor' = [shootActor EXCEPT ![i][e] = shoot[e]]
    BY <1>4, <2>1, ShootAnswersFrom DEF ShootReplyLost
  <2>3. y \in ShootStates /\ y.version = shoot[e].version + 1
    BY <2>1, <2>2, ShootAnswersFrom, ShootEvents
  <2>4. ShootPart'
    <3> HIDE DEF y
    <3>1. CASE UNCHANGED shoot
      <4>1. shoot[e] \in ShootStates /\ Replays(shoot[e], shoot[e])
        BY <2>1, ShootAnswersFrom DEF Replays, ShootStates
      <4> QED
        BY <2>1, <2>2, <3>1, <4>1, ShootActorMoves
    <3>2. CASE shoot' = [shoot EXCEPT ![e] = y]
      BY <2>1, <2>2, <2>3, <3>2, ShootGrows
    <3> QED
      BY <2>2, <3>1, <3>2
  <2>5. Requests(call')
    BY <1>4, <2>1, CallUpdates DEF ShootReplyLost
  <2>6. RestPart'
    BY <1>1, <1>4 DEF ShootReplyLost, RestPart
  <2> QED
    BY <1>4, <2>4, <2>5, <2>6, Frames DEF ShootReplyLost
<1> QED
  BY <1>2, <1>3, <1>4 DEF CallFault

LEMMA StreamStep == StreamInv /\ [Next]_vars => StreamInv'
PROOF
<1> SUFFICES ASSUME StreamInv, [Next]_vars PROVE StreamInv'
  OBVIOUS
<1>1. ASSUME NEW c \in Calls, Begin(c) PROVE StreamInv'
  <2>1. Requests(call')
    BY <1>1, NewRequest, StreamInvType DEF StreamInv
  <2> QED
    BY <1>1, <2>1, Frames DEF Begin, StreamInv
<1>2. ASSUME NEW i \in Instances, NEW d \in Days, StopDayActor(i, d) PROVE StreamInv'
  <2>1. Replays(Unloaded, day[d])
    BY DEF Replays
  <2>2. DayPart'
    BY <1>2, <2>1, DayActorMoves DEF StopDayActor, StreamInv
  <2> QED
    BY <1>2, <2>2, Frames DEF StopDayActor, StreamInv
<1>3. ASSUME NEW i \in Instances, NEW e \in Shoots, StopShootActor(i, e) PROVE StreamInv'
  <2>1. Replays(Unloaded, shoot[e])
    BY DEF Replays
  <2>2. ShootPart'
    BY <1>3, <2>1, ShootActorMoves DEF StopShootActor, StreamInv
  <2> QED
    BY <1>3, <2>2, Frames DEF StopShootActor, StreamInv
<1>4. ASSUME NEW d \in Days, ShowWrap(d) \/ SessionLost(d) PROVE StreamInv'
  <2>1. shown' \in [Days -> BOOLEAN]
    BY <1>4 DEF ShowWrap, SessionLost, RestPart, StreamInv
  <2>2. lock' \in [Days -> Calls \cup {None}]
    BY <1>4 DEF ShowWrap, SessionLost, RestPart, StreamInv
  <2>3. faults' \in 0..MaxFaults
    BY <1>4, WrapConstants DEF ShowWrap, SessionLost, Fault, RestPart, StreamInv
  <2>4. RestPart'
    BY <2>1, <2>2, <2>3 DEF RestPart
  <2> QED
    BY <1>4, <2>4, Frames DEF ShowWrap, SessionLost, StreamInv
<1>5. CASE UNCHANGED vars
  BY <1>5, Frames DEF vars, StreamInv
<1> QED
  BY <1>1, <1>2, <1>3, <1>4, <1>5, AdapterKeepsStreams, DayActorKeepsStreams,
     ShootActorKeepsStreams, FaultsKeepStreams DEF Next, ActorStep

LEMMA StreamInvariant == Spec => []StreamInv
BY StreamInit, StreamStep, PTL DEF Spec

(* The model is type correct: in particular a day's lock is held by a       *)
(* handler, and every state an actor replays or appends is a state of the   *)
(* aggregate.                                                               *)
THEOREM TypeCorrect == Spec => []TypeOK
BY StreamInvariant, StreamInvType, PTL

(* Entity actors of any number of instances hold states their streams have  *)
(* had, across appends of others, conflicts, resyncs and lost replies.      *)
THEOREM ActorsReplay == Spec => []ActorsReplayTheStream
BY StreamInvariant, StreamInvType, PTL

-----------------------------------------------------------------------------
(* What reaches a shoot's stream *)

(* A stream changes by one event, decided on the very state it changes. *)
LEMMA ShootChanges ==
  ASSUME StreamInv, Next, NEW e \in Shoots, shoot'[e] # shoot[e]
  PROVE  \E c \in Calls : /\ InMailbox(c, ShootOps) /\ call[c].shoot = e
                          /\ ~ShootRejects(shoot[e], DayOf[e], call[c])
                          /\ ~ShootIgnores(shoot[e], call[c])
                          /\ shoot'[e] = ShootApplied(shoot[e], call[c])
                          /\ call' = Answered(c, "ok") \/ call' = Answered(c, "error")
PROOF
<1>1. PICK c \in Calls : ShootAppends(c) \/ ShootReplyLost(c)
  BY DEF Next, Begin, AdapterStep, AcquireLock, LockTimeout, Probe, Return, ActorStep,
         DayAnswers, DayAppends, DayConflicts, ShootAnswers, ShootConflicts, CallFault, Cancel,
         DayReplyLost, StopDayActor, StopShootActor, ShowWrap, SessionLost
<1> DEFINE i == call[c].inst
           f == call[c].shoot
<1>2. /\ InMailbox(c, ShootOps)
      /\ ~ShootRejects(ShootState(i, f), DayOf[f], call[c])
      /\ ~ShootIgnores(ShootState(i, f), call[c])
      /\ ~Stale(ShootState(i, f), shoot[f])
      /\ shoot' \in {shoot, [shoot EXCEPT ![f] = ShootApplied(ShootState(i, f), call[c])]}
      /\ call' = Answered(c, "ok") \/ call' = Answered(c, "error")
  BY <1>1 DEF ShootAppends, ShootReplyLost
<1>3. i \in Instances /\ f \in Shoots
  BY <1>2, MailboxTypes DEF StreamInv
<1>4. ShootState(i, f) = shoot[f]
  BY <1>2, <1>3, ShootAnswersFrom DEF StreamInv
<1>5. f = e
  BY <1>2, <1>3 DEF StreamInv, ShootPart
<1>6. shoot'[e] = ShootApplied(shoot[e], call[c])
  BY <1>2, <1>4, <1>5 DEF StreamInv, ShootPart
<1> QED
  BY <1>2, <1>4, <1>5, <1>6

(* The parts of a command in a mailbox that ShootEvents speaks of. *)
LEMMA ShootChangeEffect ==
  ASSUME StreamInv, NEW c \in Calls, InMailbox(c, ShootOps), call[c].shoot \in Shoots
  PROVE  LET s == shoot[call[c].shoot]  t == ShootApplied(s, call[c]) IN
         /\ call[c].op \in ShootOps
         /\ call[c].op \in OpenOps => Execution(t) = Execution(s)
         /\ call[c].op # "replan" => t.planned = s.planned
         /\ call[c].op # "start" => t.start = s.start
PROOF
<1>1. call[c].op \in ShootOps /\ call[c].item \in Items(call[c].op)
  BY MailboxTypes DEF StreamInv
<1>2. shoot[call[c].shoot] \in ShootStates
  BY DEF StreamInv, ShootPart
<1> QED
  BY <1>1, <1>2, ShootEvents

(* The aggregate's own rules survive stale actors: a terminal shoot, a      *)
(* recorded start time and, from the first execution data on, the planned   *)
(* order never change, for any number of instances and faults.              *)
THEOREM HistoryIsKept == Spec => HistoryStands
PROOF
<1>1. ASSUME StreamInv, [Next]_vars, NEW e \in Shoots
      PROVE  /\ shoot[e].status \in TerminalStatuses => shoot'[e] = shoot[e]
             /\ shoot[e].start # None => shoot'[e].start = shoot[e].start
             /\ HasExecutionData(shoot[e]) => shoot'[e].planned = shoot[e].planned
  <2>1. CASE shoot'[e] = shoot[e]
    BY <2>1
  <2>2. CASE shoot'[e] # shoot[e]
    <3>1. Next
      BY <1>1, <2>2 DEF vars
    <3>2. PICK c \in Calls : /\ InMailbox(c, ShootOps) /\ call[c].shoot = e
                             /\ ~ShootRejects(shoot[e], DayOf[e], call[c])
                             /\ ~ShootIgnores(shoot[e], call[c])
                             /\ shoot'[e] = ShootApplied(shoot[e], call[c])
      BY <1>1, <2>2, <3>1, ShootChanges
    <3>3. /\ call[c].op # "replan" => shoot'[e].planned = shoot[e].planned
          /\ call[c].op # "start" => shoot'[e].start = shoot[e].start
      BY <1>1, <3>2, ShootChangeEffect
    <3>4. shoot[e].status \notin TerminalStatuses
      BY <3>2 DEF ShootRejects
    <3>5. HasExecutionData(shoot[e]) => call[c].op # "replan"
      BY <3>2 DEF ShootRejects
    <3>6. shoot[e].start # None => call[c].op # "start"
      BY <3>2 DEF ShootRejects, ShootIgnores
    <3> QED
      BY <3>3, <3>4, <3>5, <3>6
  <2> QED
    BY <2>1, <2>2
<1>2. StreamInv /\ [Next]_vars =>
        [\A e \in Shoots :
           /\ shoot[e].status \in TerminalStatuses => shoot'[e] = shoot[e]
           /\ shoot[e].start # None => shoot'[e].start = shoot[e].start
           /\ HasExecutionData(shoot[e]) => shoot'[e].planned = shoot[e].planned]_vars
  BY <1>1
<1> QED
  BY <1>2, StreamInvariant, PTL DEF Spec, HistoryStands

(* An answer concludes its own handler's request and no other's. *)
LEMMA AnswerEnds ==
  ASSUME Requests(call), NEW c \in Calls, NEW a
  PROVE  /\ Answered(c, a)[c].phase \in {"idle", "done"}
         /\ \A x \in Calls : x # c => Answered(c, a)[x] = call[x]
PROOF
<1>1. call \in [Calls -> CallStates]
  BY DEF Requests
<1>2. Answered(c, a)[c] = IF call[c].phase = "orphaned" THEN IdleCall
                          ELSE [call[c] EXCEPT !.phase = "done", !.reply = a, !.attempt = 0]
  BY <1>1 DEF Answered
<1>3. [call[c] EXCEPT !.phase = "done", !.reply = a, !.attempt = 0].phase = "done"
  BY <1>1 DEF CallStates
<1>4. Answered(c, a)[c].phase \in {"idle", "done"}
  BY <1>2, <1>3 DEF IdleCall
<1> QED
  BY <1>1, <1>4 DEF Answered

(* Optimistic locking: whatever an actor had cached, an event is appended   *)
(* only for a client that named the version it changes, unless it adds a    *)
(* note.                                                                    *)
THEOREM NoLostUpdate == Spec => ClientSawTheState
PROOF
<1>1. ASSUME StreamInv, [Next]_vars, NEW e \in Shoots, shoot'[e] # shoot[e]
      PROVE  \E c \in Calls : /\ call'[c] # call[c] /\ call[c].shoot = e
                              /\ call[c].op = "add_note" \/ call[c].version = shoot[e].version
  <2>1. Next
    BY <1>1 DEF vars
  <2>2. PICK c \in Calls : /\ InMailbox(c, ShootOps) /\ call[c].shoot = e
                           /\ ~ShootRejects(shoot[e], DayOf[e], call[c])
                           /\ call' = Answered(c, "ok") \/ call' = Answered(c, "error")
    BY <1>1, <2>1, ShootChanges
  <2>3. call'[c].phase \in {"idle", "done"}
    BY <1>1, <2>2, AnswerEnds DEF StreamInv
  <2>4. call[c].phase \in {"waiting", "orphaned"}
    BY <2>2 DEF InMailbox
  <2>5. call[c].op = "add_note" \/ call[c].version = shoot[e].version
    BY <2>2 DEF ShootRejects
  <2> QED
    BY <2>2, <2>3, <2>4, <2>5
<1>2. StreamInv /\ [Next]_vars =>
        [\A e \in Shoots : shoot'[e] # shoot[e] =>
           \E c \in Calls : /\ call'[c] # call[c] /\ call[c].shoot = e
                            /\ call[c].op = "add_note" \/ call[c].version = shoot[e].version]_vars
  BY <1>1
<1> QED
  BY <1>2, StreamInvariant, PTL DEF Spec, ClientSawTheState

-----------------------------------------------------------------------------
(* The wrap-finality gate *)

(* The gate holds for a handler: its command is not left behind, it holds   *)
(* the day's lock while it probes and while its command is in a mailbox,    *)
(* and the day of a frozen command in a mailbox is not wrapped.             *)
Gated(x) ==
  /\ call[x].phase # "orphaned"
  /\ call[x].phase \in {"probing", "waiting"} /\ call[x].op \in LockedOps
       => lock[call[x].day] = x
  /\ call[x].phase = "waiting" /\ call[x].op \in FrozenOps
       => ~day[call[x].day].wrapped

(* With one instance, the actors of the days are up to date. *)
DayActorsFresh ==
  \A i \in Instances, d \in Days : dayActor[i][d] \in {Unloaded, day[d]}

GateInv == StreamInv /\ DayActorsFresh /\ \A x \in Calls : Gated(x)

OneInstance == \A i, j \in Instances : i = j

(* A handler moves on without touching a day or a lock. *)
LEMMA GateMove ==
  ASSUME GateInv, NEW c \in Calls, UNCHANGED <<day, lock>>,
         \A x \in Calls : x # c => call'[x] = call[x],
         \/ call'[c].phase \in {"idle", "locking", "done"}
         \/ call'[c].phase = "waiting" /\ call'[c].op \notin LockedOps
         \/ /\ call'[c].phase = call[c].phase /\ call'[c].op = call[c].op
            /\ call'[c].day = call[c].day
  PROVE  \A x \in Calls : Gated(x)'
PROOF
<1>1. \A x \in Calls : Gated(x)
  BY DEF GateInv
<1>2. FrozenOps \subseteq LockedOps
  BY DEF LockedOps
<1>3. ASSUME NEW x \in Calls, x # c PROVE Gated(x)'
  BY <1>1, <1>3 DEF Gated
<1>4. Gated(c)'
  BY <1>1, <1>2 DEF Gated
<1> QED
  BY <1>3, <1>4

LEMMA SentPhase ==
  ASSUME Requests(call), NEW c \in Calls
  PROVE  /\ \/ Sent(c)[c].phase \in {"idle", "done"}
            \/ Sent(c)[c].phase = "waiting" /\ Sent(c)[c].op = call[c].op
               /\ Sent(c)[c].day = call[c].day
         /\ \A x \in Calls : x # c => Sent(c)[x] = call[x]
PROOF
<1>1. call \in [Calls -> CallStates]
  BY DEF Requests
<1>2. CASE call[c].op # "add_note" /\ call[c].version = 0
  BY <1>2, AnswerEnds DEF Sent
<1>3. CASE ~(call[c].op # "add_note" /\ call[c].version = 0)
  <2>1. Sent(c) = [call EXCEPT ![c].phase = "waiting"]
    BY <1>3 DEF Sent
  <2> QED
    BY <1>1, <2>1 DEF CallStates
<1> QED
  BY <1>2, <1>3

LEMMA RetriedPhase ==
  ASSUME Requests(call), NEW c \in Calls
  PROVE  /\ \/ Retried(c)[c].phase \in {"idle", "done"}
            \/ Retried(c)[c].phase = call[c].phase /\ Retried(c)[c].op = call[c].op
               /\ Retried(c)[c].day = call[c].day
         /\ \A x \in Calls : x # c => Retried(c)[x] = call[x]
PROOF
<1>1. call \in [Calls -> CallStates]
  BY DEF Requests
<1>2. CASE ~(call[c].attempt < ConflictRetries)
  BY <1>2, AnswerEnds DEF Retried, MayRetry
<1>3. CASE call[c].attempt < ConflictRetries
  <2>1. Retried(c) = [call EXCEPT ![c].attempt = @ + 1]
    BY <1>3 DEF Retried, MayRetry
  <2> QED
    BY <1>1, <2>1 DEF CallStates
<1> QED
  BY <1>2, <1>3

LEMMA GateInit == Init => GateInv
PROOF
<1>1. Init => \A x \in Calls : Gated(x)
  BY DEF Init, Gated, IdleCall
<1>2. Init => DayActorsFresh
  BY DEF Init, DayActorsFresh
<1> QED
  BY <1>1, <1>2, StreamInit DEF GateInv

(* Taking the lock and giving it back *)
LEMMA LockGates ==
  ASSUME GateInv, NEW c \in Calls, AcquireLock(c) \/ Return(c)
  PROVE  \A x \in Calls : Gated(x)'
PROOF
<1>1. Requests(call) /\ lock \in [Days -> Calls \cup {None}] /\ \A x \in Calls : Gated(x)
  BY DEF GateInv, StreamInv, RestPart
<1>2. call \in [Calls -> CallStates]
  BY <1>1 DEF Requests
<1>3. CASE AcquireLock(c)
  <2>1. call[c].day \in Days
    BY <1>1, <1>3 DEF AcquireLock, Requests, RequestOK
  <2>2. /\ \A x \in Calls : x # c => call'[x] = call[x]
        /\ \/ call'[c].phase \in {"idle", "done"}
           \/ call'[c].phase \in {"waiting", "probing"} /\ call'[c].op = call[c].op
              /\ call'[c].day = call[c].day
        /\ call'[c].phase = "waiting" => call[c].op = "wrap"
    <3>1. CASE call[c].op = "wrap"
      BY <1>1, <1>3, <3>1, SentPhase DEF AcquireLock
    <3>2. CASE call[c].op # "wrap"
      <4>1. call' = [call EXCEPT ![c].phase = "probing"]
        BY <1>3, <3>2 DEF AcquireLock
      <4> QED
        BY <1>2, <4>1 DEF CallStates
    <3> QED
      BY <3>1, <3>2
  <2>3. lock'[call[c].day] = c /\ \A d \in Days : d # call[c].day => lock'[d] = lock[d]
    BY <1>1, <1>3, <2>1 DEF AcquireLock
  <2>4. lock[call[c].day] = None /\ None \notin Calls /\ UNCHANGED day
    BY <1>3, WrapConstants DEF AcquireLock
  <2>5. ASSUME NEW x \in Calls, x # c PROVE Gated(x)'
    <3>1. call[x].phase # "idle" => call[x].day \in Days
      BY <1>1 DEF Requests, RequestOK
    <3> QED
      BY <1>1, <2>2, <2>3, <2>4, <2>5, <3>1 DEF Gated
  <2>6. Gated(c)'
    BY <2>2, <2>3 DEF Gated, FrozenOps
  <2> QED
    BY <2>5, <2>6
<1>4. CASE Return(c)
  <2>1. \A d \in Days : lock'[d] = IF lock[d] = c THEN None ELSE lock[d]
    BY <1>4 DEF Return, Unlock
  <2>2. call'[c].phase = "idle" /\ UNCHANGED day /\ \A x \in Calls : x # c => call'[x] = call[x]
    BY <1>2, <1>4 DEF Return, IdleCall
  <2>3. ASSUME NEW x \in Calls, x # c PROVE Gated(x)'
    <3>1. call[x].phase # "idle" => call[x].day \in Days
      BY <1>1 DEF Requests, RequestOK
    <3> QED
      BY <1>1, <2>1, <2>2, <2>3, <3>1 DEF Gated
  <2>4. Gated(c)'
    BY <2>2 DEF Gated
  <2> QED
    BY <2>3, <2>4
<1> QED
  BY <1>3, <1>4

LEMMA BeginGates ==
  ASSUME GateInv, NEW c \in Calls, Begin(c)
  PROVE  \A x \in Calls : Gated(x)'
PROOF
<1>1. call \in [Calls -> CallStates]
  BY DEF GateInv, StreamInv, Requests
<1>2. ASSUME NEW i, NEW op, NEW d, NEW s, NEW v, NEW item, Request(c, i, op, d, s, v, item)
      PROVE  /\ \A x \in Calls : x # c => call'[x] = call[x]
             /\ \/ call'[c].phase \in {"locking", "done"}
                \/ call'[c].phase = "waiting" /\ call'[c].op \notin LockedOps
  BY <1>1, <1>2 DEF Request
<1>3. \E i, op, d, s, v, item : Request(c, i, op, d, s, v, item)
  BY DEF Begin
<1>4. /\ \A x \in Calls : x # c => call'[x] = call[x]
      /\ \/ call'[c].phase \in {"locking", "done"}
         \/ call'[c].phase = "waiting" /\ call'[c].op \notin LockedOps
  BY <1>2, <1>3
<1> QED
  BY <1>4, GateMove DEF Begin

(* The probe is answered from the day's state itself, so the day it passes  *)
(* is open.                                                                 *)
LEMMA ProbeGates ==
  ASSUME GateInv, NEW c \in Calls, Probe(c)
  PROVE  \A x \in Calls : Gated(x)'
PROOF
<1>1. Requests(call) /\ DayPart /\ \A x \in Calls : Gated(x)
  BY DEF GateInv, StreamInv
<1> DEFINE i == call[c].inst
           d == call[c].day
<1>2. i \in Instances /\ d \in Days /\ call[c].phase = "probing"
  BY <1>1 DEF Probe, Requests, RequestOK
<1>3. DayState(i, d) = day[d]
  BY <1>2 DEF GateInv, DayActorsFresh, DayState
<1>4. UNCHANGED <<day, lock>>
  BY DEF Probe
<1>5. CASE DayOpen(day[d])
  <2>1. call' = Sent(c) /\ ~day[d].wrapped
    BY <1>3, <1>5 DEF Probe, DayOpen
  <2>2. \A x \in Calls : x # c => Gated(x)'
    BY <1>1, <1>4, <2>1, SentPhase DEF Gated
  <2>3. Gated(c)'
    BY <1>1, <1>2, <1>4, <2>1, SentPhase DEF Gated
  <2> QED
    BY <2>2, <2>3
<1>6. CASE ~DayOpen(day[d])
  <2>1. call' = Answered(c, "error")
    BY <1>3, <1>6 DEF Probe
  <2> QED
    BY <1>1, <1>4, <2>1, AnswerEnds, GateMove
<1> QED
  BY <1>5, <1>6

(* A wrap is appended under the lock, so no frozen command of the day is in *)
(* a mailbox.                                                               *)
LEMMA AppendGates ==
  ASSUME GateInv, OneInstance, NEW c \in Calls, DayAppends(c)
  PROVE  DayActorsFresh' /\ \A x \in Calls : Gated(x)'
PROOF
<1>1. Requests(call) /\ DayPart /\ \A x \in Calls : Gated(x)
  BY DEF GateInv, StreamInv
<1> DEFINE i == call[c].inst
           d == call[c].day
           y == DayApplied(day[d], call[c])
<1>2. i \in Instances /\ d \in Days /\ call[c].phase = "waiting"
  BY <1>1, MailboxTypes DEF DayAppends, InMailbox, Gated
<1>3. /\ DayState(i, d) = day[d] /\ call' = Answered(c, "ok")
      /\ day' = [day EXCEPT ![d] = y] /\ dayActor' = [dayActor EXCEPT ![i][d] = y]
      /\ UNCHANGED lock
  BY <1>1, <1>2, DayAnswersFrom DEF DayAppends
<1>4. y.wrapped = (day[d].wrapped \/ call[c].op = "wrap")
  BY DEF DayApplied
<1> HIDE DEF y
<1>5. DayActorsFresh'
  BY <1>1, <1>2, <1>3 DEF GateInv, DayActorsFresh, OneInstance, DayPart
<1>6. call[c].op = "wrap" => lock[d] = c
  BY <1>1, <1>2 DEF Gated, LockedOps
<1>7. \A x \in Calls : x # c => call'[x] = call[x]
  BY <1>1, <1>3, AnswerEnds
<1>8. ASSUME NEW x \in Calls, x # c PROVE Gated(x)'
  <2>1. call[x].phase = "waiting" /\ call[x].op \in FrozenOps
          => /\ call[x].day \in Days /\ ~day[call[x].day].wrapped
             /\ lock[call[x].day] = x
    BY <1>1 DEF Gated, LockedOps, Requests, RequestOK
  <2>2. call[x].phase = "waiting" /\ call[x].op \in FrozenOps => ~day'[call[x].day].wrapped
    BY <1>1, <1>3, <1>4, <1>6, <1>8, <2>1 DEF DayPart
  <2> QED
    BY <1>1, <1>3, <1>7, <1>8, <2>2 DEF Gated
<1>9. Gated(c)'
  <2>1. call'[c].phase \in {"idle", "done"}
    BY <1>1, <1>3, AnswerEnds
  <2> QED
    BY <2>1 DEF Gated
<1> QED
  BY <1>5, <1>8, <1>9

(* Everything else an actor or an adapter does leaves days and locks alone. *)
LEMMA OthersGate ==
  ASSUME GateInv, NEW c \in Calls,
         \/ LockTimeout(c) \/ DayAnswers(c) \/ DayConflicts(c)
         \/ ShootAnswers(c) \/ ShootAppends(c) \/ ShootConflicts(c)
  PROVE  \A x \in Calls : Gated(x)'
PROOF
<1>1. Requests(call)
  BY DEF GateInv, StreamInv
<1>2. UNCHANGED <<day, lock>>
  BY DEF LockTimeout, DayAnswers, DayConflicts, ShootAnswers, ShootAppends, ShootConflicts
<1>3. \/ call' = Answered(c, "ok") \/ call' = Answered(c, "error") \/ call' = Retried(c)
  BY DEF LockTimeout, DayAnswers, DayConflicts, ShootAnswers, ShootAppends, ShootConflicts
<1>4. CASE call' = Answered(c, "ok") \/ call' = Answered(c, "error")
  BY <1>1, <1>2, <1>4, AnswerEnds, GateMove
<1>5. CASE call' = Retried(c)
  BY <1>1, <1>2, <1>5, RetriedPhase, GateMove
<1> QED
  BY <1>3, <1>4, <1>5

(* An actor of a day that does not append ends up with the day's state. *)
LEMMA ActorsStayFresh ==
  ASSUME GateInv, NEW i \in Instances, NEW d \in Days, UNCHANGED day,
         NEW x \in {Unloaded, day[d]}, dayActor' = [dayActor EXCEPT ![i][d] = x]
  PROVE  DayActorsFresh'
BY DEF GateInv, StreamInv, DayPart, DayActorsFresh

LEMMA FreshStep ==
  ASSUME GateInv, NEW c \in Calls, Probe(c) \/ DayAnswers(c) \/ DayConflicts(c)
  PROVE  DayActorsFresh'
PROOF
<1> DEFINE i == call[c].inst
           d == call[c].day
<1>1. Requests(call)
  BY DEF GateInv, StreamInv
<1>2. i \in Instances /\ d \in Days
  BY <1>1, MailboxTypes DEF Probe, DayAnswers, DayConflicts, Requests, RequestOK
<1>3. DayState(i, d) = day[d]
  BY <1>2 DEF GateInv, DayActorsFresh, DayState
<1>4. UNCHANGED day /\ dayActor' = [dayActor EXCEPT ![i][d] = day[d]]
  BY <1>3 DEF Probe, DayAnswers, DayConflicts
<1> QED
  BY <1>2, <1>4, ActorsStayFresh

LEMMA GateStep ==
  ASSUME MaxFaults = 0, OneInstance
  PROVE  GateInv /\ [Next]_vars => GateInv'
PROOF
<1> SUFFICES ASSUME GateInv, [Next]_vars PROVE GateInv'
  OBVIOUS
<1>1. StreamInv'
  BY StreamStep DEF GateInv
<1> SUFFICES DayActorsFresh' /\ \A x \in Calls : Gated(x)'
  BY <1>1 DEF GateInv
<1>2. UNCHANGED <<day, dayActor>> => DayActorsFresh'
  BY DEF GateInv, DayActorsFresh
<1>3. UNCHANGED <<day, lock, call>> => \A x \in Calls : Gated(x)'
  BY DEF GateInv, Gated
<1>4. ASSUME NEW kind PROVE ~Fault(kind)
  BY DEF Fault, GateInv, StreamInv, RestPart
<1>5. ASSUME NEW c \in Calls, Begin(c) PROVE DayActorsFresh' /\ \A x \in Calls : Gated(x)'
  BY <1>2, <1>5, BeginGates DEF Begin
<1>6. ASSUME NEW c \in Calls, AdapterStep(c)
      PROVE  DayActorsFresh' /\ \A x \in Calls : Gated(x)'
  <2>1. AcquireLock(c) \/ Return(c) \/ LockTimeout(c) => UNCHANGED <<day, dayActor>>
    BY DEF AcquireLock, Return, LockTimeout
  <2> QED
    BY <1>2, <1>6, <2>1, LockGates, ProbeGates, OthersGate, FreshStep DEF AdapterStep
<1>7. ASSUME NEW c \in Calls, ActorStep(c)
      PROVE  DayActorsFresh' /\ \A x \in Calls : Gated(x)'
  <2>1. ShootAnswers(c) \/ ShootAppends(c) \/ ShootConflicts(c) => UNCHANGED <<day, dayActor>>
    BY DEF ShootAnswers, ShootAppends, ShootConflicts
  <2> QED
    BY <1>2, <1>7, <2>1, AppendGates, OthersGate, FreshStep DEF ActorStep
<1>8. ASSUME NEW c \in Calls PROVE ~CallFault(c)
  BY <1>4 DEF CallFault, Cancel, DayReplyLost, ShootReplyLost
<1>9. ASSUME NEW i \in Instances, NEW d \in Days, StopDayActor(i, d)
      PROVE  DayActorsFresh' /\ \A x \in Calls : Gated(x)'
  BY <1>3, <1>9, ActorsStayFresh DEF StopDayActor
<1>10. ASSUME NEW i \in Instances, NEW e \in Shoots, StopShootActor(i, e)
       PROVE  DayActorsFresh' /\ \A x \in Calls : Gated(x)'
  BY <1>2, <1>3, <1>10 DEF StopShootActor
<1>11. ASSUME NEW d \in Days, ShowWrap(d) \/ SessionLost(d)
       PROVE  DayActorsFresh' /\ \A x \in Calls : Gated(x)'
  BY <1>2, <1>3, <1>4, <1>11 DEF ShowWrap, SessionLost
<1>12. CASE UNCHANGED vars
  BY <1>2, <1>3, <1>12 DEF vars
<1> QED
  BY <1>5, <1>6, <1>7, <1>8, <1>9, <1>10, <1>11, <1>12 DEF Next

(* The promise of the wrap-finality gate: with one API instance and without *)
(* dropped handlers, lost replies or lost database sessions, no event after *)
(* a day's wrap changes what happened on the day, for any number of days,   *)
(* shoots and concurrent requests.                                          *)
THEOREM WrapFinalityHolds ==
  ASSUME MaxFaults = 0, OneInstance
  PROVE  Spec => WrapIsFinal
PROOF
<1>1. ASSUME GateInv, [Next]_vars, NEW e \in Shoots, day[DayOf[e]].wrapped
      PROVE  Execution(shoot'[e]) = Execution(shoot[e])
  <2>1. CASE shoot'[e] = shoot[e]
    BY <2>1
  <2>2. CASE shoot'[e] # shoot[e]
    <3>1. Next /\ StreamInv
      BY <1>1, <2>2 DEF vars, GateInv
    <3>2. PICK c \in Calls : /\ InMailbox(c, ShootOps) /\ call[c].shoot = e
                             /\ ~ShootRejects(shoot[e], DayOf[e], call[c])
                             /\ shoot'[e] = ShootApplied(shoot[e], call[c])
      BY <2>2, <3>1, ShootChanges
    <3>3. /\ call[c].op \in ShootOps
          /\ call[c].op \in OpenOps => Execution(shoot'[e]) = Execution(shoot[e])
      BY <3>1, <3>2, ShootChangeEffect
    <3>4. call[c].op \notin FrozenOps
      BY <1>1, <3>2 DEF ShootRejects, InMailbox, GateInv, Gated
    <3> QED
      BY <3>3, <3>4 DEF ShootOps
  <2> QED
    BY <2>1, <2>2
<1>2. GateInv /\ [Next]_vars =>
        [\A e \in Shoots :
           day[DayOf[e]].wrapped => Execution(shoot'[e]) = Execution(shoot[e])]_vars
  BY <1>1
<1>3. Spec => []GateInv
  BY GateInit, GateStep, PTL DEF Spec
<1> QED
  BY <1>2, <1>3, PTL DEF Spec, WrapIsFinal
=============================================================================
