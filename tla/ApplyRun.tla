------------------------------ MODULE ApplyRun ------------------------------
(***************************************************************************)
(* Applying a reviewed AI script: apply_ai_import, ApplyWorker, the slot   *)
(* of the job that lets one run at a time through, and the mapping rows    *)
(* that let a later run go on where an earlier one stopped.                *)
(*                                                                         *)
(* The plan is one row of the script: its episode, its scene, a figure     *)
(* with some outfits, of one piece each, and a shooting day.  Every draft  *)
(* has a mapping row, found by a key that is derived from the preview and  *)
(* the draft, with the version its stream had reached; a reservation has   *)
(* version 0.  The id of the aggregate is derived from the key, so a run   *)
(* that starts over meets the streams of the earlier ones.                 *)
(***************************************************************************)
EXTENDS Integers, FiniteSets, Sequences

CONSTANTS
  Runs,          \* requests to apply the preview
  Outfits,       \* the number of outfits
  Faults,        \* what may go wrong
  MaxFaults,     \* bound: faults
  Edited,        \* the kinds of aggregates that users edit meanwhile
  MaxEdits       \* bound: edits

Nobody == "nobody"

ASSUME ApplyConstants ==
  /\ IsFiniteSet(Runs) /\ Nobody \notin Runs
  /\ Outfits \in Nat /\ MaxFaults \in Nat /\ MaxEdits \in Nat
  /\ Faults \subseteq {"outage", "cancel", "crash", "stall"}

Step(kind, o) == [kind |-> kind, o |-> o]

OutfitSteps(o) == <<Step("piece", o), Step("outfit", o), Step("beat", o)>>

Before == <<Step("episode", 0), Step("scene", 0), Step("figure", 0), Step("assign", 0)>>

After == <<Step("day", 0), Step("shoot", 0)>>

PlanLength == 6 + 3 * Outfits

Plan ==
  [i \in 1..PlanLength |->
     IF i <= 4 THEN Before[i]
     ELSE IF i <= 4 + 3 * Outfits THEN OutfitSteps((i - 2) \div 3)[((i - 2) % 3) + 1]
     ELSE After[i - 4 - 3 * Outfits]]

Steps == {Plan[i] : i \in 1..PlanLength}

Keys == {s \in Steps : s.kind # "assign"}
Aggregates == {s \in Keys : s.kind # "beat"}
SceneOf == Step("scene", 0)

VARIABLES
  slot,       \* the job's apply_run_id, whether the run has been silent for STALE_AFTER,
              \* and (a history) whether the slot was ever taken from a run that was working
  mapping,    \* projection_ai_import_mapping: versions, -1 where there is no row
  world,      \* the streams: their versions, and what their events add up to
  refused,    \* a kind the domain will not create, say in an archived season
  run,        \* the requests
  edits, faults

vars == <<slot, mapping, world, refused, run, edits, faults>>

NewRun == [phase |-> "new", at |-> 1, todo |-> "find", version |-> 0, scene |-> 0,
           pending |-> FALSE, again |-> FALSE, unapplied |-> {}, late |-> FALSE,
           clear |-> FALSE]

Fault(f) == f \in Faults /\ faults < MaxFaults /\ faults' = faults + 1

Working(r) == run[r].phase = "working"
At(r) == Plan[run[r].at]

Greater(a, b) == IF a > b THEN a ELSE b

-----------------------------------------------------------------------------
(* The slot *)

(* Mutant: only an empty slot is taken *)
ClaimableIfEmpty == slot.owner = Nobody

Claimable == slot.owner = Nobody \/ slot.stale

OwnerWorks == slot.owner # Nobody /\ run[slot.owner].phase \in {"working", "ending"}

ClaimApplyRun(r) ==
  /\ run[r].phase = "new"
  /\ IF Claimable
     THEN /\ slot' = [owner |-> r, stale |-> FALSE, stolen |-> slot.stolen \/ OwnerWorks]
          /\ run' = [run EXCEPT ![r].phase = "working"]
     ELSE /\ run' = [run EXCEPT ![r].phase = "refused"]
          /\ UNCHANGED slot
  /\ UNCHANGED <<mapping, world, refused, edits, faults>>

(* The client tries again after 409 ai-import.apply-in-flight. *)
AskAgain(r) ==
  /\ run[r].phase = "refused"
  /\ run' = [run EXCEPT ![r].phase = "new"]
  /\ UNCHANGED <<slot, mapping, world, refused, edits, faults>>

(* ApplyRunHeartbeat *)
Heartbeat(r) ==
  /\ Working(r) /\ slot.owner = r /\ slot.stale
  /\ slot' = [slot EXCEPT !.stale = FALSE]
  /\ UNCHANGED <<mapping, world, refused, run, edits, faults>>

(* Nothing is heard of a run that is gone, or of one that is held up. *)
FallSilent ==
  /\ slot.owner # Nobody /\ ~slot.stale
  /\ IF OwnerWorks THEN Fault("stall") ELSE UNCHANGED faults
  /\ slot' = [slot EXCEPT !.stale = TRUE]
  /\ UNCHANGED <<mapping, world, refused, run, edits>>

(* mark_apply_progress(None), for the run that owns the slot *)
Cleared(r) == IF slot.owner = r THEN [slot EXCEPT !.owner = Nobody, !.stale = FALSE] ELSE slot

(* ApplyRunGuard, when the run was dropped or its own attempt failed *)
DeferredClear(r) ==
  /\ run[r].clear
  /\ slot' = Cleared(r)
  /\ run' = [run EXCEPT ![r].clear = FALSE]
  /\ UNCHANGED <<mapping, world, refused, edits, faults>>

-----------------------------------------------------------------------------
(* Commands on the aggregates *)

Answer(w, verdict, version) == [world |-> w, verdict |-> verdict, version |-> version]

Conflict(w, a) == Answer(w, "conflict", w.version[a])

Appended(w, a, fact) ==
  Answer([w EXCEPT !.version[a] = @ + 1, !.facts = @ \cup {fact}], "ok", w.version[a] + 1)

(* Expected version: an empty stream *)
CreateOn(w, a) == IF w.version[a] = 0 THEN Appended(w, a, <<"create", a>>) ELSE Conflict(w, a)

(* Expected version: the one given.  What is the case already is answered   *)
(* without an event; notes that are what they were are refused.             *)
ChangeOn(w, a, fact, version) ==
  IF w.version[a] # version THEN Conflict(w, a)
  ELSE IF fact \in w.facts THEN Answer(w, IF fact[1] = "notes" THEN "refused" ELSE "ok", version)
  ELSE Appended(w, a, fact)

(* Mutant: a beat like the last one is added once more *)
AddOutfitBeatAgain(w, o, version) ==
  IF w.version[SceneOf] # version THEN Conflict(w, SceneOf)
  ELSE IF <<"assign", SceneOf>> \notin w.facts THEN Answer(w, "refused", version)
  ELSE Answer([w EXCEPT !.version[SceneOf] = @ + 1, !.beats = Append(@, o)],
              "ok", version + 1)

AddOutfitBeat(w, o, version) ==
  IF w.version[SceneOf] # version THEN Conflict(w, SceneOf)
  ELSE IF <<"assign", SceneOf>> \notin w.facts THEN Answer(w, "refused", version)
  ELSE IF w.beats # <<>> /\ w.beats[Len(w.beats)] = o THEN Answer(w, "ok", version)
  ELSE Answer([w EXCEPT !.version[SceneOf] = @ + 1, !.beats = Append(@, o)],
              "ok", version + 1)

(* The command a run is about to send, and its answer. *)
Execute(w, r) ==
  LET s == At(r)
      x == run[r]
  IN  CASE x.todo = "create" /\ s.kind = refused -> Answer(w, "refused", x.version)
        [] x.todo = "create" /\ s.kind # refused -> CreateOn(w, s)
        [] x.todo \in {"category", "notes"}      -> ChangeOn(w, s, <<x.todo, s>>, x.version)
        [] x.todo \in {"assign", "schedule"}     -> ChangeOn(w, SceneOf, <<x.todo, SceneOf>>, x.scene)
        [] x.todo = "beat"                       -> AddOutfitBeat(w, s.o, x.scene)

-----------------------------------------------------------------------------
(* The chain of commands of a draft *)

(* What is left of a piece and of an outfit whose stream is at a version:   *)
(* the version is the record of the phases.                                 *)
PieceFrom(v) == IF v < 1 THEN "create" ELSE IF v < 2 THEN "category"
                ELSE IF v < 3 THEN "notes" ELSE "advance"

OutfitFrom(v) == IF v < 1 THEN "create" ELSE IF v < 2 THEN "notes" ELSE "advance"

(* Mutant: a reservation passes for the work *)
FromMappingTrusting(s, v) ==
  CASE s.kind = "episode" -> "create"
    [] s.kind = "piece"   -> PieceFrom(v)
    [] s.kind = "outfit"  -> OutfitFrom(v)
    [] s.kind = "beat"    -> IF v >= 0 THEN "advance" ELSE "beat"
    [] s.kind = "shoot"   -> IF v > 0 THEN "advance" ELSE "schedule"
    [] OTHER              -> IF v > 0 THEN "advance" ELSE "create"

FromMapping(s, v) ==
  CASE s.kind = "episode" -> "create"
    [] s.kind = "piece"   -> PieceFrom(v)
    [] s.kind = "outfit"  -> OutfitFrom(v)
    [] s.kind = "beat"    -> IF v > 0 THEN "advance" ELSE "beat"
    [] s.kind = "shoot"   -> IF v > 0 THEN "advance" ELSE "schedule"
    [] OTHER              -> IF v > 0 THEN "advance" ELSE "create"

(* The scene's stream is at least at the versions of its beats' rows. *)
SceneVersion(x) ==
  LET rows == {mapping[Step("beat", o)] : o \in 1..Outfits} \cup {x.scene}
  IN  CHOOSE v \in rows : \A n \in rows : n <= v

(* On to the next draft; its first command is known when its row is read.   *)
Advance(x, n) ==
  IF x.at + n > PlanLength THEN [x EXCEPT !.phase = "ending"]
  ELSE [x EXCEPT !.at = @ + n, !.again = FALSE,
                 !.todo = IF Plan[x.at + n].kind = "assign" THEN "assign" ELSE "find",
                 !.scene = IF Plan[x.at + n].kind = "assign" THEN SceneVersion(x) ELSE @]

Then(x, todo) == IF todo = "advance" THEN Advance(x, 1) ELSE [x EXCEPT !.todo = todo]

(* find, and reserve if there is no row.  The versions of the scene's rows  *)
(* are versions of its stream.                                              *)
Find(r) ==
  LET s == At(r)
      v == Greater(mapping[s], 0)
      x == [run[r] EXCEPT !.version = v, !.pending = s.kind = "outfit" /\ v < 1,
                          !.scene = IF s.kind \in {"scene", "beat"} THEN Greater(@, v) ELSE @]
  IN  /\ Working(r) /\ run[r].todo = "find"
      /\ mapping' = [mapping EXCEPT ![s] = v]
      /\ run' = [run EXCEPT ![r] = Then(x, FromMapping(s, mapping[s]))]
      /\ UNCHANGED <<slot, world, refused, edits, faults>>

Commands == {"create", "category", "notes", "assign", "schedule", "beat"}

(* A refusal of the domain is reported and skips what depends on it: the    *)
(* costumes of a figure, the outfit of a piece, the beat of an outfit.      *)
AfterRefusal(x, s) ==
  LET skipped == IF s.kind = "figure" THEN 1..Outfits ELSE {s.o}
      n == CASE s.kind = "figure" -> 2 + 3 * Outfits
             [] s.kind = "piece"  -> 3
             [] s.kind = "outfit" -> 2
             [] s.kind = "beat"   -> 1
  IN  Advance([x EXCEPT !.unapplied = @ \cup skipped], n)

(* While a beat is sent again, `version' keeps the version of the scene the *)
(* run had before.                                                          *)
BeforeRetry(x) == IF x.todo = "beat" /\ x.again THEN [x EXCEPT !.scene = x.version] ELSE x

(* Mutant: a beat that meets a conflict passes for an earlier one of ours *)
AfterAnswerTrusting(x, s, a) ==
  CASE a.verdict = "refused" -> AfterRefusal(x, s)
    [] x.todo = "assign" -> Advance([x EXCEPT !.scene = a.version], 1)
    [] x.todo = "schedule" -> [x EXCEPT !.scene = Greater(@, a.version), !.todo = "create"]
    [] x.todo = "category" /\ a.verdict = "conflict" ->
         Then([x EXCEPT !.version = a.version], PieceFrom(a.version))
    [] OTHER -> [x EXCEPT !.version = a.version, !.todo = "confirm"]

(* created_now and recover_version: a conflict means that the command was   *)
(* executed before.  A beat is sent once more, to the version the stream    *)
(* has reached, and if that is refused too the run goes on from the version *)
(* it had; a category that meets a conflict is not confirmed.               *)
AfterAnswer(x, s, a) ==
  CASE a.verdict = "refused" -> AfterRefusal(BeforeRetry(x), s)
    [] x.todo = "beat" /\ a.verdict = "conflict" ->
         IF x.again THEN AfterRefusal(BeforeRetry(x), s)
         ELSE [x EXCEPT !.version = x.scene, !.scene = a.version, !.again = TRUE]
    [] x.todo = "beat" /\ a.verdict = "ok" ->
         [x EXCEPT !.scene = a.version, !.version = a.version, !.todo = "confirm"]
    [] x.todo = "assign" -> Advance([x EXCEPT !.scene = a.version], 1)
    [] x.todo = "schedule" -> [x EXCEPT !.scene = Greater(@, a.version), !.todo = "create"]
    [] x.todo = "category" /\ a.verdict = "conflict" ->
         Then([x EXCEPT !.version = a.version], PieceFrom(a.version))
    [] OTHER -> [x EXCEPT !.version = a.version, !.todo = "confirm"]

Send(r) ==
  LET a == Execute(world, r)
  IN  /\ Working(r) /\ run[r].todo \in Commands
      /\ world' = a.world
      /\ run' = [run EXCEPT ![r] = AfterAnswer(run[r], At(r), a)]
      /\ UNCHANGED <<slot, mapping, refused, edits, faults>>

(* confirm: a row only moves forward. *)
Confirm(r) ==
  LET s == At(r)
      x == run[r]
      next == CASE s.kind = "piece" -> PieceFrom(x.version)
                [] s.kind = "outfit" /\ x.pending -> "notes"
                [] OTHER -> "advance"
  IN  /\ Working(r) /\ x.todo = "confirm"
      /\ mapping' = [mapping EXCEPT ![s] = Greater(@, x.version)]
      /\ run' = [run EXCEPT ![r] =
                   Then([x EXCEPT !.pending = FALSE,
                                  !.scene = IF s.kind = "scene" THEN x.version ELSE @], next)]
      /\ UNCHANGED <<slot, world, refused, edits, faults>>

Finish(r) ==
  /\ run[r].phase = "ending"
  /\ slot' = Cleared(r)
  /\ run' = [run EXCEPT ![r].phase = "done"]
  /\ UNCHANGED <<mapping, world, refused, edits, faults>>

(* The write that clears the slot fails, and is left to the guard. *)
FinishUncleared(r) ==
  /\ run[r].phase = "ending" /\ Fault("outage")
  /\ run' = [run EXCEPT ![r].phase = "done", ![r].clear = TRUE]
  /\ UNCHANGED <<slot, mapping, world, refused, edits>>

-----------------------------------------------------------------------------
(* Faults *)

(* A store is not there: before or after the command had its effect. *)
Outage(r) ==
  /\ Working(r) /\ Fault("outage")
  /\ world' \in {world} \cup (IF run[r].todo \in Commands THEN {Execute(world, r).world} ELSE {})
  /\ slot' = Cleared(r)
  /\ run' = [run EXCEPT ![r].phase = "failed"]
  /\ UNCHANGED <<mapping, refused, edits>>

(* The client hangs up and the future is dropped.  A command that is in the *)
(* mailbox of its actor is executed all the same.                           *)
HangUp(r) ==
  /\ Working(r) /\ Fault("cancel")
  /\ run' = [run EXCEPT ![r].phase = "failed", ![r].clear = TRUE,
                        ![r].late = run[r].todo \in Commands]
  /\ UNCHANGED <<slot, mapping, world, refused, edits>>

LateCommand(r) ==
  /\ run[r].late
  /\ world' = Execute(world, r).world
  /\ run' = [run EXCEPT ![r].late = FALSE]
  /\ UNCHANGED <<slot, mapping, refused, edits, faults>>

Crash ==
  /\ Fault("crash") /\ \E r \in Runs : run[r].phase \in {"working", "ending"}
  /\ run' = [r \in Runs |->
               [run[r] EXCEPT !.late = FALSE, !.clear = FALSE,
                              !.phase = IF @ \in {"working", "ending"} THEN "failed" ELSE @]]
  /\ UNCHANGED <<slot, mapping, world, refused, edits>>

(* A user changes something else about an aggregate that is there. *)
Edit(a) ==
  /\ a.kind \in Edited /\ edits < MaxEdits /\ world.version[a] > 0
  /\ world' = [world EXCEPT !.version[a] = @ + 1]
  /\ edits' = edits + 1
  /\ UNCHANGED <<slot, mapping, refused, run, faults>>

-----------------------------------------------------------------------------
Init ==
  /\ slot = [owner |-> Nobody, stale |-> FALSE, stolen |-> FALSE]
  /\ mapping = [k \in Keys |-> -1]
  /\ world = [version |-> [a \in Aggregates |-> 0], facts |-> {}, beats |-> <<>>]
  /\ refused \in {"nothing", "figure", "piece", "outfit"}
  /\ run = [r \in Runs |-> NewRun]
  /\ edits = 0 /\ faults = 0

Works(r) == Find(r) \/ Send(r) \/ Confirm(r) \/ Finish(r)

Next ==
  \/ \E r \in Runs : \/ ClaimApplyRun(r) \/ AskAgain(r) \/ Heartbeat(r) \/ DeferredClear(r)
                     \/ Works(r) \/ FinishUncleared(r) \/ Outage(r) \/ HangUp(r)
                     \/ LateCommand(r)
  \/ \E a \in Aggregates : Edit(a)
  \/ FallSilent \/ Crash

Spec == Init /\ [][Next]_vars

FairSpec ==
  /\ Spec /\ WF_vars(FallSilent /\ ~OwnerWorks)
  /\ \A r \in Runs : /\ WF_vars(Works(r)) /\ WF_vars(DeferredClear(r))
                     /\ SF_vars(ClaimApplyRun(r) /\ Claimable) /\ WF_vars(AskAgain(r))

-----------------------------------------------------------------------------
StreamOf(k) == IF k.kind = "beat" THEN SceneOf ELSE k

(* What a row says has happened: the version it holds is one its stream has *)
(* reached, and the beat it stands for is in the scene.                     *)
ConfirmedIsReal ==
  \A k \in Keys : mapping[k] > 0 => /\ mapping[k] <= world.version[StreamOf(k)]
                                    /\ k.kind = "beat" => \E i \in DOMAIN world.beats :
                                                            world.beats[i] = k.o

(* Whatever run appended it, and however often the plan is driven: a beat   *)
(* of the plan is in the scene at most once, in the order of the plan,      *)
(* unless two runs overlapped because one was silent for too long, or a run *)
(* went on without a beat and reported it: a later run adds it at the end.  *)
Orderly == ~slot.stolen /\ \A r \in Runs : run[r].unapplied = {}

BeatsAreNotRepeated ==
  Orderly => \A i, j \in DOMAIN world.beats : i < j => world.beats[i] < world.beats[j]

(* A run that ends well leaves every beat it does not report as unapplied   *)
(* in the scene, even if two runs overlapped; and unless users or another   *)
(* run moved the streams meanwhile, the figure assigned, the scene          *)
(* scheduled and the notes and categories set.                              *)
DoneIsComplete ==
  \A r \in Runs : run[r].phase = "done" =>
    LET applied == 1..Outfits \ run[r].unapplied
    IN  /\ \A o \in applied : \E i \in DOMAIN world.beats : world.beats[i] = o
        /\ edits = 0 /\ ~slot.stolen =>
             /\ <<"schedule", SceneOf>> \in world.facts
             /\ refused # "figure" => <<"assign", SceneOf>> \in world.facts
             /\ \A o \in applied : {<<"category", Step("piece", o)>>, <<"notes", Step("piece", o)>>,
                                    <<"notes", Step("outfit", o)>>} \subseteq world.facts

(* Every request is served in the end: neither a run that is gone nor one   *)
(* that could not clear the slot keeps the others out for good.             *)
EveryRequestIsServed == <>(\A r \in Runs : run[r].phase \in {"done", "failed"})
=============================================================================
