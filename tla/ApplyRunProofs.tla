--------------------------- MODULE ApplyRunProofs ---------------------------
(***************************************************************************)
(* What an apply run confirms is so, whatever was interrupted before, the  *)
(* beats of the plan are added once and in order, and a run that ends well *)
(* leaves what it promises: for any number of requests, outfits, faults    *)
(* and edits.                                                              *)
(*                                                                         *)
(* ApplyInv carries the first two; CompleteInv, on top of it, what a run   *)
(* has behind it and how much it knows of the version of the scene, which  *)
(* a command left behind by an earlier run may still move.                 *)
(***************************************************************************)
EXTENDS ApplyRun, WellFoundedInduction, TLAPS

TodosOf(kind) ==
  CASE kind = "assign" -> {"assign"}
    [] kind = "piece"  -> {"find", "create", "category", "notes", "confirm"}
    [] kind = "outfit" -> {"find", "create", "notes", "confirm"}
    [] kind = "beat"   -> {"find", "beat", "confirm"}
    [] kind = "shoot"  -> {"find", "schedule", "create", "confirm"}
    [] OTHER           -> {"find", "create", "confirm"}

Phases == {"new", "refused", "working", "ending", "done", "failed"}

RunRecords ==
  [phase : Phases, at : 1..PlanLength, todo : Commands \cup {"find", "confirm"},
   version : Nat, scene : Nat, pending : BOOLEAN, again : BOOLEAN,
   unapplied : SUBSET (1..Outfits), late : BOOLEAN, clear : BOOLEAN]

FactNames == {"create", "category", "notes", "assign", "schedule"}

Worlds ==
  [version : [Aggregates -> Nat], facts : SUBSET (FactNames \X Aggregates),
   beats : Seq(1..Outfits)]

Beat(o) == Step("beat", o)
BeatAt(o) == 3 * o + 4
InScene(w, o) == \E i \in DOMAIN w.beats : w.beats[i] = o

TypeOK ==
  /\ slot \in [owner : Runs \cup {Nobody}, stale : BOOLEAN, stolen : BOOLEAN]
  /\ mapping \in [Keys -> Nat \cup {-1}]
  /\ world \in Worlds
  /\ run \in [Runs -> RunRecords]
  /\ refused \in {"nothing", "figure", "piece", "outfit"}

(* A run is at a command of its draft; what it is about to confirm has      *)
(* happened; the version it believes the scene has was reached, and so was  *)
(* the one it will go back to; every beat behind it is confirmed or         *)
(* reported.                                                                *)
RecordInv(x, w, m) ==
  /\ x.todo \in TodosOf(Plan[x.at].kind)
  /\ x.todo = "confirm" =>
       /\ x.version <= w.version[StreamOf(Plan[x.at])]
       /\ Plan[x.at].kind = "beat" => x.version > 0 /\ InScene(w, Plan[x.at].o)
  /\ x.scene <= w.version[SceneOf]
  /\ \A o \in 1..Outfits : x.at > BeatAt(o) => o \in x.unapplied \/ m[Beat(o)] > 0
  /\ x.phase \in {"ending", "done"} => x.at = PlanLength
  /\ x.clear => x.phase \in {"failed", "done"}
  /\ x.late => x.phase = "failed" /\ x.todo \in Commands
  /\ x.phase \in {"new", "refused"} => x.todo = "find"
  /\ x.todo = "find" => ~x.again
  /\ x.todo = "beat" /\ x.again => x.version <= w.version[SceneOf]

RunInv == \A r \in Runs : RecordInv(run[r], world, mapping)

SceneInv == world.beats # <<>> => world.version[SceneOf] > 0

(* Unless the slot was taken from a run at work, the run at work has it. *)
SlotInv ==
  ~slot.stolen => \A r \in Runs : run[r].phase \in {"working", "ending"} => slot.owner = r

(* Why the beats stay in order: the rows of the beats before one that was   *)
(* added are confirmed, a run sends only a beat whose row is not, and a     *)
(* beat that would be accepted comes after all that are there.              *)
BeatsInv(w, m) ==
  /\ \A i, j \in DOMAIN w.beats : i < j => w.beats[i] < w.beats[j]
  /\ \A i \in DOMAIN w.beats : \A o \in 1..Outfits : o < w.beats[i] => m[Beat(o)] > 0

SendInv(x, w, m) ==
  x.todo = "beat" =>
    /\ x.phase = "working" => m[Plan[x.at]] <= 0
    /\ (x.phase = "working" \/ x.late) /\ x.scene = w.version[SceneOf] =>
         \A i \in DOMAIN w.beats : w.beats[i] <= Plan[x.at].o

OrderInv ==
  Orderly => BeatsInv(world, mapping) /\ \A r \in Runs : SendInv(run[r], world, mapping)

ApplyInv == TypeOK /\ ConfirmedIsReal /\ RunInv /\ SceneInv /\ SlotInv /\ OrderInv

-----------------------------------------------------------------------------
(* The plan *)

(* What stands where in the plan. *)
LEMMA PlanLengthNat == PlanLength \in Nat /\ PlanLength >= 6 /\ PlanLength = 6 + 3 * Outfits
BY ApplyConstants DEF PlanLength

LEMMA Thirds ==
  ASSUME NEW i \in Nat, i >= 2
  PROVE  /\ (i - 2) \div 3 \in Nat /\ (i - 2) % 3 \in 0..2
         /\ i = 3 * ((i - 2) \div 3) + ((i - 2) % 3) + 2
OBVIOUS

LEMMA ThirdsOf ==
  ASSUME NEW o \in Nat
  PROVE  /\ ((3 * o + 2) - 2) \div 3 = o /\ ((3 * o + 2) - 2) % 3 = 0
         /\ ((3 * o + 3) - 2) \div 3 = o /\ ((3 * o + 3) - 2) % 3 = 1
         /\ ((3 * o + 4) - 2) \div 3 = o /\ ((3 * o + 4) - 2) % 3 = 2
OBVIOUS

LEMMA PlanEnds ==
  /\ Plan[1] = Step("episode", 0) /\ Plan[2] = Step("scene", 0)
  /\ Plan[3] = Step("figure", 0) /\ Plan[4] = Step("assign", 0)
  /\ Plan[5 + 3 * Outfits] = Step("day", 0) /\ Plan[PlanLength] = Step("shoot", 0)
<1>1. Outfits \in Nat /\ 5 + 3 * Outfits \in 1..PlanLength /\ PlanLength \in 1..PlanLength
  BY ApplyConstants DEF PlanLength
<1>2. 1 \in 1..PlanLength /\ 2 \in 1..PlanLength /\ 3 \in 1..PlanLength /\ 4 \in 1..PlanLength
  BY PlanLengthNat
<1>3. \A i \in 1..4 : Plan[i] = Before[i]
  BY <1>1, <1>2, PlanLengthNat DEF Plan
<1>4. Plan[5 + 3 * Outfits] = After[1] /\ Plan[PlanLength] = After[2]
  <2>1. ~(5 + 3 * Outfits <= 4) /\ ~(5 + 3 * Outfits <= 4 + 3 * Outfits)
        /\ (5 + 3 * Outfits) - 4 - 3 * Outfits = 1
    BY <1>1
  <2>2. ~(PlanLength <= 4) /\ ~(PlanLength <= 4 + 3 * Outfits)
        /\ PlanLength - 4 - 3 * Outfits = 2
    BY <1>1, PlanLengthNat
  <2> QED BY <1>1, <2>1, <2>2 DEF Plan
<1> QED BY <1>3, <1>4 DEF Before, After

LEMMA PlanOutfits ==
  ASSUME NEW o \in 1..Outfits
  PROVE  /\ Plan[3 * o + 2] = Step("piece", o) /\ Plan[3 * o + 3] = Step("outfit", o)
         /\ Plan[BeatAt(o)] = Beat(o)
<1>1. /\ Outfits \in Nat /\ o \in Nat
      /\ 3 * o + 2 \in 1..PlanLength /\ 3 * o + 3 \in 1..PlanLength /\ 3 * o + 4 \in 1..PlanLength
      /\ 3 * o + 2 <= 4 + 3 * Outfits /\ 3 * o + 3 <= 4 + 3 * Outfits
      /\ 3 * o + 4 <= 4 + 3 * Outfits
      /\ ~(3 * o + 2 <= 4) /\ ~(3 * o + 3 <= 4) /\ ~(3 * o + 4 <= 4)
  BY ApplyConstants DEF PlanLength
<1>2. \A i \in 1..PlanLength : ~(i <= 4) /\ i <= 4 + 3 * Outfits =>
        Plan[i] = OutfitSteps((i - 2) \div 3)[((i - 2) % 3) + 1]
  BY DEF Plan
<1>3. Plan[3 * o + 2] = OutfitSteps(o)[1] /\ Plan[3 * o + 3] = OutfitSteps(o)[2]
      /\ Plan[3 * o + 4] = OutfitSteps(o)[3]
  BY <1>1, <1>2, ThirdsOf
<1> QED BY <1>3 DEF OutfitSteps, Beat, BeatAt

(* Every position is one of these. *)
LEMMA Positions ==
  ASSUME NEW i \in 1..PlanLength
  PROVE  \/ i \in 1..4 \/ i = 5 + 3 * Outfits \/ i = PlanLength
         \/ \E o \in 1..Outfits : i = 3 * o + 2 \/ i = 3 * o + 3 \/ i = BeatAt(o)
<1>1. Outfits \in Nat /\ PlanLength = 6 + 3 * Outfits
  BY ApplyConstants DEF PlanLength
<1>2. CASE i > 4 /\ i <= 4 + 3 * Outfits
  <2> DEFINE o == (i - 2) \div 3
  <2>1. o \in Nat /\ (i - 2) % 3 \in 0..2 /\ i = 3 * o + ((i - 2) % 3) + 2
    BY <1>1, <1>2, Thirds
  <2> HIDE DEF o
  <2>2. o \in 1..Outfits
    BY <1>1, <1>2, <2>1
  <2> QED BY <2>1, <2>2 DEF BeatAt
<1> QED BY <1>1, <1>2
AllKinds == {"episode", "scene", "figure", "assign", "piece", "outfit", "beat", "day", "shoot"}

LEMMA StepFields == \A kind, o : Step(kind, o).kind = kind /\ Step(kind, o).o = o
BY DEF Step

LEMMA KindsOfPlan ==
  ASSUME NEW i \in 1..PlanLength
  PROVE  /\ Plan[i].kind \in AllKinds /\ Plan[i] = Step(Plan[i].kind, Plan[i].o)
         /\ Plan[i].kind = "scene" => i = 2 /\ Plan[i] = SceneOf
         /\ Plan[i].kind = "figure" => i = 3
         /\ Plan[i].kind = "assign" <=> i = 4
         /\ Plan[i].kind = "shoot" <=> i = PlanLength
         /\ Plan[i].kind = "piece" => Plan[i].o \in 1..Outfits /\ i = 3 * Plan[i].o + 2
         /\ Plan[i].kind = "outfit" => Plan[i].o \in 1..Outfits /\ i = 3 * Plan[i].o + 3
         /\ Plan[i].kind = "beat" => Plan[i].o \in 1..Outfits /\ i = BeatAt(Plan[i].o)
<1>1. Outfits \in Nat /\ PlanLength = 6 + 3 * Outfits
  BY ApplyConstants DEF PlanLength
<1>2. CASE i \in 1..4
  BY <1>1, <1>2, PlanEnds DEF Step, AllKinds, SceneOf
<1>3. CASE i = 5 + 3 * Outfits
  BY <1>1, <1>3, PlanEnds DEF Step, AllKinds
<1>4. CASE i = PlanLength
  BY <1>1, <1>4, PlanEnds DEF Step, AllKinds
<1>5. ASSUME NEW o \in 1..Outfits, i = 3 * o + 2 \/ i = 3 * o + 3 \/ i = BeatAt(o)
      PROVE  /\ i # 4 /\ i # PlanLength
             /\ \/ Plan[i] = Step("piece", o) /\ i = 3 * o + 2
                \/ Plan[i] = Step("outfit", o) /\ i = 3 * o + 3
                \/ Plan[i] = Step("beat", o) /\ i = BeatAt(o)
  BY <1>1, <1>5, PlanOutfits DEF BeatAt, Beat
<1>6. ASSUME NEW o \in 1..Outfits, i = 3 * o + 2 \/ i = 3 * o + 3 \/ i = BeatAt(o)
      PROVE  /\ Plan[i].kind \in {"piece", "outfit", "beat"} /\ Plan[i] = Step(Plan[i].kind, Plan[i].o)
             /\ Plan[i].o = o /\ i # 4 /\ i # PlanLength
             /\ Plan[i].kind = "piece" => i = 3 * o + 2
             /\ Plan[i].kind = "outfit" => i = 3 * o + 3
             /\ Plan[i].kind = "beat" => i = BeatAt(o)
  <2>0. i # 4 /\ i # PlanLength
    BY <1>5, <1>6
  <2>1. CASE Plan[i] = Step("piece", o) /\ i = 3 * o + 2
    BY <2>0, <2>1, StepFields
  <2>2. CASE Plan[i] = Step("outfit", o) /\ i = 3 * o + 3
    BY <2>0, <2>2, StepFields
  <2>3. CASE Plan[i] = Step("beat", o) /\ i = BeatAt(o)
    BY <2>0, <2>3, StepFields
  <2> QED BY <1>5, <1>6, <2>1, <2>2, <2>3
<1>7. CASE \E o \in 1..Outfits : i = 3 * o + 2 \/ i = 3 * o + 3 \/ i = BeatAt(o)
  <2>1. PICK o \in 1..Outfits : i = 3 * o + 2 \/ i = 3 * o + 3 \/ i = BeatAt(o)
    BY <1>7
  <2> QED BY <1>6, <2>1 DEF AllKinds
<1> QED BY <1>2, <1>3, <1>4, <1>7, Positions

LEMMA KeyFacts ==
  ASSUME NEW k \in Keys
  PROVE  /\ StreamOf(k) \in Aggregates
         /\ k.kind = "beat" => k.o \in 1..Outfits /\ k = Beat(k.o)
<1>1. PICK i \in 1..PlanLength : k = Plan[i]
  BY DEF Keys, Steps
<1>2. SceneOf \in Aggregates
  <2>1. 2 \in 1..PlanLength /\ Plan[2] = SceneOf
    BY PlanLengthNat, PlanEnds DEF SceneOf
  <2>2. SceneOf.kind = "scene"
    BY DEF SceneOf, Step
  <2> QED BY <2>1, <2>2 DEF Aggregates, Keys, Steps
<1>3. k.kind = "beat" => k.o \in 1..Outfits /\ k = Beat(k.o)
  BY <1>1, KindsOfPlan DEF Beat
<1> QED BY <1>2, <1>3 DEF StreamOf, Aggregates

LEMMA SceneIsAggregate == SceneOf \in Aggregates /\ SceneOf \in Keys /\ StreamOf(SceneOf) = SceneOf
<1>1. 2 \in 1..PlanLength /\ Plan[2] = SceneOf
  BY PlanLengthNat, PlanEnds DEF SceneOf
<1>2. SceneOf.kind = "scene"
  BY DEF SceneOf, Step
<1> QED BY <1>1, <1>2 DEF Aggregates, Keys, Steps, StreamOf

LEMMA BeatIsKey ==
  ASSUME NEW o \in 1..Outfits
  PROVE  Beat(o) \in Keys /\ Beat(o).kind = "beat" /\ Beat(o).o = o /\ StreamOf(Beat(o)) = SceneOf
         /\ BeatAt(o) \in 1..PlanLength /\ Plan[BeatAt(o)] = Beat(o)
<1>1. BeatAt(o) \in 1..PlanLength
  BY ApplyConstants DEF BeatAt, PlanLength
<1>2. Beat(o).kind = "beat" /\ Beat(o).o = o
  BY DEF Beat, Step
<1> QED BY <1>1, <1>2, PlanOutfits DEF Keys, Steps, StreamOf

LEMMA AtKey ==
  ASSUME NEW i \in 1..PlanLength, Plan[i].kind # "assign"
  PROVE  /\ Plan[i] \in Keys /\ StreamOf(Plan[i]) \in Aggregates
         /\ Plan[i].kind # "beat" => Plan[i] \in Aggregates /\ StreamOf(Plan[i]) = Plan[i]
<1>1. Plan[i] \in Keys
  BY DEF Keys, Steps
<1> QED BY <1>1, KeyFacts DEF Aggregates, StreamOf

-----------------------------------------------------------------------------
(* The largest of the versions known of the scene. *)

LEMMA LargestBelow ==
  ASSUME NEW T, T # {}, NEW b \in Nat, \A n \in T : n \in Int /\ n <= b
  PROVE  \E v \in T : \A n \in T : n <= v
<1> DEFINE U == {b - n : n \in T}
<1>1. U \subseteq Nat /\ U # {}
  OBVIOUS
<1>2. PICK x \in U : \A y \in U : ~(<<y, x>> \in OpToRel(<, Nat))
  <2> HIDE DEF U
  <2> QED BY <1>1, NatLessThanWellFounded, WFMin
<1>3. \A y \in U : ~(y < x)
  <2> TAKE y \in U
  <2>1. x \in Nat /\ y \in Nat /\ <<y, x>> \in Nat \X Nat
    BY <1>1
  <2>2. y < x => <<y, x>> \in OpToRel(<, Nat)
    BY <2>1 DEF OpToRel
  <2> QED BY <1>2, <2>2
<1>4. PICK v \in T : x = b - v
  OBVIOUS
<1>5. \A n \in T : n <= v
  <2> TAKE n \in T
  <2>1. b - n \in U /\ ~(b - n < b - v)
    BY <1>3, <1>4
  <2> QED BY <2>1
<1> QED BY <1>5
-----------------------------------------------------------------------------
(* The streams and the rows only grow. *)

Grows(w, v) ==
  /\ \A a \in Aggregates : w.version[a] <= v.version[a]
  /\ \A i \in DOMAIN w.beats : i \in DOMAIN v.beats /\ v.beats[i] = w.beats[i]

RowsGrow(m, n) == \A k \in Keys : m[k] <= n[k]

Maps == [Keys -> Nat \cup {-1}]

LEMMA RecordKept ==
  ASSUME NEW x \in RunRecords, NEW w \in Worlds, NEW v \in Worlds, NEW m \in Maps, NEW n \in Maps,
         RecordInv(x, w, m), Grows(w, v), RowsGrow(m, n)
  PROVE  RecordInv(x, v, n)
<1>1. x.at \in 1..PlanLength /\ x.version \in Nat /\ x.scene \in Nat
  BY DEF RunRecords
<1>2. /\ \A a \in Aggregates : w.version[a] \in Nat /\ v.version[a] \in Nat
      /\ \A k \in Keys : m[k] \in Int /\ n[k] \in Int
  BY DEF Worlds, Maps
<1>3. x.todo = "confirm" =>
       /\ x.version <= v.version[StreamOf(Plan[x.at])]
       /\ Plan[x.at].kind = "beat" => x.version > 0 /\ InScene(v, Plan[x.at].o)
  <2> HAVE x.todo = "confirm"
  <2>1. Plan[x.at].kind # "assign"
    BY DEF RecordInv, TodosOf
  <2>2. StreamOf(Plan[x.at]) \in Aggregates
    BY <1>1, <2>1, AtKey
  <2>3. x.version <= v.version[StreamOf(Plan[x.at])]
    BY <1>1, <1>2, <2>2 DEF RecordInv, Grows
  <2>4. ASSUME InScene(w, Plan[x.at].o) PROVE InScene(v, Plan[x.at].o)
    BY <2>4 DEF InScene, Grows
  <2> QED BY <2>3, <2>4 DEF RecordInv
<1>4. x.scene <= v.version[SceneOf]
  BY <1>1, <1>2, SceneIsAggregate DEF RecordInv, Grows
<1>5. \A o \in 1..Outfits : x.at > BeatAt(o) => o \in x.unapplied \/ n[Beat(o)] > 0
  <2> TAKE o \in 1..Outfits
  <2>1. Beat(o) \in Keys
    BY BeatIsKey
  <2>2. m[Beat(o)] > 0 => n[Beat(o)] > 0
    BY <1>2, <2>1 DEF RowsGrow
  <2> QED BY <2>2 DEF RecordInv
<1>6. x.todo = "beat" /\ x.again => x.version <= v.version[SceneOf]
  BY <1>1, <1>2, SceneIsAggregate DEF RecordInv, Grows
<1> QED BY <1>3, <1>4, <1>5, <1>6 DEF RecordInv

LEMMA Reflexive ==
  /\ \A w \in Worlds : Grows(w, w)
  /\ \A m \in Maps : RowsGrow(m, m)
<1>1. \A w \in Worlds : \A a \in Aggregates : w.version[a] \in Nat
  BY DEF Worlds
<1>2. \A m \in Maps : \A k \in Keys : m[k] \in Int
  BY DEF Maps
<1> QED BY <1>1, <1>2 DEF Grows, RowsGrow

(* What the rows say stays true while the streams grow. *)
Confirmed(m, w) ==
  \A k \in Keys : m[k] > 0 => /\ m[k] <= w.version[StreamOf(k)]
                              /\ k.kind = "beat" => InScene(w, k.o)

LEMMA ConfirmedMeans == ConfirmedIsReal <=> Confirmed(mapping, world)
BY DEF Confirmed, ConfirmedIsReal, InScene

LEMMA ConfirmedKept ==
  ASSUME NEW w \in Worlds, NEW v \in Worlds, NEW m \in Maps, Confirmed(m, w), Grows(w, v)
  PROVE  Confirmed(m, v)
<1> SUFFICES ASSUME NEW k \in Keys, m[k] > 0
             PROVE  m[k] <= v.version[StreamOf(k)] /\ (k.kind = "beat" => InScene(v, k.o))
  BY DEF Confirmed
<1>1. StreamOf(k) \in Aggregates
  BY KeyFacts
<1>2. m[k] \in Int /\ w.version[StreamOf(k)] \in Nat /\ v.version[StreamOf(k)] \in Nat
  BY <1>1 DEF Maps, Worlds
<1>3. m[k] <= v.version[StreamOf(k)]
  BY <1>1, <1>2 DEF Confirmed, Grows
<1>4. k.kind = "beat" => InScene(v, k.o)
  BY DEF Confirmed, Grows, InScene
<1> QED BY <1>3, <1>4

-----------------------------------------------------------------------------
(* On to the next draft *)

LEMMA SceneVersionReached ==
  ASSUME TypeOK, ConfirmedIsReal, NEW x, x.scene \in Nat, x.scene <= world.version[SceneOf]
  PROVE  SceneVersion(x) \in Nat /\ SceneVersion(x) <= world.version[SceneOf]
<1> DEFINE rows == {mapping[Beat(o)] : o \in 1..Outfits} \cup {x.scene}
<1>1. world.version[SceneOf] \in Nat
  BY SceneIsAggregate DEF TypeOK, Worlds
<1>2. \A o \in 1..Outfits : mapping[Beat(o)] \in Int /\ mapping[Beat(o)] <= world.version[SceneOf]
  <2> TAKE o \in 1..Outfits
  <2>1. Beat(o) \in Keys /\ StreamOf(Beat(o)) = SceneOf
    BY BeatIsKey
  <2>2. mapping[Beat(o)] \in Int
    BY <2>1 DEF TypeOK
  <2>3. mapping[Beat(o)] > 0 => mapping[Beat(o)] <= world.version[SceneOf]
    BY <2>1 DEF ConfirmedIsReal
  <2> QED BY <1>1, <2>2, <2>3
<1>3. rows # {} /\ \A n \in rows : n \in Int /\ n <= world.version[SceneOf]
  BY <1>2
<1>4. x.scene \in rows
  OBVIOUS
<1>5. SceneVersion(x) = CHOOSE v \in rows : \A n \in rows : n <= v
  BY DEF SceneVersion, Beat
<1> HIDE DEF rows
<1>6. \E v \in rows : \A n \in rows : n <= v
  BY <1>1, <1>3, LargestBelow
<1>7. SceneVersion(x) \in rows /\ \A n \in rows : n <= SceneVersion(x)
  BY <1>5, <1>6
<1> QED BY <1>1, <1>3, <1>4, <1>7

(* The record of a run at work, wherever it is. *)
AtWork(x, w) ==
  /\ x \in RunRecords /\ x.phase = "working" /\ ~x.clear /\ ~x.late
  /\ x.scene <= w.version[SceneOf]

Passed(x, at, m) == \A o \in 1..Outfits : at > BeatAt(o) => o \in x.unapplied \/ m[Beat(o)] > 0

LEMMA AdvanceKeeps ==
  ASSUME TypeOK, ConfirmedIsReal, NEW w \in Worlds, Grows(world, w), NEW m \in Maps,
         NEW x, AtWork(x, w), NEW n \in Nat \ {0}, Passed(x, x.at + n, m),
         x.at + n > PlanLength => x.at = PlanLength /\ RecordInv(x, w, m),
         x.at + n = 4 => x.scene <= world.version[SceneOf]
  PROVE  LET y == Advance(x, n)
         IN  /\ y \in RunRecords /\ RecordInv(y, w, m)
             /\ y.phase \in {"working", "ending"} /\ y.todo # "beat"
             /\ y.unapplied = x.unapplied /\ ~y.late
<1> DEFINE y == Advance(x, n)
<1>0. /\ x \in RunRecords /\ x.at \in 1..PlanLength /\ x.scene \in Nat /\ x.version \in Nat
      /\ PlanLength \in Nat /\ x.phase = "working" /\ ~x.clear /\ ~x.late
      /\ x.scene <= w.version[SceneOf]
  BY PlanLengthNat DEF AtWork, RunRecords
<1>1. CASE x.at + n > PlanLength
  <2>1. y = [x EXCEPT !.phase = "ending"]
    BY <1>1 DEF Advance
  <2>2. y \in RunRecords
    BY <1>0, <2>1 DEF RunRecords, Phases
  <2>3. /\ y.phase = "ending" /\ y.todo = x.todo /\ y.at = x.at /\ y.version = x.version
        /\ y.scene = x.scene /\ y.unapplied = x.unapplied /\ y.late = x.late /\ y.clear = x.clear
        /\ y.again = x.again
    BY <1>0, <2>1 DEF RunRecords
  <2>4. RecordInv(y, w, m)
    BY <1>0, <1>1, <2>3 DEF RecordInv
  <2>5. y.todo # "beat"
    <3>1. Plan[x.at].kind = "shoot" /\ x.todo \in TodosOf(Plan[x.at].kind)
      BY <1>1, PlanEnds, StepFields DEF RecordInv
    <3>2. x.todo \in TodosOf("shoot")
      BY <3>1
    <3> QED BY <2>3, <3>2 DEF TodosOf
  <2> QED BY <1>0, <2>2, <2>3, <2>4, <2>5
<1>2. CASE ~(x.at + n > PlanLength)
  <2> DEFINE at == x.at + n
             todo == IF Plan[at].kind = "assign" THEN "assign" ELSE "find"
             scene == IF Plan[at].kind = "assign" THEN SceneVersion(x) ELSE x.scene
  <2>1. y = [x EXCEPT !.at = at, !.again = FALSE, !.todo = todo, !.scene = scene]
    BY <1>0, <1>2 DEF Advance, RunRecords
  <2>2. at \in 1..PlanLength
    BY <1>0, <1>2
  <2>3. scene \in Nat /\ scene <= w.version[SceneOf]
    <3>1. CASE Plan[at].kind = "assign"
      <4>1. at = 4
        BY <2>2, <3>1, KindsOfPlan
      <4>2. SceneVersion(x) \in Nat /\ SceneVersion(x) <= world.version[SceneOf]
        BY <1>0, <4>1, SceneVersionReached
      <4>3. world.version[SceneOf] <= w.version[SceneOf]
            /\ world.version[SceneOf] \in Nat /\ w.version[SceneOf] \in Nat
        BY SceneIsAggregate DEF Grows, TypeOK, Worlds
      <4> QED BY <3>1, <4>2, <4>3
    <3>2. CASE Plan[at].kind # "assign"
      BY <1>0, <3>2
    <3> QED BY <3>1, <3>2
  <2>4. todo \in {"assign", "find"} /\ todo \in TodosOf(Plan[at].kind)
    <3>1. Plan[at].kind \in AllKinds
      BY <2>2, KindsOfPlan
    <3> QED BY <3>1 DEF TodosOf, AllKinds
  <2> HIDE DEF at, todo, scene
  <2>5. y \in RunRecords
    BY <1>0, <2>1, <2>2, <2>3, <2>4 DEF RunRecords, Commands
  <2>6. /\ y.phase = "working" /\ y.todo = todo /\ y.at = at
        /\ y.scene = scene /\ y.unapplied = x.unapplied /\ ~y.late /\ ~y.clear /\ ~y.again
    BY <1>0, <2>1 DEF RunRecords
  <2>7. \A o \in 1..Outfits : y.at > BeatAt(o) => o \in y.unapplied \/ m[Beat(o)] > 0
    BY <2>6 DEF Passed, at
  <2>8. RecordInv(y, w, m)
    BY <2>3, <2>4, <2>6, <2>7 DEF RecordInv
  <2> QED BY <2>4, <2>5, <2>6, <2>8
<1> QED BY <1>1, <1>2
(* The record y of a run that was x and goes on. *)
GoesOn(y, x, w, m) ==
  /\ y \in RunRecords /\ RecordInv(y, w, m)
  /\ y.phase \in {"working", "ending"} /\ ~y.late /\ x.unapplied \subseteq y.unapplied

LEMMA AtTypes ==
  ASSUME TypeOK, NEW r \in Runs
  PROVE  /\ run[r] \in RunRecords /\ run[r].at \in 1..PlanLength /\ run[r].version \in Nat
         /\ run[r].scene \in Nat /\ run[r].unapplied \subseteq 1..Outfits
         /\ At(r) = Plan[run[r].at] /\ At(r).kind \in AllKinds
         /\ world \in Worlds /\ mapping \in Maps /\ world.version[SceneOf] \in Nat
<1>1. run[r] \in RunRecords
  BY DEF TypeOK
<1>2. run[r].at \in 1..PlanLength /\ run[r].version \in Nat
      /\ run[r].scene \in Nat /\ run[r].unapplied \subseteq 1..Outfits
  BY <1>1 DEF RunRecords
<1>3. world.version[SceneOf] \in Nat
  BY SceneIsAggregate DEF TypeOK, Worlds
<1> QED BY <1>1, <1>2, <1>3, KindsOfPlan DEF At, TypeOK, Maps

LEMMA WorkingClear ==
  ASSUME TypeOK, RunInv, NEW r \in Runs, Working(r)
  PROVE  run[r].phase = "working" /\ ~run[r].clear /\ ~run[r].late
BY DEF Working, RunInv, RecordInv

LEMMA FromMappingTodo ==
  ASSUME NEW kind \in AllKinds \ {"assign"}, NEW o, NEW v \in Int
  PROVE  LET t == FromMapping(Step(kind, o), v)
         IN  /\ t = "advance" \/ t \in TodosOf(kind) \cap Commands
             /\ t = "beat" => kind = "beat" /\ v <= 0
             /\ t = "advance" /\ kind = "beat" => v > 0
<1>1. Step(kind, o).kind = kind
  BY StepFields
<1>2. PieceFrom(v) \in {"create", "category", "notes", "advance"}
      /\ OutfitFrom(v) \in {"create", "notes", "advance"}
  BY DEF PieceFrom, OutfitFrom
<1> QED BY <1>1, <1>2 DEF FromMapping, TodosOf, Commands, AllKinds

LEMMA FindKeeps ==
  ASSUME TypeOK, ConfirmedIsReal, RunInv, NEW r \in Runs, Find(r)
  PROVE  /\ mapping' \in Maps /\ RowsGrow(mapping, mapping')
         /\ \A k \in Keys : mapping'[k] > 0 => mapping'[k] = mapping[k]
         /\ \A k \in Keys : mapping'[k] <= 0 <=> mapping[k] <= 0
         /\ \E y : /\ run' = [run EXCEPT ![r] = y]
                   /\ GoesOn(y, run[r], world, mapping')
                   /\ y.todo = "beat" => /\ y.at = run[r].at /\ mapping'[Plan[y.at]] <= 0
                                         /\ Plan[y.at].kind = "beat"
<1> DEFINE s == At(r)
           v == Greater(mapping[s], 0)
           scene == IF s.kind \in {"scene", "beat"} THEN Greater(run[r].scene, v) ELSE run[r].scene
           pending == s.kind = "outfit" /\ v < 1
           x == [run[r] EXCEPT !.version = v, !.pending = pending, !.scene = scene]
           t == FromMapping(s, mapping[s])
           y == Then(x, t)
<1>0. /\ run[r] \in RunRecords /\ run[r].at \in 1..PlanLength /\ s = Plan[run[r].at]
      /\ s.kind \in AllKinds /\ world \in Worlds /\ mapping \in Maps
      /\ run[r].scene \in Nat /\ world.version[SceneOf] \in Nat
  BY AtTypes
<1>1. Working(r) /\ run[r].todo = "find" /\ run[r].phase = "working" /\ ~run[r].clear /\ ~run[r].late
      /\ RecordInv(run[r], world, mapping)
  BY WorkingClear DEF Find, RunInv
<1>2. s.kind # "assign" /\ s \in Keys /\ s = Step(s.kind, s.o) /\ StreamOf(s) \in Aggregates
  <2>1. s.kind # "assign"
    BY <1>0, <1>1 DEF RecordInv, TodosOf
  <2> QED BY <1>0, <2>1, AtKey, KindsOfPlan
<1>3. v \in Nat /\ v >= mapping[s] /\ mapping[s] \in Int /\ (v > 0 => v = mapping[s])
      /\ (v <= 0 <=> mapping[s] <= 0)
  BY <1>0, <1>2 DEF Greater, Maps
<1>4. mapping' = [mapping EXCEPT ![s] = v]
  BY DEF Find
<1>5. run' = [run EXCEPT ![r] = y]
  BY <1>0 DEF Find, RunRecords
<1> HIDE DEF v
<1>6. mapping' \in Maps /\ \A k \in Keys : mapping[k] \in Int /\ mapping'[k] \in Int
      /\ mapping'[k] = IF k = s THEN v ELSE mapping[k]
  BY <1>0, <1>2, <1>3, <1>4 DEF Maps
<1>7. /\ RowsGrow(mapping, mapping')
      /\ \A k \in Keys : mapping'[k] > 0 => mapping'[k] = mapping[k]
      /\ \A k \in Keys : mapping'[k] <= 0 <=> mapping[k] <= 0
  BY <1>3, <1>6 DEF RowsGrow
<1>8. scene \in Nat /\ scene <= world.version[SceneOf]
  <2>1. run[r].scene <= world.version[SceneOf]
    BY <1>1 DEF RecordInv
  <2>2. s.kind \in {"scene", "beat"} => StreamOf(s) = SceneOf
    BY <1>0, KindsOfPlan DEF StreamOf
  <2>3. s.kind \in {"scene", "beat"} => v <= world.version[SceneOf]
    BY <1>0, <1>2, <1>3, <2>2 DEF ConfirmedIsReal
  <2> QED BY <1>0, <1>3, <2>1, <2>3 DEF Greater
<1>9. pending \in BOOLEAN
  OBVIOUS
<1> HIDE DEF scene, pending
<1>10. x \in RunRecords
  BY <1>0, <1>3, <1>8, <1>9 DEF RunRecords
<1>11. /\ x.phase = "working" /\ x.at = run[r].at /\ x.todo = "find" /\ x.scene = scene
       /\ x.version = v /\ x.unapplied = run[r].unapplied /\ ~x.late /\ ~x.clear /\ ~x.again
  BY <1>0, <1>1 DEF RunRecords, RecordInv
<1>12. /\ t = "advance" \/ t \in TodosOf(s.kind) \cap Commands
       /\ t = "beat" => s.kind = "beat" /\ mapping[s] <= 0
       /\ t = "advance" /\ s.kind = "beat" => mapping[s] > 0
  BY <1>0, <1>2, <1>3, FromMappingTodo
<1> HIDE DEF x, t, s
<1>13. RecordInv(run[r], world, mapping')
  BY <1>0, <1>1, <1>6, <1>7, RecordKept, Reflexive
<1>14. RecordInv(x, world, mapping')
  BY <1>8, <1>11, <1>13, <1>1 DEF RecordInv
<1>15. CASE t = "advance"
  <2>1. y = Advance(x, 1)
    BY <1>15 DEF Then
  <2>2. AtWork(x, world)
    BY <1>8, <1>10, <1>11 DEF AtWork
  <2>3. Passed(x, x.at + 1, mapping')
    <3> SUFFICES ASSUME NEW o \in 1..Outfits, x.at + 1 > BeatAt(o)
                 PROVE  o \in x.unapplied \/ mapping'[Beat(o)] > 0
      BY DEF Passed
    <3>1. x.at > BeatAt(o) \/ x.at = BeatAt(o)
      BY <1>0, <1>11 DEF BeatAt
    <3>2. CASE x.at > BeatAt(o)
      BY <1>14, <3>2 DEF RecordInv
    <3>3. CASE x.at = BeatAt(o)
      <4>1. s = Beat(o) /\ s.kind = "beat"
        BY <1>0, <1>11, <3>3, BeatIsKey
      <4>2. mapping'[Beat(o)] > 0
        BY <1>2, <1>3, <1>6, <1>12, <1>15, <4>1
      <4> QED BY <4>2
    <3> QED BY <3>1, <3>2, <3>3
  <2>4. x.at + 1 > PlanLength => x.at = PlanLength
    BY <1>0, <1>11, PlanLengthNat
  <2>5. y \in RunRecords /\ RecordInv(y, world, mapping') /\ y.phase \in {"working", "ending"}
        /\ y.todo # "beat" /\ y.unapplied = x.unapplied /\ ~y.late
    <3>1. Grows(world, world)
      BY <1>0, Reflexive
    <3> QED BY <1>0, <1>6, <1>8, <1>11, <1>14, <2>1, <2>2, <2>3, <2>4, <3>1, AdvanceKeeps
  <2> HIDE DEF y
  <2>6. GoesOn(y, run[r], world, mapping')
    BY <1>11, <2>5 DEF GoesOn
  <2> QED BY <1>5, <1>6, <1>7, <2>5, <2>6
<1>16. CASE t # "advance"
  <2>1. y = [x EXCEPT !.todo = t] /\ t \in TodosOf(s.kind) /\ t \in Commands
    BY <1>12, <1>16 DEF Then
  <2>2. y \in RunRecords
    BY <1>10, <2>1 DEF RunRecords
  <2>3. /\ y.phase = "working" /\ y.at = x.at /\ y.todo = t /\ y.scene = x.scene
        /\ y.unapplied = x.unapplied /\ ~y.late /\ ~y.clear /\ y.version = x.version /\ ~y.again
    BY <1>10, <1>11, <2>1 DEF RunRecords
  <2>4. t # "confirm" /\ t # "find"
    BY <2>1 DEF Commands
  <2>5. Plan[y.at] = s
    BY <1>0, <1>11, <2>3
  <2> HIDE DEF y
  <2>6. RecordInv(y, world, mapping')
    BY <1>14, <2>1, <2>3, <2>4, <2>5 DEF RecordInv
  <2>7. y.todo = "beat" => y.at = run[r].at /\ mapping'[Plan[y.at]] <= 0 /\ Plan[y.at].kind = "beat"
    BY <1>2, <1>3, <1>6, <1>11, <1>12, <2>3, <2>5
  <2>8. GoesOn(y, run[r], world, mapping')
    BY <1>11, <2>2, <2>3, <2>6 DEF GoesOn
  <2> QED BY <1>5, <1>6, <1>7, <2>7, <2>8
<1> QED BY <1>15, <1>16
-----------------------------------------------------------------------------
(* Commands: what they answer and what they leave *)

(* The answer to a command: a world that has grown by one event or not at   *)
(* all, and a version of the stream it went to.                             *)
AnswerOK(w, a, stream) ==
  /\ a.world \in Worlds /\ Grows(w, a.world) /\ a.world.beats = w.beats
  /\ a.version \in Nat /\ a.version <= a.world.version[stream]
  /\ a.verdict \in {"ok", "conflict"}

LEMMA AnswerFields ==
  \A w, d, n : /\ Answer(w, d, n).world = w /\ Answer(w, d, n).verdict = d
               /\ Answer(w, d, n).version = n
BY DEF Answer

LEMMA AppendedOK ==
  ASSUME NEW w \in Worlds, NEW g \in Aggregates, NEW fact \in FactNames \X Aggregates
  PROVE  AnswerOK(w, Appended(w, g, fact), g)
<1> DEFINE v == [w EXCEPT !.version[g] = @ + 1, !.facts = @ \cup {fact}]
<1>1. w.version \in [Aggregates -> Nat] /\ w.facts \in SUBSET (FactNames \X Aggregates)
      /\ w.beats \in Seq(1..Outfits)
  BY DEF Worlds
<1>2. v.version = [w.version EXCEPT ![g] = w.version[g] + 1] /\ v.facts = w.facts \cup {fact}
      /\ v.beats = w.beats
  BY DEF Worlds
<1>3. v \in Worlds
  <2> DEFINE f == [w.version EXCEPT ![g] = w.version[g] + 1]
             fs == w.facts \cup {fact}
  <2>1. f \in [Aggregates -> Nat] /\ fs \in SUBSET (FactNames \X Aggregates)
    BY <1>1
  <2>2. v = [w EXCEPT !.version = f, !.facts = fs]
    BY DEF Worlds
  <2> HIDE DEF f, fs, v
  <2> QED BY <2>1, <2>2 DEF Worlds
<1>4. Appended(w, g, fact) = Answer(v, "ok", w.version[g] + 1)
  BY DEF Appended
<1> HIDE DEF v
<1>5. Grows(w, v)
  BY <1>1, <1>2 DEF Grows
<1>6. w.version[g] + 1 \in Nat /\ v.version[g] = w.version[g] + 1
  BY <1>1, <1>2
<1> QED BY <1>2, <1>3, <1>4, <1>5, <1>6, AnswerFields DEF AnswerOK

LEMMA SameOK ==
  ASSUME NEW w \in Worlds, NEW g \in Aggregates, NEW verdict \in {"ok", "conflict"}
  PROVE  AnswerOK(w, Answer(w, verdict, w.version[g]), g)
<1>1. w.version[g] \in Nat
  BY DEF Worlds
<1> QED BY <1>1, AnswerFields, Reflexive DEF AnswerOK

LEMMA CreateOK ==
  ASSUME NEW w \in Worlds, NEW g \in Aggregates
  PROVE  AnswerOK(w, CreateOn(w, g), g)
<1>1. <<"create", g>> \in FactNames \X Aggregates
  BY DEF FactNames
<1> QED BY <1>1, AppendedOK, SameOK DEF CreateOn, Conflict

LEMMA ChangeOK ==
  ASSUME NEW w \in Worlds, NEW g \in Aggregates, NEW fact \in FactNames \X Aggregates, NEW n,
         ~(fact[1] = "notes" /\ fact \in w.facts /\ w.version[g] = n)
  PROVE  AnswerOK(w, ChangeOn(w, g, fact, n), g)
BY AppendedOK, SameOK DEF ChangeOn, Conflict

LEMMA BeatOK ==
  ASSUME NEW w \in Worlds, NEW o \in 1..Outfits, NEW n \in Nat, n <= w.version[SceneOf],
         w.beats # <<>> => w.version[SceneOf] > 0
  PROVE  LET a == AddOutfitBeat(w, o, n)
         IN  /\ a.world \in Worlds /\ Grows(w, a.world)
             /\ a.version \in Nat /\ a.version <= a.world.version[SceneOf]
             /\ a.verdict \in {"ok", "conflict", "refused"}
             /\ a.verdict = "refused" => a.world = w
             /\ a.verdict = "ok" => a.version > 0 /\ InScene(a.world, o)
             /\ \/ a.world = w
                \/ /\ w.version[SceneOf] = n /\ a.world.beats = Append(w.beats, o)
                   /\ a.world.version[SceneOf] = n + 1
                   /\ w.beats # <<>> => w.beats[Len(w.beats)] # o
<1> DEFINE v == [w EXCEPT !.version[SceneOf] = @ + 1, !.beats = Append(@, o)]
<1>1. w.version \in [Aggregates -> Nat] /\ w.facts \in SUBSET (FactNames \X Aggregates)
      /\ w.beats \in Seq(1..Outfits) /\ SceneOf \in Aggregates /\ w.version[SceneOf] \in Nat
  BY SceneIsAggregate DEF Worlds
<1>2. Grows(w, w)
  BY Reflexive
<1>3. CASE w.version[SceneOf] # n
  <2>1. AddOutfitBeat(w, o, n) = Answer(w, "conflict", w.version[SceneOf])
    BY <1>3 DEF AddOutfitBeat, Conflict
  <2> QED BY <1>1, <1>2, <2>1, AnswerFields
<1>4. CASE w.version[SceneOf] = n /\ <<"assign", SceneOf>> \notin w.facts
  <2>1. AddOutfitBeat(w, o, n) = Answer(w, "refused", n)
    BY <1>4 DEF AddOutfitBeat
  <2> QED BY <1>1, <1>2, <2>1, AnswerFields
<1>5. CASE /\ w.version[SceneOf] = n /\ <<"assign", SceneOf>> \in w.facts
           /\ w.beats # <<>> /\ w.beats[Len(w.beats)] = o
  <2>1. AddOutfitBeat(w, o, n) = Answer(w, "ok", n)
    BY <1>5 DEF AddOutfitBeat
  <2>2. Len(w.beats) \in DOMAIN w.beats
    BY <1>1, <1>5
  <2>3. InScene(w, o)
    BY <1>5, <2>2 DEF InScene
  <2> QED BY <1>1, <1>2, <1>5, <2>1, <2>3, AnswerFields
<1>6. CASE /\ w.version[SceneOf] = n /\ <<"assign", SceneOf>> \in w.facts
           /\ w.beats # <<>> => w.beats[Len(w.beats)] # o
  <2>1. AddOutfitBeat(w, o, n) = Answer(v, "ok", n + 1)
    BY <1>6 DEF AddOutfitBeat
  <2>2. v.version = [w.version EXCEPT ![SceneOf] = w.version[SceneOf] + 1] /\ v.facts = w.facts
        /\ v.beats = Append(w.beats, o)
    BY DEF Worlds
  <2>3. v \in Worlds
    <3> DEFINE f == [w.version EXCEPT ![SceneOf] = w.version[SceneOf] + 1]
               bs == Append(w.beats, o)
    <3>1. f \in [Aggregates -> Nat] /\ bs \in Seq(1..Outfits)
      BY <1>1
    <3>2. v = [w EXCEPT !.version = f, !.beats = bs]
      BY DEF Worlds
    <3> HIDE DEF f, bs, v
    <3> QED BY <3>1, <3>2 DEF Worlds
  <2> HIDE DEF v
  <2>4. /\ DOMAIN v.beats = 1..(Len(w.beats) + 1) /\ v.beats[Len(w.beats) + 1] = o
        /\ DOMAIN w.beats = 1..Len(w.beats) /\ Len(w.beats) \in Nat
        /\ \A i \in DOMAIN w.beats : v.beats[i] = w.beats[i]
    BY <1>1, <2>2
  <2>5. Grows(w, v)
    BY <1>1, <2>2, <2>4 DEF Grows
  <2>6. v.version[SceneOf] = n + 1 /\ n + 1 \in Nat /\ n + 1 > 0
    BY <1>1, <1>6, <2>2
  <2>7. InScene(v, o)
    BY <2>4 DEF InScene
  <2> QED BY <1>6, <2>1, <2>2, <2>3, <2>5, <2>6, <2>7, AnswerFields
<1> QED BY <1>3, <1>4, <1>5, <1>6

(* Any command of a run *)
Answers(a, x, s) ==
  /\ a.world \in Worlds /\ Grows(world, a.world) /\ a.version \in Nat
  /\ a.verdict \in {"ok", "conflict", "refused"}
  /\ a.verdict = "refused" => /\ s.kind \in {"figure", "piece", "outfit", "beat"}
                              /\ x.todo \in {"create", "notes", "beat"} /\ a.world = world
  /\ x.todo \in {"create", "category", "notes"} /\ a.verdict # "refused" =>
       s \in Aggregates /\ a.version <= a.world.version[s]
  /\ x.todo \in {"assign", "schedule", "beat"} =>
       a.version <= a.world.version[SceneOf]
  /\ x.todo = "beat" => s.kind = "beat" /\ s.o \in 1..Outfits
  /\ x.todo = "beat" /\ a.verdict = "ok" => a.version > 0 /\ InScene(a.world, s.o)
  /\ \/ a.world.beats = world.beats
     \/ /\ x.todo = "beat" /\ world.version[SceneOf] = x.scene
        /\ a.world.beats = Append(world.beats, s.o)
        /\ a.world.version[SceneOf] = x.scene + 1
        /\ world.beats # <<>> => world.beats[Len(world.beats)] # s.o

LEMMA ExecuteOK ==
  ASSUME TypeOK, RunInv, SceneInv, NEW r \in Runs, run[r].todo \in Commands
  PROVE  Answers(Execute(world, r), run[r], At(r))
<1> DEFINE a == Execute(world, r)
           x == run[r]
           s == At(r)
<1>0. /\ x \in RunRecords /\ x.at \in 1..PlanLength /\ s = Plan[x.at] /\ s.kind \in AllKinds
      /\ world \in Worlds /\ world.version[SceneOf] \in Nat /\ x.version \in Nat /\ x.scene \in Nat
      /\ SceneOf \in Aggregates
  BY AtTypes, SceneIsAggregate
<1>1. x.todo \in TodosOf(s.kind) /\ x.scene <= world.version[SceneOf]
  BY <1>0 DEF RunInv, RecordInv
<1>2. x.todo \in {"create", "category", "notes"} => s.kind \notin {"assign", "beat"}
  BY <1>1 DEF TodosOf
<1>3. x.todo \in {"create", "category", "notes"} => s \in Aggregates
  BY <1>0, <1>2, AtKey
<1>4. x.todo = "beat" => s.kind = "beat" /\ s.o \in 1..Outfits
  <2>1. x.todo = "beat" => s.kind = "beat"
    BY <1>0, <1>1 DEF TodosOf, AllKinds
  <2> QED BY <1>0, <2>1, KindsOfPlan
<1>5. CASE x.todo = "create" /\ s.kind = refused
  <2>1. a = Answer(world, "refused", x.version)
    BY <1>5 DEF Execute
  <2>2. s.kind \in {"figure", "piece", "outfit"}
    BY <1>0, <1>5 DEF TypeOK, AllKinds
  <2> HIDE DEF a
  <2>9. Answers(a, x, s)
    BY <1>0, <1>5, <2>1, <2>2, AnswerFields, Reflexive DEF Answers
  <2> QED BY <2>9 DEF a
<1>6. CASE x.todo = "create" /\ s.kind # refused
  <2>1. a = CreateOn(world, s)
    BY <1>6 DEF Execute
  <2>2. AnswerOK(world, a, s)
    BY <1>0, <1>3, <1>6, <2>1, CreateOK
  <2> HIDE DEF a
  <2>9. Answers(a, x, s)
    BY <1>3, <1>6, <2>2 DEF AnswerOK, Answers
  <2> QED BY <2>9 DEF a
<1>7. CASE x.todo \in {"category", "notes"}
  <2> DEFINE fact == <<x.todo, s>>
  <2>1. a = ChangeOn(world, s, fact, x.version)
    BY <1>7 DEF Execute
  <2>2. fact \in FactNames \X Aggregates /\ fact[1] = x.todo
    BY <1>3, <1>7 DEF FactNames
  <2> HIDE DEF a
  <2>3. CASE fact[1] = "notes" /\ fact \in world.facts /\ world.version[s] = x.version
    <3>1. a = Answer(world, "refused", x.version)
      BY <2>1, <2>3 DEF ChangeOn
    <3>2. s.kind \in {"piece", "outfit"}
      BY <1>0, <1>1, <2>2, <2>3 DEF TodosOf, AllKinds
    <3>3. Answers(a, x, s)
      BY <1>0, <2>2, <2>3, <3>1, <3>2, AnswerFields, Reflexive DEF Answers
    <3> QED BY <3>3 DEF a
  <2>4. CASE ~(fact[1] = "notes" /\ fact \in world.facts /\ world.version[s] = x.version)
    <3> HIDE DEF fact
    <3>1. AnswerOK(world, a, s)
      BY <1>0, <1>3, <1>7, <2>1, <2>2, <2>4, ChangeOK
    <3>2. Answers(a, x, s)
      BY <1>3, <1>7, <3>1 DEF AnswerOK, Answers
    <3> QED BY <3>2 DEF a
  <2> QED BY <2>3, <2>4
<1>8. CASE x.todo \in {"assign", "schedule"}
  <2>1. a = ChangeOn(world, SceneOf, <<x.todo, SceneOf>>, x.scene)
    BY <1>8 DEF Execute
  <2>2. AnswerOK(world, a, SceneOf)
    <3> DEFINE fact == <<x.todo, SceneOf>>
    <3>1. fact \in FactNames \X Aggregates /\ fact[1] # "notes"
      BY <1>0, <1>8 DEF FactNames
    <3> HIDE DEF fact
    <3>2. AnswerOK(world, ChangeOn(world, SceneOf, fact, x.scene), SceneOf)
      BY <1>0, <3>1, ChangeOK
    <3> QED BY <2>1, <3>2 DEF fact
  <2> HIDE DEF a
  <2>9. Answers(a, x, s)
    BY <1>8, <2>2 DEF AnswerOK, Answers
  <2> QED BY <2>9 DEF a
<1>9. CASE x.todo = "beat"
  <2>1. a = AddOutfitBeat(world, s.o, x.scene)
    BY <1>9 DEF Execute
  <2> HIDE DEF a
  <2>2. world.beats # <<>> => world.version[SceneOf] > 0
    BY DEF SceneInv
  <2> HIDE DEF x, s
  <2>3. /\ a.world \in Worlds /\ Grows(world, a.world)
        /\ a.version \in Nat /\ a.version <= a.world.version[SceneOf]
        /\ a.verdict \in {"ok", "conflict", "refused"}
        /\ a.verdict = "refused" => a.world = world
        /\ a.verdict = "ok" => a.version > 0 /\ InScene(a.world, s.o)
        /\ \/ a.world = world
           \/ /\ world.version[SceneOf] = x.scene /\ a.world.beats = Append(world.beats, s.o)
              /\ a.world.version[SceneOf] = x.scene + 1
              /\ world.beats # <<>> => world.beats[Len(world.beats)] # s.o
    BY <1>0, <1>1, <1>4, <1>9, <2>1, <2>2, BeatOK
  <2>9. Answers(a, x, s)
    BY <1>4, <1>9, <2>3 DEF Answers
  <2> QED BY <2>9 DEF a, x, s
<1> QED BY <1>5, <1>6, <1>7, <1>8, <1>9 DEF Commands
-----------------------------------------------------------------------------
(* The answer *)

LEMMA RefusalKeeps ==
  ASSUME TypeOK, ConfirmedIsReal, NEW w \in Worlds, Grows(world, w), NEW m \in Maps,
         NEW x, AtWork(x, w), Passed(x, x.at, m),
         Plan[x.at].kind \in {"figure", "piece", "outfit", "beat"}
  PROVE  /\ GoesOn(AfterRefusal(x, Plan[x.at]), x, w, m)
         /\ AfterRefusal(x, Plan[x.at]).todo # "beat"
<1> DEFINE s == Plan[x.at]
           skipped == IF s.kind = "figure" THEN 1..Outfits ELSE {s.o}
           n == CASE s.kind = "figure" -> 2 + 3 * Outfits
                  [] s.kind = "piece"  -> 3
                  [] s.kind = "outfit" -> 2
                  [] s.kind = "beat"   -> 1
           z == [x EXCEPT !.unapplied = @ \cup skipped]
           y == AfterRefusal(x, s)
<1>0. /\ x \in RunRecords /\ x.at \in 1..PlanLength /\ x.unapplied \subseteq 1..Outfits
      /\ Outfits \in Nat /\ PlanLength = 6 + 3 * Outfits
  BY ApplyConstants DEF AtWork, RunRecords, PlanLength
<1>1. /\ s.kind = "figure" => x.at = 3
      /\ s.kind = "piece" => s.o \in 1..Outfits /\ x.at = 3 * s.o + 2
      /\ s.kind = "outfit" => s.o \in 1..Outfits /\ x.at = 3 * s.o + 3
      /\ s.kind = "beat" => s.o \in 1..Outfits /\ x.at = 3 * s.o + 4
  BY <1>0, KindsOfPlan DEF BeatAt
<1>2. y = Advance(z, n)
  BY DEF AfterRefusal
<1>3. skipped \subseteq 1..Outfits /\ n \in Nat \ {0} /\ x.at + n \in 1..PlanLength /\ x.at + n # 4
  BY <1>0, <1>1
<1>4. \A o \in 1..Outfits : x.at + n > BeatAt(o) => x.at > BeatAt(o) \/ o \in skipped
  <2> SUFFICES ASSUME NEW o \in 1..Outfits, x.at + n > BeatAt(o), ~(x.at > BeatAt(o))
               PROVE  o \in skipped
    OBVIOUS
  <2>1. CASE s.kind = "figure"
    BY <2>1
  <2>2. CASE s.kind = "piece"
    <3>1. o = s.o
      BY <1>0, <1>1, <2>2 DEF BeatAt
    <3> QED BY <2>2, <3>1
  <2>3. CASE s.kind = "outfit"
    <3>1. o = s.o
      BY <1>0, <1>1, <2>3 DEF BeatAt
    <3> QED BY <2>3, <3>1
  <2>4. CASE s.kind = "beat"
    <3>1. o = s.o
      BY <1>0, <1>1, <2>4 DEF BeatAt
    <3> QED BY <2>4, <3>1
  <2> QED BY <2>1, <2>2, <2>3, <2>4
<1> HIDE DEF skipped, n, s
<1>5. z \in RunRecords
  BY <1>0, <1>3 DEF RunRecords
<1>6. /\ z.phase = x.phase /\ z.clear = x.clear /\ z.late = x.late /\ z.scene = x.scene
      /\ z.at = x.at /\ z.unapplied = x.unapplied \cup skipped
  BY <1>0 DEF RunRecords
<1> HIDE DEF z
<1>7. AtWork(z, w)
  BY <1>5, <1>6 DEF AtWork
<1>8. Passed(z, z.at + n, m)
  <2> SUFFICES ASSUME NEW o \in 1..Outfits, x.at + n > BeatAt(o)
               PROVE  o \in z.unapplied \/ m[Beat(o)] > 0
    BY <1>6 DEF Passed
  <2> QED BY <1>4, <1>6 DEF Passed
<1>9. ~(z.at + n > PlanLength) /\ z.at + n # 4
  BY <1>0, <1>3, <1>6
<1>10. /\ y \in RunRecords /\ RecordInv(y, w, m)
       /\ y.phase \in {"working", "ending"} /\ y.todo # "beat"
       /\ y.unapplied = z.unapplied /\ ~y.late
  BY <1>2, <1>3, <1>7, <1>8, <1>9, AdvanceKeeps
<1> HIDE DEF y
<1>11. GoesOn(y, x, w, m)
  BY <1>6, <1>10 DEF GoesOn
<1> QED BY <1>10, <1>11 DEF y, s

(* The record after a change of the fields that the answer sets. *)
Noted(x, scene, version, again, todo) ==
  [x EXCEPT !.scene = scene, !.version = version, !.again = again, !.todo = todo]

LEMMA RecordSet ==
  ASSUME NEW w \in Worlds, NEW x, AtWork(x, w), NEW scene \in Nat, scene <= w.version[SceneOf],
         NEW version \in Nat, NEW again \in BOOLEAN, NEW todo \in Commands \cup {"find", "confirm"},
         NEW y, y = Noted(x, scene, version, again, todo)
  PROVE  /\ AtWork(y, w) /\ y.at = x.at /\ y.unapplied = x.unapplied
         /\ y.scene = scene /\ y.version = version /\ y.todo = todo /\ y.again = again
<1>1. x \in RunRecords
  BY DEF AtWork
<1>2. y \in RunRecords
  BY <1>1 DEF RunRecords, Noted
<1>3. /\ y.phase = x.phase /\ y.clear = x.clear /\ y.late = x.late /\ y.scene = scene
      /\ y.at = x.at /\ y.unapplied = x.unapplied /\ y.version = version /\ y.todo = todo
      /\ y.again = again
  BY <1>1 DEF RunRecords, Noted
<1> QED BY <1>2, <1>3 DEF AtWork

LEMMA AtWorkGoesOn ==
  ASSUME NEW w \in Worlds, NEW m, NEW x, NEW y, AtWork(y, w), Passed(y, y.at, m),
         x.unapplied \subseteq y.unapplied, y.todo \in TodosOf(Plan[y.at].kind),
         y.todo = "confirm" =>
           /\ y.version <= w.version[StreamOf(Plan[y.at])]
           /\ Plan[y.at].kind = "beat" => y.version > 0 /\ InScene(w, Plan[y.at].o),
         y.todo # "find", y.todo = "beat" /\ y.again => y.version <= w.version[SceneOf]
  PROVE  GoesOn(y, x, w, m)
BY DEF AtWork, Passed, GoesOn, RecordInv
LEMMA AnswerKeeps ==
  ASSUME TypeOK, ConfirmedIsReal, RunInv, SceneInv, NEW r \in Runs, Working(r),
         run[r].todo \in Commands
  PROVE  LET a == Execute(world, r)
             y == AfterAnswer(run[r], At(r), a)
         IN  /\ GoesOn(y, run[r], a.world, mapping)
             /\ y.todo = "beat" => run[r].todo = "beat" /\ y.at = run[r].at
<1>0. Answers(Execute(world, r), run[r], At(r))
  BY ExecuteOK
<1> SUFFICES ASSUME NEW a, NEW x, NEW s, a = Execute(world, r), x = run[r], s = At(r)
             PROVE  /\ GoesOn(AfterAnswer(x, s, a), x, a.world, mapping)
                    /\ AfterAnswer(x, s, a).todo = "beat" =>
                         x.todo = "beat" /\ AfterAnswer(x, s, a).at = x.at
  OBVIOUS
<1> DEFINE w == a.world
           y == AfterAnswer(x, s, a)
<1>1. Answers(a, x, s)
  BY <1>0
<1>2. /\ x \in RunRecords /\ x.at \in 1..PlanLength /\ s = Plan[x.at] /\ s.kind \in AllKinds
      /\ world \in Worlds /\ mapping \in Maps /\ x.version \in Nat /\ x.scene \in Nat
      /\ w \in Worlds /\ Grows(world, w) /\ a.version \in Nat /\ world.version[SceneOf] \in Nat
      /\ w.version[SceneOf] \in Nat /\ world.version[SceneOf] <= w.version[SceneOf]
  BY <1>1, AtTypes, SceneIsAggregate DEF Answers, Worlds, Grows
<1>3. /\ x.todo \in TodosOf(s.kind) /\ x.scene <= w.version[SceneOf] /\ Passed(x, x.at, mapping)
      /\ RecordInv(x, world, mapping)
  BY <1>2 DEF RunInv, RecordInv, Passed
<1>4. AtWork(x, w)
  BY <1>2, <1>3, WorkingClear DEF AtWork
<1>5. x.again \in BOOLEAN /\ x.todo \in Commands
  BY <1>2 DEF RunRecords
<1> HIDE DEF y
<1> DEFINE b == BeforeRetry(x)
<1>6. AtWork(b, w) /\ b.at = x.at /\ b.unapplied = x.unapplied
  <2>1. CASE x.todo = "beat" /\ x.again
    <3>1. b = Noted(x, x.version, x.version, x.again, x.todo)
      BY <1>2, <2>1 DEF RunRecords, Noted, BeforeRetry
    <3>2. x.version <= w.version[SceneOf]
      BY <1>2, <1>3, <2>1 DEF RecordInv
    <3> HIDE DEF b
    <3>3. AtWork(b, w) /\ b.at = x.at /\ b.unapplied = x.unapplied
      BY <1>2, <1>4, <1>5, <3>1, <3>2, RecordSet
    <3> QED BY <3>3 DEF b
  <2>2. CASE ~(x.todo = "beat" /\ x.again)
    BY <1>4, <2>2 DEF BeforeRetry
  <2> QED BY <2>1, <2>2
<1>7. CASE \/ a.verdict = "refused"
           \/ x.todo = "beat" /\ a.verdict = "conflict" /\ x.again
  <2>1. y = AfterRefusal(b, s)
    <3>1. CASE a.verdict = "refused"
      BY <1>1, <3>1 DEF y, AfterAnswer, Answers
    <3>2. CASE x.todo = "beat" /\ a.verdict = "conflict" /\ x.again
      BY <3>2 DEF y, AfterAnswer
    <3> QED BY <1>7, <3>1, <3>2
  <2>2. s.kind \in {"figure", "piece", "outfit", "beat"}
    BY <1>1, <1>7 DEF Answers
  <2> HIDE DEF b
  <2>3. Passed(b, b.at, mapping) /\ s = Plan[b.at]
    BY <1>2, <1>3, <1>6 DEF Passed
  <2>4. GoesOn(y, b, w, mapping) /\ y.todo # "beat"
    BY <1>2, <1>6, <2>1, <2>2, <2>3, RefusalKeeps
  <2> QED BY <1>6, <2>4 DEF GoesOn, y
<1>8. CASE x.todo = "beat" /\ a.verdict = "ok"
  <2>0. a.version <= w.version[SceneOf] /\ s.kind = "beat" /\ a.version > 0 /\ InScene(w, s.o)
    BY <1>1, <1>8 DEF Answers
  <2>1. y = [x EXCEPT !.scene = a.version, !.version = a.version, !.todo = "confirm"]
    BY <1>8 DEF y, AfterAnswer
  <2>2. y = Noted(x, a.version, a.version, x.again, "confirm")
    BY <1>2, <2>1 DEF RunRecords, Noted
  <2>3. /\ AtWork(y, w) /\ y.at = x.at /\ y.unapplied = x.unapplied /\ y.todo = "confirm"
        /\ y.version = a.version
    BY <1>2, <1>4, <1>5, <2>0, <2>2, RecordSet
  <2>4. StreamOf(s) = SceneOf /\ "confirm" \in TodosOf(s.kind)
    BY <2>0 DEF StreamOf, TodosOf
  <2>5. GoesOn(y, x, w, mapping)
    BY <1>2, <1>3, <2>0, <2>3, <2>4, AtWorkGoesOn DEF Passed
  <2> QED BY <2>3, <2>5 DEF y
<1>9. CASE x.todo = "assign" /\ a.verdict # "refused"
  <2> DEFINE z == [x EXCEPT !.scene = a.version]
  <2>0. a.version <= w.version[SceneOf] /\ s.kind = "assign" /\ x.at = 4
    <3>1. s.kind = "assign"
      BY <1>2, <1>3, <1>9 DEF TodosOf, AllKinds
    <3> QED BY <1>1, <1>2, <1>9, <3>1, KindsOfPlan DEF Answers
  <2>1. z = Noted(x, a.version, x.version, x.again, x.todo)
    BY <1>2 DEF RunRecords, Noted
  <2>2. y = Advance(z, 1)
    BY <1>9 DEF y, AfterAnswer
  <2> HIDE DEF z
  <2>3. AtWork(z, w) /\ z.at = x.at /\ z.unapplied = x.unapplied
    BY <1>2, <1>4, <1>5, <2>0, <2>1, RecordSet
  <2>4. Passed(z, z.at + 1, mapping)
    BY <2>0, <2>3, ApplyConstants DEF Passed, BeatAt
  <2>5. ~(z.at + 1 > PlanLength) /\ z.at + 1 # 4
    BY <2>0, <2>3, PlanLengthNat
  <2>6. /\ y \in RunRecords /\ RecordInv(y, w, mapping)
        /\ y.phase \in {"working", "ending"} /\ y.todo # "beat"
        /\ y.unapplied = z.unapplied /\ ~y.late
    BY <1>2, <2>2, <2>3, <2>4, <2>5, AdvanceKeeps
  <2>7. GoesOn(y, x, w, mapping)
    BY <2>3, <2>6 DEF GoesOn
  <2> QED BY <2>6, <2>7 DEF y
<1>10. CASE x.todo = "schedule" /\ a.verdict # "refused"
  <2>0. /\ a.version <= w.version[SceneOf] /\ s.kind = "shoot"
        /\ Greater(x.scene, a.version) \in Nat /\ Greater(x.scene, a.version) <= w.version[SceneOf]
    <3>1. s.kind = "shoot"
      BY <1>2, <1>3, <1>10 DEF TodosOf, AllKinds
    <3>2. a.version <= w.version[SceneOf]
      BY <1>1, <1>10 DEF Answers
    <3> QED BY <1>2, <1>3, <3>1, <3>2 DEF Greater
  <2>1. y = [x EXCEPT !.scene = Greater(x.scene, a.version), !.todo = "create"]
    BY <1>2, <1>10 DEF y, AfterAnswer, RunRecords
  <2>2. y = Noted(x, Greater(x.scene, a.version), x.version, x.again, "create")
    BY <1>2, <2>1 DEF RunRecords, Noted
  <2>3. AtWork(y, w) /\ y.at = x.at /\ y.unapplied = x.unapplied /\ y.todo = "create"
    <3>1. "create" \in Commands \cup {"find", "confirm"}
      BY DEF Commands
    <3> QED BY <1>2, <1>4, <1>5, <2>0, <2>2, <3>1, RecordSet
  <2>4. "create" \in TodosOf(s.kind)
    BY <2>0 DEF TodosOf
  <2>5. GoesOn(y, x, w, mapping)
    BY <1>2, <1>3, <2>3, <2>4, AtWorkGoesOn DEF Passed
  <2> QED BY <2>3, <2>5 DEF y
<1>11. CASE x.todo = "category" /\ a.verdict = "conflict"
  <2> DEFINE z == [x EXCEPT !.version = a.version]
             t == PieceFrom(a.version)
  <2>0. s.kind = "piece" /\ t \in {"create", "category", "notes", "advance"}
    BY <1>2, <1>3, <1>11 DEF TodosOf, AllKinds, PieceFrom
  <2>1. z = Noted(x, x.scene, a.version, x.again, x.todo)
    BY <1>2 DEF RunRecords, Noted
  <2>2. y = Then(z, t)
    BY <1>11 DEF y, AfterAnswer
  <2> HIDE DEF z, t
  <2>3. AtWork(z, w) /\ z.at = x.at /\ z.unapplied = x.unapplied /\ z.scene = x.scene
    BY <1>2, <1>3, <1>4, <1>5, <2>0, <2>1, RecordSet
  <2>4. CASE t = "advance"
    <3>1. y = Advance(z, 1)
      BY <2>2, <2>4 DEF Then
    <3>2. Passed(z, z.at + 1, mapping) /\ ~(z.at + 1 > PlanLength) /\ z.at + 1 # 4
      <4>1. s.o \in 1..Outfits /\ z.at = 3 * s.o + 2
        BY <1>2, <2>0, <2>3, KindsOfPlan
      <4>2. \A o \in 1..Outfits : z.at + 1 > BeatAt(o) => z.at > BeatAt(o)
        BY <4>1, ApplyConstants DEF BeatAt
      <4>3. ~(z.at + 1 > PlanLength) /\ z.at + 1 # 4
        BY <4>1, ApplyConstants DEF PlanLength
      <4> QED BY <1>3, <2>3, <4>2, <4>3 DEF Passed
    <3>3. /\ y \in RunRecords /\ RecordInv(y, w, mapping)
          /\ y.phase \in {"working", "ending"} /\ y.todo # "beat"
          /\ y.unapplied = z.unapplied /\ ~y.late
      BY <1>2, <2>3, <3>1, <3>2, AdvanceKeeps
    <3>4. GoesOn(y, x, w, mapping)
      BY <2>3, <3>3 DEF GoesOn
    <3> QED BY <3>3, <3>4 DEF y
  <2>5. CASE t # "advance"
    <3>1. y = [z EXCEPT !.todo = t] /\ t \in {"create", "category", "notes"}
      BY <2>0, <2>2, <2>5 DEF Then
    <3>2. t \in Commands /\ t \in TodosOf(s.kind) /\ t \notin {"confirm", "beat", "find"}
      BY <2>0, <3>1 DEF Commands, TodosOf
    <3>3. AtWork(y, w) /\ y.at = z.at /\ y.unapplied = z.unapplied /\ y.todo = t
      <4>1. z \in RunRecords
        BY <2>3 DEF AtWork
      <4>2. y \in RunRecords
        BY <3>1, <3>2, <4>1 DEF RunRecords
      <4>3. /\ y.at = z.at /\ y.unapplied = z.unapplied /\ y.todo = t /\ y.phase = z.phase
            /\ y.clear = z.clear /\ y.late = z.late /\ y.scene = z.scene
        BY <3>1, <4>1 DEF RunRecords
      <4> QED BY <2>3, <4>2, <4>3 DEF AtWork
    <3>4. GoesOn(y, x, w, mapping)
      BY <1>2, <1>3, <2>3, <3>2, <3>3, AtWorkGoesOn DEF Passed
    <3> QED BY <3>2, <3>3, <3>4 DEF y
  <2> QED BY <2>4, <2>5
<1>12. CASE /\ a.verdict # "refused" /\ x.todo \in {"create", "category", "notes"}
            /\ ~(x.todo = "category" /\ a.verdict = "conflict")
  <2>0. s \in Aggregates /\ a.version <= w.version[s]
    BY <1>1, <1>12 DEF Answers
  <2>1. y = [x EXCEPT !.version = a.version, !.todo = "confirm"]
    BY <1>12 DEF y, AfterAnswer
  <2>2. y = Noted(x, x.scene, a.version, x.again, "confirm")
    BY <1>2, <2>1 DEF RunRecords, Noted
  <2>3. /\ AtWork(y, w) /\ y.at = x.at /\ y.unapplied = x.unapplied /\ y.todo = "confirm"
        /\ y.version = a.version
    BY <1>2, <1>3, <1>4, <1>5, <2>2, RecordSet
  <2>4. StreamOf(s) = s /\ s.kind # "beat" /\ s.kind # "assign"
    BY <2>0 DEF StreamOf, Aggregates, Keys
  <2>5. "confirm" \in TodosOf(s.kind)
    BY <1>2, <2>4 DEF TodosOf, AllKinds
  <2>6. GoesOn(y, x, w, mapping)
    BY <1>2, <1>3, <2>0, <2>3, <2>4, <2>5, AtWorkGoesOn DEF Passed
  <2> QED BY <2>3, <2>6 DEF y
<1>13. a.verdict \in {"ok", "conflict", "refused"}
  BY <1>1 DEF Answers
<1>14. CASE x.todo = "beat" /\ a.verdict = "conflict" /\ ~x.again
  <2>0. a.version <= w.version[SceneOf] /\ s.kind = "beat"
    BY <1>1, <1>14 DEF Answers
  <2>1. y = [x EXCEPT !.version = x.scene, !.scene = a.version, !.again = TRUE]
    BY <1>14 DEF y, AfterAnswer
  <2> DEFINE yes == TRUE
  <2>2. y = Noted(x, a.version, x.scene, yes, x.todo) /\ yes \in BOOLEAN
    BY <1>2, <2>1 DEF RunRecords, Noted
  <2> HIDE DEF yes
  <2>3. /\ AtWork(y, w) /\ y.at = x.at /\ y.unapplied = x.unapplied /\ y.todo = x.todo
        /\ y.version = x.scene
    BY <1>2, <1>4, <1>5, <2>0, <2>2, RecordSet
  <2>4. GoesOn(y, x, w, mapping)
    BY <1>2, <1>3, <1>14, <2>3, AtWorkGoesOn DEF Passed
  <2> QED BY <1>14, <2>3, <2>4 DEF y
<1> QED BY <1>5, <1>7, <1>8, <1>9, <1>10, <1>11, <1>12, <1>13, <1>14 DEF Commands

LEMMA ConfirmKeeps ==
  ASSUME TypeOK, ConfirmedIsReal, RunInv, NEW r \in Runs, Confirm(r)
  PROVE  /\ mapping' \in Maps /\ RowsGrow(mapping, mapping') /\ Confirmed(mapping', world)
         /\ \E y : /\ run' = [run EXCEPT ![r] = y]
                   /\ GoesOn(y, run[r], world, mapping') /\ y.todo # "beat"
<1> DEFINE s == At(r)
           x == run[r]
           n == Greater(mapping[s], x.version)
           next == CASE s.kind = "piece" -> PieceFrom(x.version)
                     [] s.kind = "outfit" /\ x.pending -> "notes"
                     [] OTHER -> "advance"
           scene == IF s.kind = "scene" THEN x.version ELSE x.scene
           z == [x EXCEPT !.pending = FALSE, !.scene = scene]
           y == Then(z, next)
<1>0. /\ x \in RunRecords /\ x.at \in 1..PlanLength /\ s = Plan[x.at] /\ s.kind \in AllKinds
      /\ world \in Worlds /\ mapping \in Maps /\ x.version \in Nat
      /\ x.scene \in Nat /\ world.version[SceneOf] \in Nat
  BY AtTypes
<1>1. /\ x.todo = "confirm" /\ x.phase = "working" /\ ~x.clear /\ ~x.late
      /\ RecordInv(x, world, mapping)
  BY WorkingClear DEF Confirm, RunInv
<1>2. s.kind # "assign" /\ s \in Keys /\ StreamOf(s) \in Aggregates
  <2>1. s.kind # "assign"
    BY <1>0, <1>1 DEF RecordInv, TodosOf
  <2> QED BY <1>0, <2>1, AtKey
<1>3. /\ x.version <= world.version[StreamOf(s)]
      /\ s.kind = "beat" => x.version > 0 /\ InScene(world, s.o)
  BY <1>0, <1>1 DEF RecordInv
<1>4. n \in Nat /\ n >= mapping[s] /\ n >= x.version /\ (n = mapping[s] \/ n = x.version)
      /\ mapping[s] \in Int
  BY <1>0, <1>2 DEF Greater, Maps
<1>5. mapping' = [mapping EXCEPT ![s] = n]
  BY <1>0, <1>2 DEF Confirm, Maps
<1>6. run' = [run EXCEPT ![r] = y]
  BY <1>0 DEF Confirm, RunRecords
<1> HIDE DEF n
<1>7. mapping' \in Maps /\ \A k \in Keys : mapping[k] \in Int /\ mapping'[k] \in Int
      /\ mapping'[k] = IF k = s THEN n ELSE mapping[k]
  BY <1>0, <1>2, <1>4, <1>5 DEF Maps
<1>8. RowsGrow(mapping, mapping')
  BY <1>4, <1>7 DEF RowsGrow
<1>9. Confirmed(mapping', world)
  <2> SUFFICES ASSUME NEW k \in Keys, mapping'[k] > 0
               PROVE  /\ mapping'[k] <= world.version[StreamOf(k)]
                      /\ k.kind = "beat" => InScene(world, k.o)
    BY DEF Confirmed
  <2>0. Confirmed(mapping, world)
    BY ConfirmedMeans
  <2>1. CASE k # s \/ n = mapping[s]
    BY <1>7, <2>0, <2>1 DEF Confirmed
  <2>2. CASE k = s /\ n = x.version
    BY <1>3, <1>7, <2>2
  <2> QED BY <1>4, <2>1, <2>2
<1>10. scene \in Nat /\ scene <= world.version[SceneOf]
  <2>1. s.kind = "scene" => StreamOf(s) = SceneOf
    BY <1>0, KindsOfPlan DEF StreamOf
  <2>2. x.scene <= world.version[SceneOf]
    BY <1>1 DEF RecordInv
  <2> QED BY <1>0, <1>3, <2>1, <2>2
<1>11. next \in {"create", "category", "notes", "advance"}
       /\ (next # "advance" => next \in TodosOf(s.kind)) /\ (s.kind = "beat" => next = "advance")
  BY DEF PieceFrom, TodosOf
<1> HIDE DEF scene, next
<1>12. z \in RunRecords
  BY <1>0, <1>10 DEF RunRecords
<1>13. /\ z.phase = "working" /\ z.at = x.at /\ z.todo = "confirm" /\ z.scene = scene
       /\ z.version = x.version /\ z.unapplied = x.unapplied /\ ~z.late /\ ~z.clear
  BY <1>0, <1>1 DEF RunRecords
<1> HIDE DEF z, s, x
<1>14. RecordInv(x, world, mapping')
  BY <1>0, <1>1, <1>7, <1>8, RecordKept, Reflexive
<1>15. RecordInv(z, world, mapping') /\ AtWork(z, world)
  BY <1>10, <1>12, <1>13, <1>14, <1>1 DEF RecordInv, AtWork
<1>16. CASE next = "advance"
  <2>1. y = Advance(z, 1)
    BY <1>16 DEF Then
  <2>2. Passed(z, z.at + 1, mapping')
    <3> SUFFICES ASSUME NEW o \in 1..Outfits, z.at + 1 > BeatAt(o)
                 PROVE  o \in z.unapplied \/ mapping'[Beat(o)] > 0
      BY DEF Passed
    <3>1. z.at > BeatAt(o) \/ z.at = BeatAt(o)
      BY <1>0, <1>13 DEF BeatAt
    <3>2. CASE z.at > BeatAt(o)
      BY <1>15, <3>2 DEF RecordInv
    <3>3. CASE z.at = BeatAt(o)
      <4>1. s = Beat(o) /\ s.kind = "beat"
        BY <1>0, <1>13, <3>3, BeatIsKey
      <4>2. mapping'[Beat(o)] > 0
        BY <1>0, <1>2, <1>3, <1>4, <1>7, <4>1
      <4> QED BY <4>2
    <3> QED BY <3>1, <3>2, <3>3
  <2>3. z.at + 1 > PlanLength => z.at = PlanLength
    BY <1>0, <1>13, PlanLengthNat
  <2>4. z.scene <= world.version[SceneOf]
    BY <1>10, <1>13
  <2>5. y \in RunRecords /\ RecordInv(y, world, mapping') /\ y.phase \in {"working", "ending"}
        /\ y.todo # "beat" /\ y.unapplied = z.unapplied /\ ~y.late
    <3>1. Grows(world, world)
      BY <1>0, Reflexive
    <3> QED BY <1>0, <1>7, <1>15, <2>1, <2>2, <2>3, <2>4, <3>1, AdvanceKeeps
  <2> HIDE DEF y
  <2>6. GoesOn(y, x, world, mapping')
    BY <1>13, <2>5 DEF GoesOn
  <2> QED BY <1>6, <1>7, <1>8, <1>9, <2>5, <2>6 DEF x
<1>17. CASE next # "advance"
  <2>1. y = [z EXCEPT !.todo = next] /\ next \in TodosOf(s.kind) /\ next \in Commands
        /\ next \notin {"beat", "confirm", "find"}
    BY <1>11, <1>17 DEF Then, Commands
  <2>2. y \in RunRecords
    BY <1>12, <2>1 DEF RunRecords
  <2>3. /\ y.phase = "working" /\ y.at = z.at /\ y.todo = next /\ y.scene = z.scene
        /\ y.unapplied = z.unapplied /\ ~y.late /\ ~y.clear /\ y.version = z.version
    BY <1>12, <1>13, <2>1 DEF RunRecords
  <2>4. Plan[y.at] = s
    BY <1>0, <1>13, <2>3
  <2> HIDE DEF y
  <2>5. RecordInv(y, world, mapping')
    BY <1>15, <2>1, <2>3, <2>4 DEF RecordInv
  <2>6. GoesOn(y, x, world, mapping')
    BY <1>13, <2>2, <2>3, <2>5 DEF GoesOn
  <2> QED BY <1>6, <1>7, <1>8, <1>9, <2>1, <2>3, <2>6 DEF x
<1> QED BY <1>16, <1>17
-----------------------------------------------------------------------------
(* The order of the beats *)

LEMMA BeatsKept ==
  ASSUME NEW w \in Worlds, NEW m \in Maps, NEW n \in Maps, BeatsInv(w, m), RowsGrow(m, n)
  PROVE  BeatsInv(w, n)
<1>1. \A o \in 1..Outfits : m[Beat(o)] > 0 => n[Beat(o)] > 0
  <2> TAKE o \in 1..Outfits
  <2>1. Beat(o) \in Keys
    BY BeatIsKey
  <2>2. m[Beat(o)] \in Int /\ n[Beat(o)] \in Int
    BY <2>1 DEF Maps
  <2> QED BY <2>1, <2>2 DEF RowsGrow
<1> QED BY <1>1 DEF BeatsInv

(* A beat that is not behind any that is there goes to the end. *)
LEMMA BeatsAppended ==
  ASSUME NEW w \in Worlds, NEW v \in Worlds, NEW m \in Maps, BeatsInv(w, m), NEW o \in 1..Outfits,
         v.beats = Append(w.beats, o), w.beats # <<>> => w.beats[Len(w.beats)] # o,
         \A i \in DOMAIN w.beats : w.beats[i] <= o,
         \A p \in 1..Outfits : p < o => m[Beat(p)] > 0
  PROVE  BeatsInv(v, m)
<1> DEFINE b == w.beats
           c == v.beats
           L == Len(b)
<1>0. b \in Seq(1..Outfits) /\ Outfits \in Nat /\ c = Append(b, o)
  BY ApplyConstants DEF Worlds
<1>1. /\ L \in Nat /\ DOMAIN b = 1..L /\ DOMAIN c = 1..(L + 1) /\ c[L + 1] = o
      /\ \A i \in 1..L : c[i] = b[i] /\ b[i] \in 1..Outfits
  BY <1>0
<1>2. \A i, j \in 1..L : i < j => b[i] < b[j]
  BY <1>1 DEF BeatsInv
<1>3. \A i \in 1..L : b[i] <= o
  BY <1>1
<1>4. L > 0 => b[L] # o
  BY <1>0
<1> HIDE DEF b, c, L
<1>5. \A i \in 1..L : b[i] < o
  <2> TAKE i \in 1..L
  <2>1. L \in 1..L /\ b[L] \in Int /\ b[i] \in Int /\ o \in Int /\ b[L] < o
    BY <1>0, <1>1, <1>3, <1>4
  <2>2. i = L \/ b[i] < b[L]
    BY <1>1, <1>2, <2>1
  <2> QED BY <2>1, <2>2
<1>6. \A i, j \in 1..(L + 1) : i < j => c[i] < c[j]
  <2> SUFFICES ASSUME NEW i \in 1..(L + 1), NEW j \in 1..(L + 1), i < j PROVE c[i] < c[j]
    OBVIOUS
  <2>1. i \in 1..L /\ (j \in 1..L \/ j = L + 1)
    BY <1>1
  <2> QED BY <1>1, <1>2, <1>5, <2>1
<1>7. \A i \in 1..(L + 1) : \A p \in 1..Outfits : p < c[i] => m[Beat(p)] > 0
  <2> SUFFICES ASSUME NEW i \in 1..(L + 1), NEW p \in 1..Outfits, p < c[i]
               PROVE  m[Beat(p)] > 0
    OBVIOUS
  <2>1. CASE i \in 1..L
    BY <1>1, <2>1 DEF BeatsInv, b, c
  <2>2. CASE i = L + 1
    BY <1>1, <2>2
  <2> QED BY <1>1, <2>1, <2>2
<1> QED BY <1>1, <1>6, <1>7 DEF BeatsInv, c

LEMMA SendFresh ==
  ASSUME NEW w \in Worlds, NEW m \in Maps, BeatsInv(w, m), NEW x \in RunRecords,
         x.todo = "beat" => Plan[x.at].kind = "beat" /\ m[Plan[x.at]] <= 0
  PROVE  SendInv(x, w, m)
<1> SUFFICES ASSUME x.todo = "beat"
             PROVE  /\ m[Plan[x.at]] <= 0
                    /\ \A i \in DOMAIN w.beats : w.beats[i] <= Plan[x.at].o
  BY DEF SendInv
<1>1. x.at \in 1..PlanLength /\ w.beats \in Seq(1..Outfits) /\ Outfits \in Nat
  BY ApplyConstants DEF RunRecords, Worlds
<1>2. PICK o \in 1..Outfits : o = Plan[x.at].o /\ Plan[x.at] = Beat(o) /\ Beat(o) \in Keys
  BY <1>1, KindsOfPlan, BeatIsKey DEF Beat
<1>3. m[Beat(o)] \in Int /\ m[Beat(o)] <= 0
  BY <1>2 DEF Maps
<1>4. \A i \in DOMAIN w.beats : w.beats[i] <= o
  <2> TAKE i \in DOMAIN w.beats
  <2>1. w.beats[i] \in 1..Outfits
    BY <1>1
  <2>2. ~(o < w.beats[i])
    BY <1>3 DEF BeatsInv
  <2> QED BY <2>1, <2>2
<1> QED BY <1>2, <1>3, <1>4

LEMMA SendKept ==
  ASSUME NEW x \in RunRecords, NEW w \in Worlds, NEW v \in Worlds, NEW m \in Maps, NEW n \in Maps,
         RecordInv(x, w, m), SendInv(x, w, m), Grows(w, v),
         v.version[SceneOf] = w.version[SceneOf] => v.beats = w.beats,
         x.todo = "beat" /\ x.phase = "working" /\ m[Plan[x.at]] <= 0 => n[Plan[x.at]] <= 0
  PROVE  SendInv(x, v, n)
<1> SUFFICES ASSUME x.todo = "beat" PROVE SendInv(x, v, n)
  BY DEF SendInv
<1>1. w.version[SceneOf] \in Nat /\ v.version[SceneOf] \in Nat /\ x.scene \in Nat
  BY SceneIsAggregate DEF Worlds, RunRecords
<1>2. w.version[SceneOf] <= v.version[SceneOf] /\ x.scene <= w.version[SceneOf]
  BY SceneIsAggregate DEF Grows, RecordInv
<1>3. x.scene = v.version[SceneOf] => x.scene = w.version[SceneOf] /\ v.beats = w.beats
  BY <1>1, <1>2
<1> QED BY <1>3 DEF SendInv

(* A command of a run that is at work, or was when it was sent, keeps the order. *)
LEMMA CommandOrder ==
  ASSUME TypeOK, RunInv, SceneInv, NEW r \in Runs, run[r].todo \in Commands
  PROVE  LET w == Execute(world, r).world
         IN  /\ w \in Worlds /\ Grows(world, w)
             /\ w.version[SceneOf] = world.version[SceneOf] => w.beats = world.beats
             /\ w.beats # <<>> => w.version[SceneOf] > 0
             /\ (Working(r) \/ run[r].late) /\ run[r].unapplied = {}
                  /\ BeatsInv(world, mapping) /\ SendInv(run[r], world, mapping)
                => BeatsInv(w, mapping)
<1> DEFINE w == Execute(world, r).world
           x == run[r]
           s == At(r)
<1>0. Answers(Execute(world, r), x, s)
  BY ExecuteOK
<1>1. /\ w \in Worlds /\ Grows(world, w)
      /\ \/ w.beats = world.beats
         \/ /\ x.todo = "beat" /\ world.version[SceneOf] = x.scene
            /\ w.beats = Append(world.beats, s.o)
            /\ w.version[SceneOf] = x.scene + 1
            /\ world.beats # <<>> => world.beats[Len(world.beats)] # s.o
  BY <1>0 DEF Answers
<1>2. x.todo = "beat" => s.kind = "beat" /\ s.o \in 1..Outfits
  BY <1>0 DEF Answers
<1>3. /\ x \in RunRecords /\ x.at \in 1..PlanLength /\ s = Plan[x.at] /\ x.scene \in Nat
      /\ world \in Worlds /\ mapping \in Maps /\ world.version[SceneOf] \in Nat
      /\ w.version[SceneOf] \in Nat /\ world.version[SceneOf] <= w.version[SceneOf]
  BY <1>1, AtTypes, SceneIsAggregate DEF Worlds, Grows
<1> HIDE DEF w, x, s
<1>4. w.version[SceneOf] = world.version[SceneOf] => w.beats = world.beats
  BY <1>1, <1>3
<1>5. w.beats # <<>> => w.version[SceneOf] > 0
  BY <1>1, <1>3 DEF SceneInv
<1>6. ASSUME x.phase = "working" \/ x.late, x.unapplied = {},
             BeatsInv(world, mapping), SendInv(x, world, mapping)
      PROVE  BeatsInv(w, mapping)
  <2>1. CASE w.beats = world.beats
    BY <1>6, <2>1 DEF BeatsInv
  <2>2. CASE /\ x.todo = "beat" /\ world.version[SceneOf] = x.scene
             /\ w.beats = Append(world.beats, s.o)
             /\ world.beats # <<>> => world.beats[Len(world.beats)] # s.o
    <3>1. \A i \in DOMAIN world.beats : world.beats[i] <= s.o
      BY <1>3, <1>6, <2>2 DEF SendInv
    <3>2. x.at = BeatAt(s.o) /\ s.o \in 1..Outfits
      BY <1>2, <1>3, <2>2, KindsOfPlan
    <3>3. \A p \in 1..Outfits : p < s.o => mapping[Beat(p)] > 0
      <4> SUFFICES ASSUME NEW p \in 1..Outfits, p < s.o PROVE mapping[Beat(p)] > 0
        OBVIOUS
      <4>1. x.at > BeatAt(p)
        BY <3>2, ApplyConstants DEF BeatAt
      <4> QED BY <1>6, <4>1 DEF RunInv, RecordInv, x
    <3> QED BY <1>1, <1>3, <1>6, <2>2, <3>1, <3>2, <3>3, BeatsAppended
  <2> QED BY <1>1, <2>1, <2>2
<1> QED BY <1>1, <1>4, <1>5, <1>6 DEF w, x, Working
-----------------------------------------------------------------------------
(* Steps *)

Slots == [owner : Runs \cup {Nobody}, stale : BOOLEAN, stolen : BOOLEAN]

(* The invariant of the next state, in terms of what it may be compared to. *)
LEMMA NextInv ==
  ASSUME slot' \in Slots, mapping' \in Maps, world' \in Worlds, run' \in [Runs -> RunRecords],
         refused' \in {"nothing", "figure", "piece", "outfit"},
         Confirmed(mapping', world'), world'.beats # <<>> => world'.version[SceneOf] > 0,
         \A q \in Runs : RecordInv(run'[q], world', mapping'),
         ~slot'.stolen => \A q \in Runs : run'[q].phase \in {"working", "ending"} => slot'.owner = q,
         ~slot'.stolen /\ (\A q \in Runs : run'[q].unapplied = {}) =>
           BeatsInv(world', mapping') /\ \A q \in Runs : SendInv(run'[q], world', mapping')
  PROVE  ApplyInv'
<1>1. TypeOK'
  BY DEF TypeOK, Slots, Maps
<1>2. ConfirmedIsReal'
  BY DEF ConfirmedIsReal, Confirmed, InScene
<1>3. RunInv'
  BY DEF RunInv
<1>4. SceneInv' /\ SlotInv'
  BY DEF SceneInv, SlotInv
<1>5. OrderInv'
  BY DEF OrderInv, Orderly
<1> QED BY <1>1, <1>2, <1>3, <1>4, <1>5 DEF ApplyInv

LEMMA InvParts ==
  ASSUME ApplyInv
  PROVE  /\ TypeOK /\ ConfirmedIsReal /\ RunInv /\ SceneInv /\ SlotInv
         /\ slot \in Slots /\ slot.stolen \in BOOLEAN /\ mapping \in Maps /\ world \in Worlds
         /\ run \in [Runs -> RunRecords] /\ refused \in {"nothing", "figure", "piece", "outfit"}
         /\ Confirmed(mapping, world)
         /\ \A q \in Runs : run[q] \in RunRecords /\ RecordInv(run[q], world, mapping)
         /\ ~slot.stolen => \A q \in Runs : run[q].phase \in {"working", "ending"} => slot.owner = q
         /\ ~slot.stolen /\ (\A q \in Runs : run[q].unapplied = {}) =>
              BeatsInv(world, mapping) /\ \A q \in Runs : SendInv(run[q], world, mapping)
<1>1. TypeOK /\ ConfirmedIsReal /\ RunInv /\ SceneInv /\ SlotInv /\ OrderInv
  BY DEF ApplyInv
<1>2. slot \in Slots /\ mapping \in Maps /\ world \in Worlds /\ run \in [Runs -> RunRecords]
      /\ refused \in {"nothing", "figure", "piece", "outfit"}
  BY <1>1 DEF TypeOK, Slots, Maps
<1>3. slot.stolen \in BOOLEAN
  BY <1>2 DEF Slots
<1>4. Confirmed(mapping, world)
  BY <1>1, ConfirmedMeans
<1>5. \A q \in Runs : run[q] \in RunRecords /\ RecordInv(run[q], world, mapping)
  BY <1>1, <1>2 DEF RunInv
<1>6. ~slot.stolen => \A q \in Runs : run[q].phase \in {"working", "ending"} => slot.owner = q
  BY <1>1 DEF SlotInv
<1>7. ~slot.stolen /\ (\A q \in Runs : run[q].unapplied = {}) =>
        BeatsInv(world, mapping) /\ \A q \in Runs : SendInv(run[q], world, mapping)
  BY <1>1 DEF OrderInv, Orderly
<1> QED BY <1>1, <1>2, <1>3, <1>4, <1>5, <1>6, <1>7

(* A step of one run *)
LEMMA OneRun ==
  ASSUME ApplyInv, NEW r \in Runs, NEW y \in RunRecords, run' = [run EXCEPT ![r] = y],
         run[r].unapplied \subseteq y.unapplied,
         world' \in Worlds, mapping' \in Maps, Grows(world, world'), RowsGrow(mapping, mapping'),
         Confirmed(mapping', world'), RecordInv(y, world', mapping'),
         world'.beats # <<>> => world'.version[SceneOf] > 0,
         world'.version[SceneOf] = world.version[SceneOf] => world'.beats = world.beats,
         slot' \in Slots, slot.stolen => slot'.stolen, refused' = refused,
         ~slot'.stolen => \A q \in Runs : run'[q].phase \in {"working", "ending"} => slot'.owner = q,
         ~slot.stolen /\ run[r].unapplied = {}
           /\ BeatsInv(world, mapping) /\ SendInv(run[r], world, mapping) =>
           BeatsInv(world', mapping') /\ (y.unapplied = {} => SendInv(y, world', mapping')),
         ~slot.stolen => \A q \in Runs \ {r} :
           run[q].todo = "beat" /\ run[q].phase = "working" /\ mapping[Plan[run[q].at]] <= 0 =>
             mapping'[Plan[run[q].at]] <= 0
  PROVE  ApplyInv'
<1>1. /\ run \in [Runs -> RunRecords] /\ mapping \in Maps /\ world \in Worlds
      /\ \A q \in Runs : run[q] \in RunRecords /\ RecordInv(run[q], world, mapping)
      /\ refused \in {"nothing", "figure", "piece", "outfit"}
      /\ ~slot.stolen /\ (\A q \in Runs : run[q].unapplied = {}) =>
           BeatsInv(world, mapping) /\ \A q \in Runs : SendInv(run[q], world, mapping)
  BY InvParts
<1>2. run' \in [Runs -> RunRecords] /\ \A q \in Runs : run'[q] = IF q = r THEN y ELSE run[q]
  BY <1>1
<1>3. \A q \in Runs : RecordInv(run'[q], world', mapping')
  <2> TAKE q \in Runs
  <2>1. CASE q = r
    BY <1>2, <2>1
  <2>2. CASE q # r
    <3>1. RecordInv(run[q], world', mapping')
      BY <1>1, RecordKept
    <3> QED BY <1>2, <2>2, <3>1
  <2> QED BY <2>1, <2>2
<1>4. ASSUME ~slot'.stolen, \A q \in Runs : run'[q].unapplied = {}
      PROVE  BeatsInv(world', mapping') /\ \A q \in Runs : SendInv(run'[q], world', mapping')
  <2>1. \A q \in Runs : run[q].unapplied = {}
    <3> TAKE q \in Runs
    <3>1. run'[q].unapplied = {}
      BY <1>4
    <3> QED BY <1>2, <3>1
  <2>2. ~slot.stolen /\ y.unapplied = {}
    BY <1>2, <1>4
  <2>3. BeatsInv(world, mapping) /\ \A q \in Runs : SendInv(run[q], world, mapping)
    BY <1>1, <2>1, <2>2
  <2>4. BeatsInv(world', mapping') /\ SendInv(y, world', mapping')
    BY <2>1, <2>2, <2>3
  <2>5. ASSUME NEW q \in Runs, q # r PROVE SendInv(run[q], world', mapping')
    <3>1. run[q] \in RunRecords /\ RecordInv(run[q], world, mapping) /\ SendInv(run[q], world, mapping)
      BY <1>1, <2>3
    <3>2. run[q].todo = "beat" /\ run[q].phase = "working" /\ mapping[Plan[run[q].at]] <= 0 =>
            mapping'[Plan[run[q].at]] <= 0
      BY <2>2, <2>5
    <3> QED BY <1>1, <3>1, <3>2, SendKept
  <2> QED BY <1>2, <2>4, <2>5
<1> QED BY <1>1, <1>2, <1>3, <1>4, NextInv
(* The slot is let go, or left as it is, by a run that is not at work then. *)
LEMMA SlotKept ==
  ASSUME ApplyInv, NEW r \in Runs, NEW y, run' = [run EXCEPT ![r] = y],
         slot' = slot \/ slot' = Cleared(r),
         y.phase \in {"working", "ending"} => slot' = slot /\ run[r].phase \in {"working", "ending"}
  PROVE  /\ slot' \in Slots /\ slot'.stolen = slot.stolen
         /\ ~slot'.stolen => \A q \in Runs : run'[q].phase \in {"working", "ending"} => slot'.owner = q
<1>1. /\ slot \in Slots /\ run \in [Runs -> RunRecords]
      /\ ~slot.stolen => \A q \in Runs : run[q].phase \in {"working", "ending"} => slot.owner = q
  BY InvParts
<1>2. slot' \in Slots /\ slot'.stolen = slot.stolen
      /\ (slot'.owner = slot.owner \/ (slot.owner = r /\ slot' # slot))
  <2>1. CASE slot' = slot
    BY <1>1, <2>1
  <2>2. CASE slot' = Cleared(r) /\ slot' # slot
    <3>1. slot.owner = r /\ slot' = [slot EXCEPT !.owner = Nobody, !.stale = FALSE]
      BY <2>2 DEF Cleared
    <3> QED BY <1>1, <2>2, <3>1 DEF Slots
  <2> QED BY <2>1, <2>2
<1>3. \A q \in Runs : run'[q] = IF q = r THEN y ELSE run[q]
  BY <1>1
<1>4. ASSUME ~slot'.stolen, NEW q \in Runs, run'[q].phase \in {"working", "ending"}
      PROVE  slot'.owner = q
  <2>1. CASE q = r
    BY <1>1, <1>2, <1>3, <1>4, <2>1
  <2>2. CASE q # r
    <3>1. slot.owner = q
      BY <1>1, <1>2, <1>3, <1>4, <2>2
    <3> QED BY <1>2, <2>2, <3>1
  <2> QED BY <2>1, <2>2
<1> QED BY <1>2, <1>4

(* A step that changes only how a run stands. *)
LEMMA PhaseStep ==
  ASSUME ApplyInv, NEW r \in Runs, NEW phase \in Phases, NEW clear \in BOOLEAN, NEW late \in BOOLEAN,
         run' = [run EXCEPT ![r] = [run[r] EXCEPT !.phase = phase, !.clear = clear, !.late = late]],
         world' = world, mapping' = mapping, refused' = refused,
         slot' \in Slots, slot.stolen => slot'.stolen,
         ~slot'.stolen => \A q \in Runs : run'[q].phase \in {"working", "ending"} => slot'.owner = q,
         phase \in {"ending", "done"} => run[r].at = PlanLength,
         clear => phase \in {"failed", "done"},
         late => phase = "failed" /\ run[r].todo \in Commands,
         phase \in {"new", "refused"} => run[r].todo = "find",
         run[r].todo = "beat" =>
           (phase = "working" \/ late => run[r].phase = "working" \/ (late /\ run[r].late))
  PROVE  ApplyInv'
<1> DEFINE x == run[r]
           y == [run[r] EXCEPT !.phase = phase, !.clear = clear, !.late = late]
<1>1. /\ x \in RunRecords /\ RecordInv(x, world, mapping) /\ world \in Worlds /\ mapping \in Maps
      /\ Confirmed(mapping, world) /\ SceneInv /\ run \in [Runs -> RunRecords]
  BY InvParts
<1>2. y \in RunRecords
  BY <1>1 DEF RunRecords
<1>3. /\ y.phase = phase /\ y.clear = clear /\ y.late = late /\ y.at = x.at /\ y.todo = x.todo
      /\ y.version = x.version /\ y.scene = x.scene /\ y.unapplied = x.unapplied
      /\ y.again = x.again
  BY <1>1 DEF RunRecords
<1> HIDE DEF x, y
<1>4. RecordInv(y, world, mapping)
  BY <1>1, <1>3 DEF RecordInv, x
<1>5. ASSUME SendInv(x, world, mapping) PROVE SendInv(y, world, mapping)
  BY <1>3, <1>5 DEF SendInv, x
<1>6. Grows(world, world') /\ RowsGrow(mapping, mapping')
  BY <1>1, Reflexive
<1>7. world'.beats # <<>> => world'.version[SceneOf] > 0
  BY <1>1 DEF SceneInv
<1>8. run' = [run EXCEPT ![r] = y] /\ run[r].unapplied \subseteq y.unapplied
  BY <1>3 DEF x, y
<1>9. SendInv(run[r], world, mapping) /\ BeatsInv(world, mapping) =>
        BeatsInv(world', mapping') /\ (y.unapplied = {} => SendInv(y, world', mapping'))
  BY <1>5 DEF x
<1> QED BY <1>1, <1>2, <1>4, <1>6, <1>7, <1>8, <1>9, OneRun

LEMMA ClaimStep ==
  ASSUME ApplyInv, NEW r \in Runs, ClaimApplyRun(r) PROVE ApplyInv'
<1> DEFINE phase == IF Claimable THEN "working" ELSE "refused"
<1>1. /\ run[r] \in RunRecords /\ RecordInv(run[r], world, mapping) /\ slot \in Slots
      /\ run \in [Runs -> RunRecords] /\ slot.stolen \in BOOLEAN
      /\ ~slot.stolen => \A q \in Runs : run[q].phase \in {"working", "ending"} => slot.owner = q
  BY InvParts
<1>2. run[r].phase = "new" /\ run[r].todo = "find" /\ ~run[r].clear /\ ~run[r].late
      /\ run[r].clear \in BOOLEAN /\ run[r].late \in BOOLEAN
  BY <1>1 DEF ClaimApplyRun, RecordInv, RunRecords
<1>3. run' = [run EXCEPT ![r] = [run[r] EXCEPT !.phase = phase, !.clear = run[r].clear,
                                               !.late = run[r].late]]
  BY <1>1 DEF ClaimApplyRun, RunRecords
<1>4. world' = world /\ mapping' = mapping /\ refused' = refused
  BY DEF ClaimApplyRun
<1>5. /\ slot' \in Slots /\ (slot.stolen => slot'.stolen)
      /\ ~slot'.stolen => \A q \in Runs : run'[q].phase \in {"working", "ending"} => slot'.owner = q
  <2>0. \A q \in Runs : run'[q].phase = IF q = r THEN phase ELSE run[q].phase
    <3>1. run'[r].phase = phase
      BY <1>1, <1>3 DEF RunRecords
    <3> QED BY <1>1, <1>3, <3>1
  <2>1. CASE Claimable
    <3> DEFINE stolen == slot.stolen \/ OwnerWorks
    <3>1. slot' = [owner |-> r, stale |-> FALSE, stolen |-> stolen]
      BY <2>1 DEF ClaimApplyRun
    <3>2. stolen \in BOOLEAN /\ (slot.stolen => stolen) /\ (~stolen => ~slot.stolen /\ ~OwnerWorks)
      OBVIOUS
    <3> HIDE DEF stolen
    <3>3. slot' \in Slots /\ slot'.owner = r /\ slot'.stolen = stolen
      BY <3>1, <3>2 DEF Slots
    <3>4. ASSUME ~stolen, NEW q \in Runs, q # r PROVE run'[q].phase \notin {"working", "ending"}
      <4>1. run'[q].phase = run[q].phase
        BY <2>0, <3>4
      <4>2. slot.owner = q => run[q].phase \notin {"working", "ending"}
        <5>1. q # Nobody
          BY ApplyConstants
        <5> QED BY <3>2, <3>4, <5>1 DEF OwnerWorks
      <4> QED BY <1>1, <3>2, <3>4, <4>1, <4>2
    <3> QED BY <3>2, <3>3, <3>4
  <2>2. CASE ~Claimable
    <3>1. slot' = slot /\ phase = "refused"
      BY <2>2 DEF ClaimApplyRun
    <3> HIDE DEF phase
    <3> QED BY <1>1, <2>0, <3>1
  <2> QED BY <2>1, <2>2
<1>6. phase \in Phases /\ phase \in {"working", "refused"}
  BY DEF Phases
<1> HIDE DEF phase
<1> QED BY <1>2, <1>3, <1>4, <1>5, <1>6, PhaseStep

LEMMA AskAgainStep ==
  ASSUME ApplyInv, NEW r \in Runs, AskAgain(r) PROVE ApplyInv'
<1>1. /\ run[r] \in RunRecords /\ RecordInv(run[r], world, mapping)
      /\ run \in [Runs -> RunRecords]
  BY InvParts
<1>2. run[r].phase = "refused" /\ run[r].todo = "find" /\ ~run[r].clear /\ ~run[r].late
      /\ run[r].clear \in BOOLEAN /\ run[r].late \in BOOLEAN
  BY <1>1 DEF AskAgain, RecordInv, RunRecords
<1> DEFINE y == [run[r] EXCEPT !.phase = "new", !.clear = run[r].clear, !.late = run[r].late]
<1>3. run' = [run EXCEPT ![r] = y] /\ y.phase = "new"
  BY <1>1 DEF AskAgain, RunRecords
<1>4. world' = world /\ mapping' = mapping /\ refused' = refused /\ slot' = slot
  BY DEF AskAgain
<1>5. /\ slot' \in Slots /\ slot'.stolen = slot.stolen
      /\ ~slot'.stolen => \A q \in Runs : run'[q].phase \in {"working", "ending"} => slot'.owner = q
  <2> HIDE DEF y
  <2> QED BY <1>3, <1>4, SlotKept
<1>6. "new" \in Phases
  BY DEF Phases
<1> QED BY <1>2, <1>3, <1>4, <1>5, <1>6, PhaseStep
(* The slot is heard of or not: the runs and the streams stay as they are. *)
LEMMA StaleStep ==
  ASSUME ApplyInv, NEW stale \in BOOLEAN, slot' = [slot EXCEPT !.stale = stale],
         UNCHANGED <<mapping, world, refused, run>>
  PROVE  ApplyInv'
<1>1. /\ slot \in Slots /\ mapping \in Maps /\ world \in Worlds /\ run \in [Runs -> RunRecords]
      /\ refused \in {"nothing", "figure", "piece", "outfit"}
      /\ Confirmed(mapping, world) /\ SceneInv
      /\ \A q \in Runs : RecordInv(run[q], world, mapping)
      /\ ~slot.stolen => \A q \in Runs : run[q].phase \in {"working", "ending"} => slot.owner = q
      /\ ~slot.stolen /\ (\A q \in Runs : run[q].unapplied = {}) =>
           BeatsInv(world, mapping) /\ \A q \in Runs : SendInv(run[q], world, mapping)
  BY InvParts
<1>2. slot' \in Slots /\ slot'.stolen = slot.stolen /\ slot'.owner = slot.owner
  BY <1>1 DEF Slots
<1>3. mapping' = mapping /\ world' = world /\ refused' = refused /\ run' = run
  OBVIOUS
<1>4. world'.beats # <<>> => world'.version[SceneOf] > 0
  BY <1>1, <1>3 DEF SceneInv
<1>5. ~slot'.stolen => \A q \in Runs : run'[q].phase \in {"working", "ending"} => slot'.owner = q
  BY <1>1, <1>2, <1>3
<1>6. ~slot'.stolen /\ (\A q \in Runs : run'[q].unapplied = {}) =>
           BeatsInv(world', mapping') /\ \A q \in Runs : SendInv(run'[q], world', mapping')
  BY <1>1, <1>2, <1>3
<1> QED BY <1>1, <1>2, <1>3, <1>4, <1>5, <1>6, NextInv

LEMMA ClearStep ==
  ASSUME ApplyInv, NEW r \in Runs, DeferredClear(r) PROVE ApplyInv'
<1>1. /\ run[r] \in RunRecords /\ RecordInv(run[r], world, mapping)
      /\ run \in [Runs -> RunRecords]
  BY InvParts
<1> DEFINE phase == run[r].phase
           y == [run[r] EXCEPT !.phase = phase, !.clear = FALSE, !.late = run[r].late]
<1>2. phase \in {"failed", "done"} /\ phase \in Phases /\ run[r].late \in BOOLEAN
      /\ (run[r].late => phase = "failed" /\ run[r].todo \in Commands)
      /\ (phase \in {"ending", "done"} => run[r].at = PlanLength)
  BY <1>1 DEF DeferredClear, RecordInv, RunRecords
<1>3. run' = [run EXCEPT ![r] = y] /\ y.phase = phase
  BY <1>1 DEF DeferredClear, RunRecords
<1>4. world' = world /\ mapping' = mapping /\ refused' = refused /\ slot' = Cleared(r)
  BY DEF DeferredClear
<1>5. /\ slot' \in Slots /\ slot'.stolen = slot.stolen
      /\ ~slot'.stolen => \A q \in Runs : run'[q].phase \in {"working", "ending"} => slot'.owner = q
  <2> HIDE DEF y
  <2> QED BY <1>2, <1>3, <1>4, SlotKept
<1> HIDE DEF phase
<1> QED BY <1>2, <1>3, <1>4, <1>5, PhaseStep

LEMMA FinishStep ==
  ASSUME ApplyInv, NEW r \in Runs, Finish(r) \/ FinishUncleared(r) PROVE ApplyInv'
<1>1. /\ run[r] \in RunRecords /\ RecordInv(run[r], world, mapping)
      /\ run \in [Runs -> RunRecords]
  BY InvParts
<1>2. PICK clear \in BOOLEAN :
        run' = [run EXCEPT ![r] = [run[r] EXCEPT !.phase = "done", !.clear = clear,
                                                 !.late = run[r].late]]
  <2>1. CASE Finish(r)
    <3>1. run' = [run EXCEPT ![r] = [run[r] EXCEPT !.phase = "done", !.clear = run[r].clear,
                                                   !.late = run[r].late]]
      BY <1>1, <2>1 DEF Finish, RunRecords
    <3>2. run[r].clear \in BOOLEAN
      BY <1>1 DEF RunRecords
    <3> QED BY <3>1, <3>2
  <2>2. CASE FinishUncleared(r)
    <3>1. run' = [run EXCEPT ![r] = [run[r] EXCEPT !.phase = "done", !.clear = TRUE,
                                                   !.late = run[r].late]]
      BY <1>1, <2>2 DEF FinishUncleared, RunRecords
    <3> QED BY <3>1
  <2> QED BY <2>1, <2>2
<1> DEFINE y == [run[r] EXCEPT !.phase = "done", !.clear = clear, !.late = run[r].late]
<1>3. run[r].phase = "ending" /\ run[r].at = PlanLength /\ ~run[r].late /\ run[r].late \in BOOLEAN
  BY <1>1 DEF Finish, FinishUncleared, RecordInv, RunRecords
<1>4. world' = world /\ mapping' = mapping /\ refused' = refused /\ slot' \in {slot, Cleared(r)}
  BY DEF Finish, FinishUncleared
<1>5. y.phase = "done"
  BY <1>1 DEF RunRecords
<1>6. /\ slot' \in Slots /\ slot'.stolen = slot.stolen
      /\ ~slot'.stolen => \A q \in Runs : run'[q].phase \in {"working", "ending"} => slot'.owner = q
  <2>1. run' = [run EXCEPT ![r] = y]
    BY <1>2
  <2> HIDE DEF y
  <2> QED BY <1>4, <1>5, <2>1, SlotKept
<1>7. "done" \in Phases
  BY DEF Phases
<1> QED BY <1>2, <1>3, <1>4, <1>6, <1>7, PhaseStep

LEMMA HangUpStep ==
  ASSUME ApplyInv, NEW r \in Runs, HangUp(r) PROVE ApplyInv'
<1>1. /\ run[r] \in RunRecords /\ RecordInv(run[r], world, mapping)
      /\ run \in [Runs -> RunRecords]
  BY InvParts
<1> DEFINE late == run[r].todo \in Commands
           clear == TRUE
           y == [run[r] EXCEPT !.phase = "failed", !.clear = clear, !.late = late]
<1>2. run' = [run EXCEPT ![r] = y]
  BY <1>1 DEF HangUp, RunRecords
<1>3. run[r].phase = "working" /\ late \in BOOLEAN /\ clear \in BOOLEAN
      /\ (late => run[r].todo \in Commands)
  BY DEF HangUp, Working
<1>4. world' = world /\ mapping' = mapping /\ refused' = refused /\ slot' = slot
  BY DEF HangUp
<1> HIDE DEF late, clear
<1>5. y.phase = "failed"
  BY <1>1 DEF RunRecords
<1>6. /\ slot' \in Slots /\ slot'.stolen = slot.stolen
      /\ ~slot'.stolen => \A q \in Runs : run'[q].phase \in {"working", "ending"} => slot'.owner = q
  <2> HIDE DEF y
  <2> QED BY <1>2, <1>4, <1>5, SlotKept
<1>7. "failed" \in Phases
  BY DEF Phases
<1> QED BY <1>2, <1>3, <1>4, <1>6, <1>7, PhaseStep
LEMMA FindStep ==
  ASSUME ApplyInv, NEW r \in Runs, Find(r) PROVE ApplyInv'
<1>1. /\ TypeOK /\ ConfirmedIsReal /\ RunInv /\ SceneInv /\ mapping \in Maps /\ world \in Worlds
      /\ Confirmed(mapping, world) /\ run[r] \in RunRecords
      /\ \A q \in Runs : run[q] \in RunRecords /\ RecordInv(run[q], world, mapping)
  BY InvParts
<1>2. /\ mapping' \in Maps /\ RowsGrow(mapping, mapping')
      /\ \A k \in Keys : mapping'[k] > 0 => mapping'[k] = mapping[k]
      /\ \A k \in Keys : mapping'[k] <= 0 <=> mapping[k] <= 0
  BY <1>1, FindKeeps
<1>3. PICK y : /\ run' = [run EXCEPT ![r] = y]
               /\ GoesOn(y, run[r], world, mapping')
               /\ y.todo = "beat" => /\ y.at = run[r].at /\ mapping'[Plan[y.at]] <= 0
                                     /\ Plan[y.at].kind = "beat"
  BY <1>1, FindKeeps
<1>4. world' = world /\ slot' = slot /\ refused' = refused /\ run[r].phase = "working"
  BY DEF Find, Working
<1>5. /\ y \in RunRecords /\ RecordInv(y, world, mapping') /\ run[r].unapplied \subseteq y.unapplied
  BY <1>3 DEF GoesOn
<1>6. Confirmed(mapping', world')
  BY <1>1, <1>2, <1>4 DEF Confirmed
<1>7. Grows(world, world') /\ (world'.beats # <<>> => world'.version[SceneOf] > 0)
  BY <1>1, <1>4, Reflexive DEF SceneInv
<1>8. /\ slot' \in Slots /\ slot'.stolen = slot.stolen
      /\ ~slot'.stolen => \A q \in Runs : run'[q].phase \in {"working", "ending"} => slot'.owner = q
  BY <1>3, <1>4, SlotKept
<1>9. ASSUME BeatsInv(world, mapping)
      PROVE  BeatsInv(world', mapping') /\ SendInv(y, world', mapping')
  <2>1. BeatsInv(world, mapping')
    BY <1>1, <1>2, <1>9, BeatsKept
  <2> QED BY <1>1, <1>2, <1>3, <1>4, <1>5, <2>1, SendFresh
<1>10. \A q \in Runs \ {r} :
         run[q].todo = "beat" /\ run[q].phase = "working" /\ mapping[Plan[run[q].at]] <= 0 =>
           mapping'[Plan[run[q].at]] <= 0
  <2> SUFFICES ASSUME NEW q \in Runs, run[q].todo = "beat", mapping[Plan[run[q].at]] <= 0
               PROVE  mapping'[Plan[run[q].at]] <= 0
    OBVIOUS
  <2>1. run[q].at \in 1..PlanLength
    BY <1>1 DEF RunRecords
  <2>2. Plan[run[q].at].kind # "assign"
    BY <1>1 DEF RecordInv, TodosOf
  <2>3. Plan[run[q].at] \in Keys
    BY <2>1, <2>2, AtKey
  <2> QED BY <1>2, <2>3
<1> QED BY <1>1, <1>2, <1>3, <1>4, <1>5, <1>6, <1>7, <1>8, <1>9, <1>10, OneRun

LEMMA ConfirmStep ==
  ASSUME ApplyInv, NEW r \in Runs, Confirm(r) PROVE ApplyInv'
<1>1. /\ TypeOK /\ ConfirmedIsReal /\ RunInv /\ SceneInv /\ mapping \in Maps /\ world \in Worlds
      /\ ~slot.stolen => \A q \in Runs : run[q].phase \in {"working", "ending"} => slot.owner = q
  BY InvParts
<1>2. mapping' \in Maps /\ RowsGrow(mapping, mapping') /\ Confirmed(mapping', world)
  BY <1>1, ConfirmKeeps
<1>3. PICK y : /\ run' = [run EXCEPT ![r] = y]
               /\ GoesOn(y, run[r], world, mapping') /\ y.todo # "beat"
  BY <1>1, ConfirmKeeps
<1>4. world' = world /\ slot' = slot /\ refused' = refused /\ run[r].phase = "working"
  BY DEF Confirm, Working
<1>5. /\ y \in RunRecords /\ RecordInv(y, world, mapping') /\ run[r].unapplied \subseteq y.unapplied
  BY <1>3 DEF GoesOn
<1>6. Grows(world, world') /\ (world'.beats # <<>> => world'.version[SceneOf] > 0)
  BY <1>1, <1>4, Reflexive DEF SceneInv
<1>7. /\ slot' \in Slots /\ slot'.stolen = slot.stolen
      /\ ~slot'.stolen => \A q \in Runs : run'[q].phase \in {"working", "ending"} => slot'.owner = q
  BY <1>3, <1>4, SlotKept
<1>8. ASSUME BeatsInv(world, mapping)
      PROVE  BeatsInv(world', mapping') /\ SendInv(y, world', mapping')
  <2>1. BeatsInv(world, mapping')
    BY <1>1, <1>2, <1>8, BeatsKept
  <2>2. SendInv(y, world', mapping')
    BY <1>3 DEF SendInv
  <2> QED BY <1>4, <2>1, <2>2
<1>9. ~slot.stolen => \A q \in Runs \ {r} : run[q].phase # "working"
  BY <1>1, <1>4
<1> QED BY <1>1, <1>2, <1>3, <1>4, <1>5, <1>6, <1>7, <1>8, <1>9, OneRun

LEMMA SendStep ==
  ASSUME ApplyInv, NEW r \in Runs, Send(r) PROVE ApplyInv'
<1>1. /\ TypeOK /\ ConfirmedIsReal /\ RunInv /\ SceneInv /\ mapping \in Maps /\ world \in Worlds
      /\ Confirmed(mapping, world) /\ run[r] \in RunRecords
      /\ RecordInv(run[r], world, mapping)
  BY InvParts
<1> DEFINE y == AfterAnswer(run[r], At(r), Execute(world, r))
<1>2. /\ Working(r) /\ run[r].todo \in Commands /\ world' = Execute(world, r).world
      /\ run' = [run EXCEPT ![r] = y] /\ slot' = slot /\ mapping' = mapping /\ refused' = refused
      /\ run[r].phase = "working"
  BY DEF Send, Working
<1>3. /\ GoesOn(y, run[r], world', mapping)
      /\ y.todo = "beat" => run[r].todo = "beat" /\ y.at = run[r].at
  BY <1>1, <1>2, AnswerKeeps
<1>4. /\ world' \in Worlds /\ Grows(world, world')
      /\ world'.version[SceneOf] = world.version[SceneOf] => world'.beats = world.beats
      /\ world'.beats # <<>> => world'.version[SceneOf] > 0
      /\ (Working(r) \/ run[r].late) /\ run[r].unapplied = {}
           /\ BeatsInv(world, mapping) /\ SendInv(run[r], world, mapping)
         => BeatsInv(world', mapping)
  BY <1>1, <1>2, CommandOrder
<1> HIDE DEF y
<1>5. y \in RunRecords /\ RecordInv(y, world', mapping') /\ run[r].unapplied \subseteq y.unapplied
      /\ y.phase \in {"working", "ending"}
  BY <1>2, <1>3 DEF GoesOn
<1>6. Confirmed(mapping', world') /\ RowsGrow(mapping, mapping')
  BY <1>1, <1>2, <1>4, ConfirmedKept, Reflexive
<1>7. /\ slot' \in Slots /\ slot'.stolen = slot.stolen
      /\ ~slot'.stolen => \A q \in Runs : run'[q].phase \in {"working", "ending"} => slot'.owner = q
  BY <1>2, SlotKept
<1>8. ASSUME run[r].unapplied = {}, BeatsInv(world, mapping), SendInv(run[r], world, mapping)
      PROVE  BeatsInv(world', mapping') /\ SendInv(y, world', mapping')
  <2>1. BeatsInv(world', mapping)
    BY <1>2, <1>4, <1>8
  <2>2. y.todo = "beat" => Plan[y.at].kind = "beat" /\ mapping[Plan[y.at]] <= 0
    <3> HAVE y.todo = "beat"
    <3>1. run[r].todo = "beat" /\ y.at = run[r].at
      BY <1>3
    <3>2. mapping[Plan[y.at]] <= 0
      BY <1>2, <1>8, <3>1 DEF SendInv
    <3>3. run[r].todo \in TodosOf(Plan[run[r].at].kind) /\ run[r].at \in 1..PlanLength
      BY <1>1 DEF RecordInv, RunRecords
    <3>4. Plan[run[r].at].kind \in AllKinds
      BY <3>3, KindsOfPlan
    <3>5. Plan[run[r].at].kind = "beat"
      BY <3>1, <3>3, <3>4 DEF TodosOf, AllKinds
    <3> QED BY <3>1, <3>2, <3>5
  <2> QED BY <1>1, <1>2, <1>4, <1>5, <2>1, <2>2, SendFresh
<1> QED BY <1>1, <1>2, <1>4, <1>5, <1>6, <1>7, <1>8, OneRun

(* A command whose answer nobody waits for *)
LEMMA LastCommandStep ==
  ASSUME ApplyInv, NEW r \in Runs, run[r].phase = "working" \/ run[r].late, run[r].todo \in Commands,
         world' = Execute(world, r).world, mapping' = mapping, refused' = refused,
         run' = [run EXCEPT ![r] = [run[r] EXCEPT !.phase = "failed", !.clear = run[r].clear,
                                                  !.late = FALSE]],
         slot' = slot \/ slot' = Cleared(r)
  PROVE  ApplyInv'
<1> DEFINE x == run[r]
           y == [run[r] EXCEPT !.phase = "failed", !.clear = run[r].clear, !.late = FALSE]
<1>1. /\ TypeOK /\ ConfirmedIsReal /\ RunInv /\ SceneInv /\ mapping \in Maps /\ world \in Worlds
      /\ Confirmed(mapping, world) /\ x \in RunRecords
      /\ RecordInv(x, world, mapping)
  BY InvParts
<1>2. /\ world' \in Worlds /\ Grows(world, world')
      /\ world'.version[SceneOf] = world.version[SceneOf] => world'.beats = world.beats
      /\ world'.beats # <<>> => world'.version[SceneOf] > 0
      /\ (Working(r) \/ run[r].late) /\ run[r].unapplied = {}
           /\ BeatsInv(world, mapping) /\ SendInv(run[r], world, mapping)
         => BeatsInv(world', mapping)
  BY <1>1, CommandOrder
<1>3. y \in RunRecords
  BY <1>1 DEF RunRecords, Phases
<1>4. /\ y.phase = "failed" /\ y.clear = x.clear /\ ~y.late /\ y.at = x.at /\ y.todo = x.todo
      /\ y.version = x.version /\ y.scene = x.scene /\ y.unapplied = x.unapplied
      /\ y.again = x.again
  BY <1>1 DEF RunRecords
<1>5. run' = [run EXCEPT ![r] = y] /\ run[r].unapplied \subseteq y.unapplied
  BY <1>4
<1> HIDE DEF x, y
<1>6. RecordInv(x, world', mapping') /\ RowsGrow(mapping, mapping') /\ Confirmed(mapping', world')
  BY <1>1, <1>2, RecordKept, Reflexive, ConfirmedKept
<1>7. RecordInv(y, world', mapping')
  BY <1>4, <1>6 DEF RecordInv
<1>8. /\ slot' \in Slots /\ slot'.stolen = slot.stolen
      /\ ~slot'.stolen => \A q \in Runs : run'[q].phase \in {"working", "ending"} => slot'.owner = q
  BY <1>4, <1>5, SlotKept
<1>9. SendInv(y, world', mapping')
  BY <1>4 DEF SendInv
<1> QED BY <1>1, <1>2, <1>3, <1>5, <1>6, <1>7, <1>8, <1>9, OneRun DEF Working

LEMMA OutageStep ==
  ASSUME ApplyInv, NEW r \in Runs, Outage(r) PROVE ApplyInv'
<1>1. /\ TypeOK /\ RunInv /\ run[r] \in RunRecords /\ RecordInv(run[r], world, mapping)
      /\ run \in [Runs -> RunRecords]
  BY InvParts
<1>2. Working(r) /\ mapping' = mapping /\ refused' = refused /\ slot' = Cleared(r)
  BY DEF Outage
<1>3. run[r].phase = "working" /\ ~run[r].clear /\ ~run[r].late
      /\ run[r].clear \in BOOLEAN /\ run[r].late \in BOOLEAN
  BY <1>1, <1>2, WorkingClear DEF RunRecords
<1> DEFINE late == FALSE
           y == [run[r] EXCEPT !.phase = "failed", !.clear = run[r].clear, !.late = late]
<1>4. run' = [run EXCEPT ![r] = y]
  <2>1. run[r].late = FALSE
    BY <1>3
  <2>2. [run[r] EXCEPT !.phase = "failed"] = y
    BY <1>1, <2>1 DEF RunRecords
  <2> QED BY <2>2 DEF Outage
<1>5. CASE world' = world
  <2>1. y.phase = "failed"
    BY <1>1 DEF RunRecords
  <2>2. /\ slot' \in Slots /\ slot'.stolen = slot.stolen
        /\ ~slot'.stolen => \A q \in Runs : run'[q].phase \in {"working", "ending"} => slot'.owner = q
    <3> HIDE DEF y
    <3> QED BY <1>2, <1>4, <2>1, SlotKept
  <2>3. late \in BOOLEAN /\ ~late /\ "failed" \in Phases
    BY DEF Phases
  <2> HIDE DEF late
  <2> QED BY <1>2, <1>3, <1>4, <1>5, <2>2, <2>3, PhaseStep
<1>6. CASE world' # world
  <2>1. run[r].todo \in Commands /\ world' = Execute(world, r).world
    BY <1>6 DEF Outage
  <2> QED BY <1>2, <1>3, <1>4, <2>1, LastCommandStep
<1> QED BY <1>5, <1>6

LEMMA LateStep ==
  ASSUME ApplyInv, NEW r \in Runs, LateCommand(r) PROVE ApplyInv'
<1>1. run[r] \in RunRecords /\ RecordInv(run[r], world, mapping)
  BY InvParts
<1>2. /\ run[r].late /\ mapping' = mapping /\ refused' = refused /\ slot' = slot
      /\ world' = Execute(world, r).world
  BY DEF LateCommand
<1>3. run[r].phase = "failed" /\ run[r].todo \in Commands
  BY <1>1, <1>2 DEF RecordInv
<1>4. run' = [run EXCEPT ![r] = [run[r] EXCEPT !.phase = "failed", !.clear = run[r].clear,
                                               !.late = FALSE]]
  BY <1>1, <1>3 DEF LateCommand, RunRecords
<1> QED BY <1>2, <1>3, <1>4, LastCommandStep
LEMMA CrashStep ==
  ASSUME ApplyInv, Crash PROVE ApplyInv'
<1>1. /\ slot \in Slots /\ mapping \in Maps /\ world \in Worlds /\ run \in [Runs -> RunRecords]
      /\ refused \in {"nothing", "figure", "piece", "outfit"}
      /\ Confirmed(mapping, world) /\ SceneInv
      /\ \A q \in Runs : run[q] \in RunRecords /\ RecordInv(run[q], world, mapping)
      /\ ~slot.stolen => \A q \in Runs : run[q].phase \in {"working", "ending"} => slot.owner = q
      /\ ~slot.stolen /\ (\A q \in Runs : run[q].unapplied = {}) =>
           BeatsInv(world, mapping) /\ \A q \in Runs : SendInv(run[q], world, mapping)
  BY InvParts
<1>2. mapping' = mapping /\ world' = world /\ refused' = refused /\ slot' = slot
  BY DEF Crash
<1>3. ASSUME NEW q \in Runs
      PROVE  /\ run'[q] \in RunRecords /\ ~run'[q].late /\ ~run'[q].clear
             /\ run'[q].at = run[q].at /\ run'[q].todo = run[q].todo
             /\ run'[q].version = run[q].version /\ run'[q].scene = run[q].scene
             /\ run'[q].unapplied = run[q].unapplied /\ run'[q].again = run[q].again
             /\ run'[q].phase = IF run[q].phase \in {"working", "ending"} THEN "failed"
                                ELSE run[q].phase
  <2> DEFINE phase == IF run[q].phase \in {"working", "ending"} THEN "failed" ELSE run[q].phase
  <2>1. run'[q] = [run[q] EXCEPT !.late = FALSE, !.clear = FALSE, !.phase = phase]
    BY <1>1, <1>3 DEF Crash, RunRecords
  <2>2. phase \in Phases /\ run[q] \in RunRecords
    BY <1>1, <1>3 DEF RunRecords, Phases
  <2> HIDE DEF phase
  <2>3. run'[q] \in RunRecords
    BY <2>1, <2>2 DEF RunRecords
  <2>4. /\ ~run'[q].late /\ ~run'[q].clear
        /\ run'[q].at = run[q].at /\ run'[q].todo = run[q].todo
        /\ run'[q].version = run[q].version /\ run'[q].scene = run[q].scene
        /\ run'[q].unapplied = run[q].unapplied /\ run'[q].again = run[q].again /\ run'[q].phase = phase
    BY <2>1, <2>2 DEF RunRecords
  <2> QED BY <2>3, <2>4 DEF phase
<1>4. run' \in [Runs -> RunRecords]
  <2>1. DOMAIN run' = Runs /\ run' = [q \in Runs |-> run'[q]]
    BY DEF Crash
  <2> QED BY <1>3, <2>1
<1>5. \A q \in Runs : RecordInv(run'[q], world', mapping')
  BY <1>1, <1>2, <1>3 DEF RecordInv
<1>6. \A q \in Runs : SendInv(run'[q], world', mapping')
  BY <1>3 DEF SendInv
<1>7. world'.beats # <<>> => world'.version[SceneOf] > 0
  BY <1>1, <1>2 DEF SceneInv
<1>8. ~slot'.stolen => \A q \in Runs : run'[q].phase \in {"working", "ending"} => slot'.owner = q
  BY <1>3
<1>9. ~slot'.stolen /\ (\A q \in Runs : run'[q].unapplied = {}) =>
           BeatsInv(world', mapping') /\ \A q \in Runs : SendInv(run'[q], world', mapping')
  BY <1>1, <1>2, <1>3, <1>6
<1> QED BY <1>1, <1>2, <1>4, <1>5, <1>7, <1>8, <1>9, NextInv

LEMMA EditStep ==
  ASSUME ApplyInv, NEW a \in Aggregates, Edit(a) PROVE ApplyInv'
<1>1. /\ slot \in Slots /\ mapping \in Maps /\ world \in Worlds /\ run \in [Runs -> RunRecords]
      /\ refused \in {"nothing", "figure", "piece", "outfit"}
      /\ Confirmed(mapping, world) /\ SceneInv
      /\ \A q \in Runs : run[q] \in RunRecords /\ RecordInv(run[q], world, mapping)
      /\ ~slot.stolen => \A q \in Runs : run[q].phase \in {"working", "ending"} => slot.owner = q
      /\ ~slot.stolen /\ (\A q \in Runs : run[q].unapplied = {}) =>
           BeatsInv(world, mapping) /\ \A q \in Runs : SendInv(run[q], world, mapping)
  BY InvParts
<1>2. mapping' = mapping /\ run' = run /\ refused' = refused /\ slot' = slot
  BY DEF Edit
<1> DEFINE f == [world.version EXCEPT ![a] = world.version[a] + 1]
<1>3. f \in [Aggregates -> Nat] /\ \A g \in Aggregates : world.version[g] <= f[g]
  BY <1>1 DEF Worlds
<1>4. world' = [world EXCEPT !.version = f]
  BY <1>1 DEF Edit, Worlds
<1> HIDE DEF f
<1>5. world' \in Worlds /\ world'.version = f /\ world'.beats = world.beats
  BY <1>1, <1>3, <1>4 DEF Worlds
<1>6. Grows(world, world') /\ RowsGrow(mapping, mapping)
  BY <1>1, <1>3, <1>5, Reflexive DEF Grows
<1>7. Confirmed(mapping', world')
  BY <1>1, <1>2, <1>5, <1>6, ConfirmedKept
<1>8. \A q \in Runs : RecordInv(run'[q], world', mapping')
  BY <1>1, <1>2, <1>5, <1>6, RecordKept
<1>9. world'.beats # <<>> => world'.version[SceneOf] > 0
  <2>1. world.version[SceneOf] \in Nat /\ f[SceneOf] \in Nat /\ world.version[SceneOf] <= f[SceneOf]
    BY <1>1, <1>3, SceneIsAggregate DEF Worlds
  <2> QED BY <1>1, <1>5, <2>1 DEF SceneInv
<1>10. ASSUME BeatsInv(world, mapping), NEW q \in Runs, SendInv(run[q], world, mapping)
       PROVE  BeatsInv(world', mapping') /\ SendInv(run'[q], world', mapping')
  <2>1. BeatsInv(world', mapping')
    BY <1>2, <1>5, <1>10 DEF BeatsInv
  <2>2. SendInv(run[q], world', mapping)
    BY <1>1, <1>5, <1>6, <1>10, SendKept
  <2> QED BY <1>2, <2>1, <2>2
<1>11. BeatsInv(world, mapping) => BeatsInv(world', mapping')
  BY <1>2, <1>5 DEF BeatsInv
<1>12. ~slot'.stolen /\ (\A q \in Runs : run'[q].unapplied = {}) =>
           BeatsInv(world', mapping') /\ \A q \in Runs : SendInv(run'[q], world', mapping')
  BY <1>1, <1>2, <1>10, <1>11
<1> QED BY <1>1, <1>2, <1>5, <1>7, <1>8, <1>9, <1>12, NextInv

-----------------------------------------------------------------------------
(* The theorems *)

LEMMA ApplyInit == Init => ApplyInv
<1> SUFFICES ASSUME Init PROVE ApplyInv
  OBVIOUS
<1>1. /\ slot = [owner |-> Nobody, stale |-> FALSE, stolen |-> FALSE]
      /\ mapping = [k \in Keys |-> -1]
      /\ world = [version |-> [a \in Aggregates |-> 0], facts |-> {}, beats |-> <<>>]
      /\ refused \in {"nothing", "figure", "piece", "outfit"}
      /\ run = [r \in Runs |-> NewRun]
  BY DEF Init
<1>2. NewRun \in RunRecords
  BY PlanLengthNat DEF NewRun, RunRecords, Phases, Commands
<1>3. world \in Worlds /\ world.beats = <<>> /\ world.version[SceneOf] = 0
  BY <1>1, SceneIsAggregate DEF Worlds
<1>4. TypeOK
  BY <1>1, <1>2, <1>3 DEF TypeOK
<1>5. ConfirmedIsReal
  BY <1>1 DEF ConfirmedIsReal
<1>6. /\ NewRun.at = 1 /\ NewRun.todo = "find" /\ NewRun.scene = 0 /\ NewRun.phase = "new"
      /\ ~NewRun.clear /\ ~NewRun.late /\ ~NewRun.again
  BY DEF NewRun
<1>7. RecordInv(NewRun, world, mapping)
  <2>1. NewRun.todo \in TodosOf(Plan[NewRun.at].kind)
    BY <1>6, PlanEnds, StepFields DEF TodosOf
  <2>2. \A o \in 1..Outfits : ~(NewRun.at > BeatAt(o))
    BY <1>6, ApplyConstants DEF BeatAt
  <2> QED BY <1>3, <1>6, <2>1, <2>2 DEF RecordInv
<1>8. RunInv /\ SceneInv /\ SlotInv
  BY <1>1, <1>3, <1>6, <1>7 DEF RunInv, SceneInv, SlotInv
<1>9. OrderInv
  <2>1. BeatsInv(world, mapping) /\ SendInv(NewRun, world, mapping)
    BY <1>3, <1>6 DEF BeatsInv, SendInv
  <2> QED BY <1>1, <2>1 DEF OrderInv
<1> QED BY <1>4, <1>5, <1>8, <1>9 DEF ApplyInv

LEMMA ApplyNext == ApplyInv /\ [Next]_vars => ApplyInv'
<1> SUFFICES ASSUME ApplyInv, [Next]_vars PROVE ApplyInv'
  OBVIOUS
<1>1. ASSUME NEW r \in Runs, Heartbeat(r) PROVE ApplyInv'
  <2>1. PICK stale \in BOOLEAN : slot' = [slot EXCEPT !.stale = stale]
    BY <1>1 DEF Heartbeat
  <2>2. UNCHANGED <<mapping, world, refused, run>>
    BY <1>1 DEF Heartbeat
  <2> QED BY <2>1, <2>2, StaleStep
<1>2. ASSUME FallSilent PROVE ApplyInv'
  <2>1. PICK stale \in BOOLEAN : slot' = [slot EXCEPT !.stale = stale]
    BY <1>2 DEF FallSilent
  <2>2. UNCHANGED <<mapping, world, refused, run>>
    BY <1>2 DEF FallSilent
  <2> QED BY <2>1, <2>2, StaleStep
<1>3. CASE UNCHANGED vars
  BY <1>3 DEF vars, ApplyInv, TypeOK, ConfirmedIsReal, RunInv, SceneInv, SlotInv, OrderInv, Orderly
<1> QED BY <1>1, <1>2, <1>3, ClaimStep, AskAgainStep, ClearStep, FindStep, SendStep, ConfirmStep,
           FinishStep, OutageStep, HangUpStep, LateStep, CrashStep, EditStep DEF Next, Works

(* What a mapping row says has happened: the version it holds is one that   *)
(* its stream has reached, and the beat it stands for is in the scene,      *)
(* whatever failed, was dropped or was sent twice (confirm, recover_version *)
(* and the retry of a beat).                                                *)
THEOREM ConfirmedRowsAreReal == Spec => []ConfirmedIsReal
<1>1. ApplyInv => ConfirmedIsReal
  BY DEF ApplyInv
<1> QED BY <1>1, ApplyInit, ApplyNext, PTL DEF Spec

(* A beat is in the scene at most once and in the order of the plan, unless *)
(* the slot was taken from a run at work or a run reported a beat as        *)
(* unapplied: the slot, the rows and the expected version do what no check  *)
(* of the scene's contents does.                                            *)
THEOREM BeatsOnceInOrder == Spec => []BeatsAreNotRepeated
<1>1. ApplyInv => BeatsAreNotRepeated
  BY DEF ApplyInv, OrderInv, BeatsInv, BeatsAreNotRepeated
<1> QED BY <1>1, ApplyInit, ApplyNext, PTL DEF Spec
-----------------------------------------------------------------------------
(***************************************************************************)
(* A run that ends well leaves what it promises, unless users or another   *)
(* run moved the streams meanwhile.                                        *)
(***************************************************************************)

Quiet == edits = 0 /\ ~slot.stolen

PieceOf(o) == Step("piece", o)
OutfitOf(o) == Step("outfit", o)
Figure == Step("figure", 0)
Shoot == Step("shoot", 0)

Assigned(w) == <<"assign", SceneOf>> \in w.facts
Scheduled(w) == <<"schedule", SceneOf>> \in w.facts
PieceSet(w, o) == {<<"category", PieceOf(o)>>, <<"notes", PieceOf(o)>>} \subseteq w.facts
OutfitSet(w, o) == <<"notes", OutfitOf(o)>> \in w.facts

(* The version of a stream is the record of what was done to it; f is what  *)
(* the domain refuses to create.                                            *)
FactsInv(w, f) ==
  /\ \A o \in 1..Outfits :
       /\ w.version[PieceOf(o)] >= 2 => <<"category", PieceOf(o)>> \in w.facts
       /\ w.version[PieceOf(o)] >= 3 => <<"notes", PieceOf(o)>> \in w.facts
       /\ w.version[OutfitOf(o)] >= 2 => OutfitSet(w, o)
       /\ f = "piece" => w.version[PieceOf(o)] = 0
       /\ f = "outfit" => w.version[OutfitOf(o)] = 0
  /\ f = "figure" => w.version[Figure] = 0
  /\ w.version[SceneOf] >= 2 => IF f = "figure" THEN Scheduled(w) ELSE Assigned(w)
  /\ w.version[Shoot] > 0 => Scheduled(w)

(* What lies behind a run is done, and what it is about to do is in turn. *)
BehindInv(x, w, f) ==
  /\ x.todo \in {"category", "notes", "confirm"} =>
       0 < x.version /\ x.version <= w.version[StreamOf(Plan[x.at])]
  /\ Plan[x.at].kind = "piece" => /\ x.todo = "category" => x.version = 1
                                  /\ x.todo = "notes" => x.version = 2
  /\ Plan[x.at].kind = "outfit" =>
       /\ x.todo = "create" => x.pending
       /\ x.todo = "confirm" /\ ~x.pending => OutfitSet(w, Plan[x.at].o)
  /\ x.at = PlanLength /\ x.todo \in {"create", "confirm"} => Scheduled(w)
  /\ x.phase \in {"ending", "done"} => Scheduled(w)
  /\ x.phase \in {"new", "refused"} => x.at = 1
  /\ x.todo = "find" => ~x.again
  /\ x.at > 2 => x.scene > 0
  /\ x.at > 4 /\ f # "figure" => Assigned(w)
  /\ \A o \in 1..Outfits :
       /\ x.at > 3 * o + 2 => o \in x.unapplied \/ PieceSet(w, o)
       /\ x.at > 3 * o + 3 => o \in x.unapplied \/ OutfitSet(w, o)
  /\ f = "figure" => x.at <= 3 \/ x.at >= 5 + 3 * Outfits
  /\ f = "piece" => Plan[x.at].kind \notin {"outfit", "beat"}
  /\ f = "outfit" => Plan[x.at].kind # "beat"
  /\ f = "nothing" => x.unapplied = {}

ToScene == {"assign", "schedule", "beat"}

(* No command that was left behind can reach the scene any more. *)
NoneLate(rs, w) ==
  \A q \in Runs : rs[q].late /\ rs[q].todo \in ToScene => rs[q].scene < w.version[SceneOf]

LastIs(w, o) == w.beats # <<>> /\ w.beats[Len(w.beats)] = o

(* A run at work knows the version of the scene, or the scene is scheduled, *)
(* or a beat is still before it that it will have to send.                  *)
SyncInv(x, w, m, f, rs) ==
  x.phase = "working" /\ x.at > 4 /\ f # "figure" =>
    /\ \/ x.scene = w.version[SceneOf]
       \/ Scheduled(w)
       \/ /\ f = "nothing"
          /\ \E o \in 1..Outfits :
               /\ m[Beat(o)] <= 0
               /\ x.at < BeatAt(o) \/ (x.at = BeatAt(o) /\ x.todo \in {"find", "beat"})
    /\ x.again \/ x.scene < w.version[SceneOf] => NoneLate(rs, w)
    /\ x.again /\ x.todo = "beat" => x.scene = w.version[SceneOf]
    /\ Plan[x.at].kind = "beat" /\ x.todo = "confirm" =>
         LastIs(w, Plan[x.at].o) \/ NoneLate(rs, w)

(* A beat that was left behind and could still be added has not been        *)
(* confirmed, or it is the last one and nothing will be added.              *)
LateInv(x, w, m) ==
  x.late /\ x.todo = "beat" /\ x.scene = w.version[SceneOf] =>
    m[Plan[x.at]] <= 0 \/ LastIs(w, Plan[x.at].o)

CompleteInv ==
  /\ edits \in Nat
  /\ Quiet =>
       /\ FactsInv(world, refused)
       /\ \A r \in Runs : /\ BehindInv(run[r], world, refused)
                          /\ SyncInv(run[r], world, mapping, refused, run)
                          /\ LateInv(run[r], world, mapping)

(* Notes are set by the third event of a piece and the second of an outfit. *)
NotesWritten(w) ==
  \A o \in 1..Outfits : /\ <<"notes", PieceOf(o)>> \in w.facts => w.version[PieceOf(o)] >= 3
                        /\ OutfitSet(w, o) => w.version[OutfitOf(o)] >= 2

(* An outfit is confirmed before its notes are sent, *)
NotesRows(w, m) == \A o \in 1..Outfits : w.version[OutfitOf(o)] >= 2 => m[OutfitOf(o)] > 0

(* and they are sent to the stream as it was created, by a run that does    *)
(* not create the outfit again.                                             *)
NotesTurn(x, m) ==
  Plan[x.at].kind = "outfit" =>
    /\ x.todo = "notes" => x.version = 1 /\ ~x.pending /\ m[Plan[x.at]] > 0
    /\ x.phase = "working" /\ (x.todo = "create" \/ (x.todo = "confirm" /\ x.pending)) =>
         m[Plan[x.at]] <= 0

(* So notes that are what they were, which the aggregates refuse, are never *)
(* sent in quiet.                                                           *)
NotesInv ==
  Quiet => /\ NotesWritten(world) /\ NotesRows(world, mapping)
           /\ \A r \in Runs : NotesTurn(run[r], mapping)

(* Places of the plan *)
LEMMA Places ==
  /\ Figure \in Aggregates /\ Shoot \in Aggregates /\ SceneOf \in Aggregates
  /\ Figure.kind = "figure" /\ Shoot.kind = "shoot" /\ SceneOf.kind = "scene"
  /\ \A o \in 1..Outfits : /\ PieceOf(o) \in Aggregates /\ OutfitOf(o) \in Aggregates
                           /\ PieceOf(o).kind = "piece" /\ PieceOf(o).o = o
                           /\ OutfitOf(o).kind = "outfit" /\ OutfitOf(o).o = o
<1>1. /\ Figure.kind = "figure" /\ Shoot.kind = "shoot" /\ SceneOf.kind = "scene"
      /\ \A o \in 1..Outfits : /\ PieceOf(o).kind = "piece" /\ PieceOf(o).o = o
                               /\ OutfitOf(o).kind = "outfit" /\ OutfitOf(o).o = o
  BY StepFields DEF Figure, Shoot, SceneOf, PieceOf, OutfitOf
<1>2. 3 \in 1..PlanLength /\ PlanLength \in 1..PlanLength /\ Plan[3] = Figure /\ Plan[PlanLength] = Shoot
  BY PlanLengthNat, PlanEnds DEF Figure, Shoot
<1>3. Figure \in Aggregates /\ Shoot \in Aggregates
  BY <1>1, <1>2, AtKey
<1>4. ASSUME NEW o \in 1..Outfits PROVE PieceOf(o) \in Aggregates /\ OutfitOf(o) \in Aggregates
  <2>1. 3 * o + 2 \in 1..PlanLength /\ 3 * o + 3 \in 1..PlanLength
    BY ApplyConstants DEF PlanLength
  <2>2. Plan[3 * o + 2] = PieceOf(o) /\ Plan[3 * o + 3] = OutfitOf(o)
    BY PlanOutfits DEF PieceOf, OutfitOf
  <2> QED BY <1>1, <2>1, <2>2, AtKey
<1> QED BY <1>1, <1>3, <1>4, SceneIsAggregate

LEMMA AtPlace ==
  ASSUME NEW i \in 1..PlanLength
  PROVE  /\ Plan[i].kind = "piece" => Plan[i] = PieceOf(Plan[i].o) /\ Plan[i].o \in 1..Outfits
         /\ Plan[i].kind = "outfit" => Plan[i] = OutfitOf(Plan[i].o) /\ Plan[i].o \in 1..Outfits
         /\ Plan[i].kind = "figure" => Plan[i] = Figure
         /\ Plan[i].kind = "shoot" => Plan[i] = Shoot
         /\ Plan[i].kind = "scene" => Plan[i] = SceneOf
<1>1. Plan[3] = Figure /\ Plan[PlanLength] = Shoot
  BY PlanEnds DEF Figure, Shoot
<1> QED BY <1>1, KindsOfPlan DEF PieceOf, OutfitOf

LEMMA AppendedFields ==
  ASSUME NEW w \in Worlds, NEW g \in Aggregates, NEW fact
  PROVE  LET a == Appended(w, g, fact)
         IN  /\ a.verdict = "ok" /\ a.version = w.version[g] + 1 /\ a.world.beats = w.beats
             /\ a.world.facts = w.facts \cup {fact} /\ a.world.version[g] = w.version[g] + 1
             /\ \A h \in Aggregates \ {g} : a.world.version[h] = w.version[h]
<1> DEFINE v == [w EXCEPT !.version[g] = @ + 1, !.facts = @ \cup {fact}]
<1>1. Appended(w, g, fact) = Answer(v, "ok", w.version[g] + 1)
  BY DEF Appended
<1>2. v.version = [w.version EXCEPT ![g] = w.version[g] + 1] /\ v.facts = w.facts \cup {fact}
      /\ v.beats = w.beats /\ w.version \in [Aggregates -> Nat]
  BY DEF Worlds
<1> HIDE DEF v
<1> QED BY <1>1, <1>2, AnswerFields

(* What stays true of one run while the others go on *)
LEMMA BehindKept ==
  ASSUME NEW x \in RunRecords, NEW w \in Worlds, NEW v \in Worlds, NEW f, BehindInv(x, w, f),
         Grows(w, v), w.facts \subseteq v.facts, x.todo \in TodosOf(Plan[x.at].kind)
  PROVE  BehindInv(x, v, f)
<1>1. x.at \in 1..PlanLength /\ x.version \in Nat
  BY DEF RunRecords
<1>2. x.todo \in {"category", "notes", "confirm"} =>
        0 < x.version /\ x.version <= v.version[StreamOf(Plan[x.at])]
  <2> HAVE x.todo \in {"category", "notes", "confirm"}
  <2>1. Plan[x.at].kind # "assign"
    BY DEF TodosOf
  <2>2. StreamOf(Plan[x.at]) \in Aggregates
    BY <1>1, <2>1, AtKey
  <2>3. w.version[StreamOf(Plan[x.at])] \in Nat /\ v.version[StreamOf(Plan[x.at])] \in Nat
    BY <2>2 DEF Worlds
  <2> QED BY <1>1, <2>2, <2>3 DEF BehindInv, Grows
<1>3. (Scheduled(w) => Scheduled(v)) /\ (Assigned(w) => Assigned(v))
  BY DEF Scheduled, Assigned
<1>4. \A o : (PieceSet(w, o) => PieceSet(v, o)) /\ (OutfitSet(w, o) => OutfitSet(v, o))
  BY DEF PieceSet, OutfitSet
<1> QED BY <1>2, <1>3, <1>4 DEF BehindInv

LEMMA NoneLateKept ==
  ASSUME NEW w \in Worlds, NEW v \in Worlds, NEW rs \in [Runs -> RunRecords],
         NEW qs \in [Runs -> RunRecords], w.version[SceneOf] <= v.version[SceneOf],
         \A q \in Runs : qs[q].late => rs[q].late /\ rs[q].todo = qs[q].todo /\ rs[q].scene = qs[q].scene,
         NoneLate(rs, w)
  PROVE  NoneLate(qs, v)
<1> SUFFICES ASSUME NEW q \in Runs, qs[q].late, qs[q].todo \in ToScene
             PROVE  qs[q].scene < v.version[SceneOf]
  BY DEF NoneLate
<1>1. qs[q].scene \in Nat /\ w.version[SceneOf] \in Nat /\ v.version[SceneOf] \in Nat
  BY SceneIsAggregate DEF RunRecords, Worlds
<1>2. qs[q].scene < w.version[SceneOf]
  BY DEF NoneLate
<1> QED BY <1>1, <1>2

LEMMA NoneLateMoved ==
  ASSUME NEW w \in Worlds, NEW v \in Worlds, NEW qs \in [Runs -> RunRecords],
         w.version[SceneOf] < v.version[SceneOf],
         \A q \in Runs : qs[q].late => qs[q].scene <= w.version[SceneOf]
  PROVE  NoneLate(qs, v)
<1> SUFFICES ASSUME NEW q \in Runs, qs[q].late
             PROVE  qs[q].scene < v.version[SceneOf]
  BY DEF NoneLate
<1>1. qs[q].scene \in Nat /\ w.version[SceneOf] \in Nat /\ v.version[SceneOf] \in Nat
  BY SceneIsAggregate DEF RunRecords, Worlds
<1> QED BY <1>1

LEMMA LateKept ==
  ASSUME NEW x \in RunRecords, NEW w \in Worlds, NEW v \in Worlds, NEW m \in Maps, NEW n \in Maps,
         RecordInv(x, w, m), LateInv(x, w, m), w.version[SceneOf] <= v.version[SceneOf],
         v.version[SceneOf] = w.version[SceneOf] => v.beats = w.beats,
         x.late /\ x.todo = "beat" /\ x.scene = w.version[SceneOf] /\ m[Plan[x.at]] <= 0 =>
           n[Plan[x.at]] <= 0 \/ LastIs(v, Plan[x.at].o)
  PROVE  LateInv(x, v, n)
<1> SUFFICES ASSUME x.late, x.todo = "beat", x.scene = v.version[SceneOf]
             PROVE  n[Plan[x.at]] <= 0 \/ LastIs(v, Plan[x.at].o)
  BY DEF LateInv
<1>1. x.scene \in Nat /\ w.version[SceneOf] \in Nat /\ v.version[SceneOf] \in Nat
      /\ x.scene <= w.version[SceneOf]
  BY SceneIsAggregate DEF RunRecords, Worlds, RecordInv
<1>2. x.scene = w.version[SceneOf] /\ v.beats = w.beats
  BY <1>1
<1>3. m[Plan[x.at]] <= 0 \/ LastIs(w, Plan[x.at].o)
  BY <1>2 DEF LateInv
<1> QED BY <1>2, <1>3 DEF LastIs
(* One more event in the stream g *)
LEMMA FactsAppended ==
  ASSUME NEW w \in Worlds, NEW v \in Worlds, NEW g \in Aggregates, NEW f, FactsInv(w, f),
         w.facts \subseteq v.facts, v.version[g] = w.version[g] + 1,
         \A h \in Aggregates \ {g} : v.version[h] = w.version[h],
         \A o \in 1..Outfits : g = PieceOf(o) =>
           /\ f # "piece"
           /\ v.version[g] >= 2 => <<"category", PieceOf(o)>> \in v.facts
           /\ v.version[g] >= 3 => <<"notes", PieceOf(o)>> \in v.facts,
         \A o \in 1..Outfits : g = OutfitOf(o) =>
           f # "outfit" /\ (v.version[g] >= 2 => OutfitSet(v, o)),
         g = Figure => f # "figure",
         g = SceneOf /\ v.version[g] >= 2 => IF f = "figure" THEN Scheduled(v) ELSE Assigned(v),
         g = Shoot => Scheduled(v)
  PROVE  FactsInv(v, f)
<1>1. (Scheduled(w) => Scheduled(v)) /\ (Assigned(w) => Assigned(v))
  BY DEF Scheduled, Assigned
<1>2. \A o \in 1..Outfits :
       /\ v.version[PieceOf(o)] >= 2 => <<"category", PieceOf(o)>> \in v.facts
       /\ v.version[PieceOf(o)] >= 3 => <<"notes", PieceOf(o)>> \in v.facts
       /\ f = "piece" => v.version[PieceOf(o)] = 0
  <2> TAKE o \in 1..Outfits
  <2>1. CASE g = PieceOf(o)
    BY <2>1
  <2>2. CASE g # PieceOf(o)
    <3>1. v.version[PieceOf(o)] = w.version[PieceOf(o)]
      BY <2>2, Places
    <3> QED BY <3>1 DEF FactsInv
  <2> QED BY <2>1, <2>2
<1>3. \A o \in 1..Outfits :
       /\ v.version[OutfitOf(o)] >= 2 => OutfitSet(v, o)
       /\ f = "outfit" => v.version[OutfitOf(o)] = 0
  <2> TAKE o \in 1..Outfits
  <2>1. CASE g = OutfitOf(o)
    BY <2>1
  <2>2. CASE g # OutfitOf(o)
    <3>1. v.version[OutfitOf(o)] = w.version[OutfitOf(o)]
      BY <2>2, Places
    <3> QED BY <3>1 DEF FactsInv, OutfitSet
  <2> QED BY <2>1, <2>2
<1>4. f = "figure" => v.version[Figure] = 0
  BY Places DEF FactsInv
<1>5. v.version[SceneOf] >= 2 => IF f = "figure" THEN Scheduled(v) ELSE Assigned(v)
  <2>1. CASE g = SceneOf
    BY <2>1
  <2>2. CASE g # SceneOf
    <3>1. v.version[SceneOf] = w.version[SceneOf]
      BY <2>2, Places
    <3> QED BY <1>1, <3>1 DEF FactsInv
  <2> QED BY <2>1, <2>2
<1>6. v.version[Shoot] > 0 => Scheduled(v)
  <2>1. CASE g = Shoot
    BY <2>1
  <2>2. CASE g # Shoot
    <3>1. v.version[Shoot] = w.version[Shoot]
      BY <2>2, Places
    <3> QED BY <1>1, <3>1 DEF FactsInv
  <2> QED BY <2>1, <2>2
<1> QED BY <1>2, <1>3, <1>4, <1>5, <1>6 DEF FactsInv

(* The notes a run is about to send, if it knows the stream, are new. *)
NotesFresh(r) ==
  run[r].todo = "notes" /\ world.version[At(r)] = run[r].version => <<"notes", At(r)>> \notin world.facts

(* What the answer to a command tells, and what the command leaves. *)
Effect(a, x, s) ==
  /\ FactsInv(a.world, refused) /\ world.facts \subseteq a.world.facts
  /\ x.todo = "create" => IF a.verdict = "refused" THEN s.kind = refused ELSE a.version > 0
  /\ x.todo \in {"beat", "notes"} => a.verdict # "refused"
  /\ x.todo \in {"category", "notes"} =>
       /\ a.verdict = "ok" => a.version >= x.version /\ <<x.todo, s>> \in a.world.facts
       /\ a.verdict = "conflict" => a.version = world.version[s] /\ a.version > x.version
  /\ x.todo = "assign" => Assigned(a.world)
  /\ x.todo = "schedule" /\ a.verdict = "ok" => Scheduled(a.world)
  /\ x.todo \in ToScene => a.version = a.world.version[SceneOf]
  /\ x.todo \in ToScene /\ a.verdict = "conflict" => x.scene < world.version[SceneOf] /\ a.world = world
  /\ x.todo = "beat" /\ a.verdict = "ok" /\ a.world.version[SceneOf] = world.version[SceneOf] =>
       LastIs(a.world, s.o)
  /\ a.world.version[SceneOf] # world.version[SceneOf] =>
       /\ IF x.todo \in ToScene THEN x.scene = world.version[SceneOf] ELSE world.version[SceneOf] = 0
       /\ x.todo = "assign" => ~Assigned(world)
       /\ x.todo = "schedule" => Scheduled(a.world)
       /\ x.todo = "beat" => ~LastIs(world, s.o)

LEMMA CreateEffect ==
  ASSUME TypeOK, RunInv, NEW r \in Runs, FactsInv(world, refused),
         BehindInv(run[r], world, refused), run[r].todo = "create"
  PROVE  Effect(Execute(world, r), run[r], At(r))
<1> DEFINE x == run[r]
           s == At(r)
           a == Execute(world, r)
<1>0. /\ x \in RunRecords /\ x.at \in 1..PlanLength /\ s = Plan[x.at] /\ s.kind \in AllKinds
      /\ world \in Worlds /\ world.version[SceneOf] \in Nat /\ x.version \in Nat
  BY AtTypes
<1>1. x.todo \in TodosOf(s.kind)
  BY <1>0 DEF RunInv, RecordInv
<1>2. s \in Aggregates /\ world.version[s] \in Nat
  <2>1. s.kind \notin {"assign", "beat"}
    BY <1>1 DEF TodosOf
  <2>2. s \in Aggregates
    BY <1>0, <2>1, AtKey
  <2> QED BY <1>0, <2>2 DEF Worlds
<1>3. x.todo \notin ToScene
  BY DEF ToScene
<1>4. CASE s.kind = refused
  <2>1. a = Answer(world, "refused", x.version)
    BY <1>4 DEF Execute
  <2>2. a.world = world /\ a.verdict = "refused"
    BY <2>1, AnswerFields
  <2> HIDE DEF a, x, s
  <2>3. Effect(a, x, s)
    BY <1>3, <1>4, <2>2 DEF Effect, x
  <2> QED BY <2>3 DEF a, x, s
<1>5. CASE s.kind # refused /\ world.version[s] # 0
  <2>1. a = Answer(world, "conflict", world.version[s])
    BY <1>5 DEF Execute, CreateOn, Conflict
  <2>2. a.world = world /\ a.verdict = "conflict" /\ a.version > 0
    BY <1>2, <1>5, <2>1, AnswerFields
  <2> HIDE DEF a, x, s
  <2>3. Effect(a, x, s)
    BY <1>3, <2>2 DEF Effect, x
  <2> QED BY <2>3 DEF a, x, s
<1>6. CASE s.kind # refused /\ world.version[s] = 0
  <2> DEFINE fact == <<"create", s>>
  <2>1. a = Appended(world, s, fact)
    BY <1>6 DEF Execute, CreateOn
  <2>2. AnswerOK(world, a, s)
    BY <1>0, <1>2, <2>1, AppendedOK DEF FactNames
  <2>3. /\ a.verdict = "ok" /\ a.version = 1 /\ a.world.facts = world.facts \cup {fact}
        /\ a.world.version[s] = 1 /\ a.world.version[s] = world.version[s] + 1
        /\ \A h \in Aggregates \ {s} : a.world.version[h] = world.version[h]
    BY <1>0, <1>2, <1>6, <2>1, AppendedFields
  <2>4. a.world \in Worlds
    BY <2>2 DEF AnswerOK
  <2>5. s = Shoot => Scheduled(a.world)
    <3> HAVE s = Shoot
    <3>1. x.at = PlanLength
      BY <1>0, Places, KindsOfPlan
    <3>2. Scheduled(world)
      BY <3>1 DEF BehindInv
    <3> QED BY <2>3, <3>2 DEF Scheduled
  <2> HIDE DEF fact, a, x, s
  <2>6. FactsInv(a.world, refused)
    <3>1. world.facts \subseteq a.world.facts
      BY <2>3
    <3>2. \A o \in 1..Outfits : (s = PieceOf(o) => refused # "piece") /\ (s = OutfitOf(o) => refused # "outfit")
      BY <1>6, Places
    <3>3. s = Figure => refused # "figure"
      BY <1>6, Places
    <3>4. ~(a.world.version[s] >= 2) /\ ~(a.world.version[s] >= 3)
      BY <2>3
    <3> QED BY <1>0, <1>2, <2>3, <2>4, <2>5, <3>1, <3>2, <3>3, <3>4, FactsAppended
  <2>7. a.world.version[SceneOf] # world.version[SceneOf] => world.version[SceneOf] = 0
    BY <1>6, <2>3, SceneIsAggregate
  <2>8. Effect(a, x, s)
    BY <1>3, <2>3, <2>6, <2>7 DEF Effect, x
  <2> QED BY <2>8 DEF a, x, s
<1> QED BY <1>4, <1>5, <1>6
LEMMA ChangeEffect ==
  ASSUME TypeOK, RunInv, NEW r \in Runs, FactsInv(world, refused),
         BehindInv(run[r], world, refused), run[r].todo \in {"category", "notes"}, NotesFresh(r)
  PROVE  Effect(Execute(world, r), run[r], At(r))
<1> DEFINE x == run[r]
           s == At(r)
           a == Execute(world, r)
           fact == <<x.todo, s>>
<1>0. /\ x \in RunRecords /\ x.at \in 1..PlanLength /\ s = Plan[x.at] /\ s.kind \in AllKinds
      /\ world \in Worlds /\ world.version[SceneOf] \in Nat /\ x.version \in Nat
  BY AtTypes
<1>1. x.todo \in TodosOf(s.kind)
  BY <1>0 DEF RunInv, RecordInv
<1>2. s.kind \in {"piece", "outfit"} /\ (x.todo = "category" => s.kind = "piece")
  BY <1>0, <1>1 DEF TodosOf, AllKinds
<1>3. s \in Aggregates /\ world.version[s] \in Nat /\ StreamOf(s) = s
  <2>1. s \in Aggregates /\ StreamOf(s) = s
    BY <1>0, <1>2, AtKey
  <2> QED BY <1>0, <2>1 DEF Worlds
<1>4. x.todo \notin ToScene /\ x.todo \notin {"create", "beat", "assign", "schedule"}
  BY DEF ToScene
<1>5. 0 < x.version /\ x.version <= world.version[s]
      /\ (s.kind = "piece" => /\ x.todo = "category" => x.version = 1
                              /\ x.todo = "notes" => x.version = 2)
  BY <1>0, <1>3 DEF BehindInv
<1>6. a = ChangeOn(world, s, fact, x.version)
  BY <1>4 DEF Execute
<1>7. CASE world.version[s] # x.version
  <2>1. a = Answer(world, "conflict", world.version[s])
    BY <1>6, <1>7 DEF ChangeOn, Conflict
  <2>2. a.world = world /\ a.verdict = "conflict" /\ a.version = world.version[s]
    BY <2>1, AnswerFields
  <2> HIDE DEF a, x, s
  <2>3. a.version > x.version
    BY <1>0, <1>3, <1>5, <1>7, <2>2
  <2>4. Effect(a, x, s)
    BY <1>4, <2>2, <2>3 DEF Effect
  <2> QED BY <2>4 DEF a, x, s
<1>8. CASE world.version[s] = x.version /\ fact \in world.facts
  <2>0. fact[1] # "notes"
    BY <1>8 DEF NotesFresh
  <2>1. a = Answer(world, "ok", x.version)
    BY <1>6, <1>8, <2>0 DEF ChangeOn
  <2>2. a.world = world /\ a.verdict = "ok" /\ a.version = x.version
    BY <2>1, AnswerFields
  <2> HIDE DEF a, x, s
  <2>3. Effect(a, x, s)
    BY <1>0, <1>4, <1>8, <2>2 DEF Effect, fact
  <2> QED BY <2>3 DEF a, x, s
<1>9. CASE world.version[s] = x.version /\ fact \notin world.facts
  <2>1. a = Appended(world, s, fact)
    BY <1>6, <1>9 DEF ChangeOn
  <2>2. AnswerOK(world, a, s)
    BY <1>0, <1>3, <2>1, AppendedOK DEF FactNames
  <2>3. /\ a.verdict = "ok" /\ a.version = x.version + 1 /\ a.world.facts = world.facts \cup {fact}
        /\ a.world.version[s] = x.version + 1 /\ a.world.version[s] = world.version[s] + 1
        /\ \A h \in Aggregates \ {s} : a.world.version[h] = world.version[h]
    BY <1>0, <1>3, <1>9, <2>1, AppendedFields
  <2>4. a.world \in Worlds /\ world.facts \subseteq a.world.facts /\ fact \in a.world.facts
    BY <2>2, <2>3 DEF AnswerOK
  <2> HIDE DEF a
  <2>5. \A o \in 1..Outfits : s = PieceOf(o) =>
           /\ refused # "piece"
           /\ a.world.version[s] >= 2 => <<"category", PieceOf(o)>> \in a.world.facts
           /\ a.world.version[s] >= 3 => <<"notes", PieceOf(o)>> \in a.world.facts
    <3> SUFFICES ASSUME NEW o \in 1..Outfits, s = PieceOf(o)
                 PROVE  /\ refused # "piece"
                        /\ a.world.version[s] >= 2 => <<"category", PieceOf(o)>> \in a.world.facts
                        /\ a.world.version[s] >= 3 => <<"notes", PieceOf(o)>> \in a.world.facts
      OBVIOUS
    <3>1. s.kind = "piece"
      BY Places
    <3>0. world.version[PieceOf(o)] # 0
      BY <1>0, <1>5, <1>9
    <3>2. refused # "piece"
      BY <3>0 DEF FactsInv
    <3>3. CASE x.todo = "category"
      BY <1>5, <2>3, <2>4, <3>1, <3>2, <3>3
    <3>4. CASE x.todo = "notes"
      <4>1. world.version[PieceOf(o)] = 2
        BY <1>5, <1>9, <3>1, <3>4
      <4>2. <<"category", PieceOf(o)>> \in a.world.facts
        BY <2>4, <4>1 DEF FactsInv
      <4> QED BY <2>4, <3>2, <3>4, <4>2
    <3> QED BY <3>3, <3>4
  <2>6. \A o \in 1..Outfits : s = OutfitOf(o) =>
          refused # "outfit" /\ (a.world.version[s] >= 2 => OutfitSet(a.world, o))
    <3> SUFFICES ASSUME NEW o \in 1..Outfits, s = OutfitOf(o)
                 PROVE  refused # "outfit" /\ OutfitSet(a.world, o)
      OBVIOUS
    <3>1. s.kind = "outfit"
      BY Places
    <3>2. x.todo = "notes"
      BY <1>2, <3>1
    <3>0. world.version[OutfitOf(o)] # 0
      BY <1>0, <1>5, <1>9
    <3>3. refused # "outfit"
      BY <3>0 DEF FactsInv
    <3> QED BY <2>4, <3>2, <3>3 DEF OutfitSet
  <2>7. s # Figure /\ s # Shoot /\ s # SceneOf
    BY <1>2, Places
  <2> HIDE DEF fact, x, s
  <2>8. FactsInv(a.world, refused)
    BY <1>0, <1>3, <2>3, <2>4, <2>5, <2>6, <2>7, FactsAppended
  <2>9. a.world.version[SceneOf] = world.version[SceneOf]
    BY <2>3, <2>7, SceneIsAggregate
  <2>10. Effect(a, x, s)
    BY <1>0, <1>4, <2>3, <2>4, <2>8, <2>9 DEF Effect, fact
  <2> QED BY <2>10 DEF a, x, s
<1> QED BY <1>7, <1>8, <1>9

LEMMA SceneEffect ==
  ASSUME TypeOK, RunInv, NEW r \in Runs, FactsInv(world, refused),
         BehindInv(run[r], world, refused), run[r].todo \in {"assign", "schedule"}
  PROVE  Effect(Execute(world, r), run[r], At(r))
<1> DEFINE x == run[r]
           s == At(r)
           a == Execute(world, r)
           fact == <<x.todo, SceneOf>>
           V == world.version[SceneOf]
<1>0. /\ x \in RunRecords /\ x.at \in 1..PlanLength /\ s = Plan[x.at] /\ s.kind \in AllKinds
      /\ world \in Worlds /\ V \in Nat /\ x.version \in Nat /\ x.scene \in Nat
  BY AtTypes
<1>1. x.todo \in TodosOf(s.kind) /\ x.scene <= V
  BY <1>0 DEF RunInv, RecordInv
<1>2. (x.todo = "assign" => x.at = 4) /\ (x.todo = "schedule" => x.at = PlanLength)
  <2>1. (x.todo = "assign" => s.kind = "assign") /\ (x.todo = "schedule" => s.kind = "shoot")
    BY <1>0, <1>1 DEF TodosOf, AllKinds
  <2> QED BY <1>0, <2>1, KindsOfPlan
<1>3. /\ x.scene > 0
      /\ x.todo = "assign" => refused # "figure"
      /\ x.todo = "schedule" => refused = "figure" \/ Assigned(world)
  <2>1. Outfits \in Nat /\ PlanLength > 4 /\ ~(4 <= 3 \/ 4 >= 5 + 3 * Outfits)
    BY ApplyConstants DEF PlanLength
  <2>2. x.at > 2 /\ (x.todo = "schedule" => x.at > 4)
    BY <1>2, <2>1, PlanLengthNat
  <2> QED BY <1>2, <2>1, <2>2 DEF BehindInv
<1>4. x.todo \in ToScene /\ x.todo \notin {"create", "beat", "category", "notes"}
  BY DEF ToScene
<1>5. a = ChangeOn(world, SceneOf, fact, x.scene)
  BY <1>4 DEF Execute
<1>6. fact \in FactNames \X Aggregates
  BY SceneIsAggregate DEF FactNames
<1>7. CASE V # x.scene
  <2>1. a = Answer(world, "conflict", V)
    BY <1>5, <1>7 DEF ChangeOn, Conflict
  <2>2. a.world = world /\ a.verdict = "conflict" /\ a.version = V
    BY <2>1, AnswerFields
  <2> HIDE DEF a, x, s
  <2>3. x.scene < V /\ V >= 2
    BY <1>0, <1>1, <1>3, <1>7
  <2>4. x.todo = "assign" => Assigned(world)
    BY <1>3, <2>3 DEF FactsInv
  <2>5. Effect(a, x, s)
    BY <1>4, <2>2, <2>3, <2>4 DEF Effect
  <2> QED BY <2>5 DEF a, x, s
<1>8. CASE V = x.scene /\ fact \in world.facts
  <2>1. a = Answer(world, "ok", x.scene)
    BY <1>5, <1>8 DEF ChangeOn
  <2>2. a.world = world /\ a.verdict = "ok" /\ a.version = V
    BY <1>8, <2>1, AnswerFields
  <2> HIDE DEF a, x, s
  <2>3. (x.todo = "assign" => Assigned(world)) /\ (x.todo = "schedule" => Scheduled(world))
    BY <1>8 DEF Assigned, Scheduled
  <2>4. Effect(a, x, s)
    BY <1>4, <2>2, <2>3 DEF Effect
  <2> QED BY <2>4 DEF a, x, s
<1>9. CASE V = x.scene /\ fact \notin world.facts
  <2>1. a = Appended(world, SceneOf, fact)
    BY <1>5, <1>9 DEF ChangeOn
  <2>2. AnswerOK(world, a, SceneOf)
    BY <1>0, <1>6, <2>1, AppendedOK, SceneIsAggregate
  <2>3. /\ a.verdict = "ok" /\ a.version = V + 1 /\ a.world.facts = world.facts \cup {fact}
        /\ a.world.version[SceneOf] = V + 1
        /\ \A h \in Aggregates \ {SceneOf} : a.world.version[h] = world.version[h]
    BY <1>0, <2>1, AppendedFields, SceneIsAggregate
  <2>4. a.world \in Worlds /\ world.facts \subseteq a.world.facts /\ fact \in a.world.facts
    BY <2>2, <2>3 DEF AnswerOK
  <2>5. (x.todo = "assign" => Assigned(a.world) /\ ~Assigned(world))
        /\ (x.todo = "schedule" => Scheduled(a.world))
    BY <1>9, <2>4 DEF Assigned, Scheduled
  <2>6. IF refused = "figure" THEN Scheduled(a.world) ELSE Assigned(a.world)
    BY <1>3, <2>4, <2>5 DEF Assigned
  <2>7. SceneOf # Figure /\ SceneOf # Shoot
        /\ \A o \in 1..Outfits : SceneOf # PieceOf(o) /\ SceneOf # OutfitOf(o)
    BY Places
  <2> HIDE DEF fact, a, x, s
  <2>8. FactsInv(a.world, refused)
    BY <1>0, <2>3, <2>4, <2>6, <2>7, FactsAppended, SceneIsAggregate
  <2>9. Effect(a, x, s)
    BY <1>0, <1>4, <1>9, <2>3, <2>4, <2>5, <2>8 DEF Effect
  <2> QED BY <2>9 DEF a, x, s
<1> QED BY <1>7, <1>8, <1>9

LEMMA BeatEffect ==
  ASSUME TypeOK, RunInv, NEW r \in Runs, FactsInv(world, refused),
         BehindInv(run[r], world, refused), run[r].todo = "beat"
  PROVE  Effect(Execute(world, r), run[r], At(r))
<1> DEFINE x == run[r]
           s == At(r)
           a == Execute(world, r)
           V == world.version[SceneOf]
           v == [world EXCEPT !.version[SceneOf] = @ + 1, !.beats = Append(@, s.o)]
<1>0. /\ x \in RunRecords /\ x.at \in 1..PlanLength /\ s = Plan[x.at] /\ s.kind \in AllKinds
      /\ world \in Worlds /\ V \in Nat /\ x.scene \in Nat
      /\ world.version \in [Aggregates -> Nat] /\ world.beats \in Seq(1..Outfits)
  BY AtTypes DEF Worlds
<1>1. x.todo \in TodosOf(s.kind) /\ x.scene <= V
  BY <1>0 DEF RunInv, RecordInv
<1>2. s.kind = "beat" /\ s.o \in 1..Outfits /\ x.at = BeatAt(s.o)
  <2>1. s.kind = "beat"
    BY <1>0, <1>1 DEF TodosOf, AllKinds
  <2> QED BY <1>0, <2>1, KindsOfPlan
<1>3. x.at > 4 /\ refused # "figure" /\ Assigned(world)
  <2>1. x.at > 4 /\ ~(x.at <= 3 \/ x.at >= 5 + 3 * Outfits)
    BY <1>2, ApplyConstants DEF BeatAt
  <2> QED BY <2>1 DEF BehindInv
<1>4. x.todo \in ToScene
  BY DEF ToScene
<1>5. a = AddOutfitBeat(world, s.o, x.scene)
  BY DEF Execute
<1>6. CASE V # x.scene
  <2>1. a = Answer(world, "conflict", V)
    BY <1>5, <1>6 DEF AddOutfitBeat, Conflict
  <2>2. a.world = world /\ a.verdict = "conflict" /\ a.version = V
    BY <2>1, AnswerFields
  <2>3. x.scene < V
    BY <1>0, <1>1, <1>6
  <2> HIDE DEF a, s
  <2>4. Effect(a, x, s)
    BY <1>4, <2>2, <2>3 DEF Effect
  <2> QED BY <2>4 DEF a, s
<1>7. CASE V = x.scene /\ LastIs(world, s.o)
  <2>1. a = Answer(world, "ok", x.scene)
    BY <1>3, <1>5, <1>7 DEF AddOutfitBeat, Assigned, LastIs
  <2>2. a.world = world /\ a.verdict = "ok" /\ a.version = V
    BY <1>7, <2>1, AnswerFields
  <2> HIDE DEF a, s
  <2>3. Effect(a, x, s)
    BY <1>4, <1>7, <2>2 DEF Effect
  <2> QED BY <2>3 DEF a, s
<1>8. CASE V = x.scene /\ ~LastIs(world, s.o)
  <2>1. a = Answer(v, "ok", V + 1)
    BY <1>3, <1>5, <1>8 DEF AddOutfitBeat, Assigned, LastIs
  <2>2. a.world = v /\ a.verdict = "ok" /\ a.version = V + 1
    BY <2>1, AnswerFields
  <2>3. v.version = [world.version EXCEPT ![SceneOf] = V + 1] /\ v.facts = world.facts
    BY <1>0 DEF Worlds
  <2>4. v \in Worlds
    <3> DEFINE g == [world.version EXCEPT ![SceneOf] = world.version[SceneOf] + 1]
               bs == Append(world.beats, s.o)
    <3>1. g \in [Aggregates -> Nat] /\ bs \in Seq(1..Outfits)
      <4> HIDE DEF s
      <4>1. g \in [Aggregates -> Nat]
        BY <1>0, SceneIsAggregate
      <4> QED BY <1>0, <1>2, <4>1
    <3>2. v = [world EXCEPT !.version = g, !.beats = bs]
      BY <1>0 DEF Worlds
    <3> HIDE DEF g, bs, v
    <3> QED BY <1>0, <3>1, <3>2 DEF Worlds
  <2> HIDE DEF v
  <2>5. v.version[SceneOf] = V + 1 /\ \A h \in Aggregates \ {SceneOf} : v.version[h] = world.version[h]
    BY <1>0, <2>3, SceneIsAggregate
  <2>6. Assigned(v)
    BY <1>3, <2>3 DEF Assigned
  <2>7. SceneOf # Figure /\ SceneOf # Shoot
        /\ \A o \in 1..Outfits : SceneOf # PieceOf(o) /\ SceneOf # OutfitOf(o)
    BY Places
  <2>8. FactsInv(v, refused)
    BY <1>0, <1>3, <2>3, <2>4, <2>5, <2>6, <2>7, FactsAppended, SceneIsAggregate
  <2> HIDE DEF a, s
  <2>9. Effect(a, x, s)
    BY <1>0, <1>4, <1>8, <2>2, <2>3, <2>5, <2>8 DEF Effect
  <2> QED BY <2>9 DEF a, s
<1> QED BY <1>6, <1>7, <1>8

LEMMA CommandEffect ==
  ASSUME TypeOK, RunInv, NEW r \in Runs, FactsInv(world, refused),
         BehindInv(run[r], world, refused), run[r].todo \in Commands, NotesFresh(r)
  PROVE  Effect(Execute(world, r), run[r], At(r))
BY CreateEffect, ChangeEffect, SceneEffect, BeatEffect DEF Commands

LEMMA NotesAreFresh ==
  ASSUME ApplyInv, CompleteInv, NotesInv, Quiet, NEW r \in Runs PROVE NotesFresh(r)
<1> SUFFICES ASSUME run[r].todo = "notes", world.version[At(r)] = run[r].version
             PROVE  <<"notes", At(r)>> \notin world.facts
  BY DEF NotesFresh
<1>1. /\ TypeOK /\ RecordInv(run[r], world, mapping)
  BY InvParts
<1>2. run[r].at \in 1..PlanLength /\ At(r) = Plan[run[r].at] /\ At(r).kind \in AllKinds
  BY <1>1, AtTypes
<1>3. At(r).kind \in {"piece", "outfit"}
  BY <1>1, <1>2 DEF RecordInv, TodosOf, AllKinds
<1>4. BehindInv(run[r], world, refused) /\ NotesTurn(run[r], mapping) /\ NotesWritten(world)
  BY DEF CompleteInv, NotesInv
<1>5. CASE At(r).kind = "piece"
  <2>1. At(r) = PieceOf(At(r).o) /\ At(r).o \in 1..Outfits
    BY <1>2, <1>5, AtPlace
  <2>2. run[r].version = 2
    BY <1>2, <1>4, <1>5 DEF BehindInv
  <2> QED BY <1>4, <2>1, <2>2 DEF NotesWritten
<1>6. CASE At(r).kind = "outfit"
  <2>1. At(r) = OutfitOf(At(r).o) /\ At(r).o \in 1..Outfits
    BY <1>2, <1>6, AtPlace
  <2>2. run[r].version = 1
    BY <1>2, <1>4, <1>6 DEF NotesTurn
  <2>3. <<"notes", OutfitOf(At(r).o)>> \in world.facts => world.version[OutfitOf(At(r).o)] >= 2
    BY <1>4, <2>1 DEF NotesWritten, OutfitSet
  <2> QED BY <2>1, <2>2, <2>3
<1> QED BY <1>3, <1>5, <1>6
-----------------------------------------------------------------------------
(* On to the next draft, with everything behind it done *)

(* The run x may be at a place of the plan. *)
Ahead(x, at, w, f) ==
  /\ at > 2 => x.scene > 0
  /\ at > 4 /\ f # "figure" => Assigned(w)
  /\ \A o \in 1..Outfits : /\ at > 3 * o + 2 => o \in x.unapplied \/ PieceSet(w, o)
                           /\ at > 3 * o + 3 => o \in x.unapplied \/ OutfitSet(w, o)
  /\ f = "figure" => at <= 3 \/ at >= 5 + 3 * Outfits
  /\ f = "nothing" => x.unapplied = {}
  /\ at <= PlanLength => /\ f = "piece" => Plan[at].kind \notin {"outfit", "beat"}
                         /\ f = "outfit" => Plan[at].kind # "beat"

(* It knows the version of the scene as well as it needs to. *)
Knows(x, at, w, m, f, rs) ==
  at > 4 /\ f # "figure" =>
    /\ \/ x.scene = w.version[SceneOf]
       \/ Scheduled(w)
       \/ f = "nothing" /\ \E o \in 1..Outfits : m[Beat(o)] <= 0 /\ at <= BeatAt(o)
    /\ x.scene < w.version[SceneOf] => NoneLate(rs, w)

LEMMA SceneVersionIsLargest ==
  ASSUME TypeOK, ConfirmedIsReal, NEW x, x.scene \in Nat, x.scene <= world.version[SceneOf]
  PROVE  x.scene <= SceneVersion(x)
<1> DEFINE rows == {mapping[Beat(o)] : o \in 1..Outfits} \cup {x.scene}
<1>1. world.version[SceneOf] \in Nat
  BY SceneIsAggregate DEF TypeOK, Worlds
<1>2. \A o \in 1..Outfits : mapping[Beat(o)] \in Int /\ mapping[Beat(o)] <= world.version[SceneOf]
  <2> TAKE o \in 1..Outfits
  <2>1. Beat(o) \in Keys /\ StreamOf(Beat(o)) = SceneOf
    BY BeatIsKey
  <2>2. mapping[Beat(o)] \in Int
    BY <2>1 DEF TypeOK
  <2>3. mapping[Beat(o)] > 0 => mapping[Beat(o)] <= world.version[SceneOf]
    BY <2>1 DEF ConfirmedIsReal
  <2> QED BY <1>1, <2>2, <2>3
<1>3. rows # {} /\ \A n \in rows : n \in Int /\ n <= world.version[SceneOf]
  BY <1>2
<1>4. x.scene \in rows
  OBVIOUS
<1>5. SceneVersion(x) = CHOOSE v \in rows : \A n \in rows : n <= v
  BY DEF SceneVersion, Beat
<1> HIDE DEF rows
<1>6. \E v \in rows : \A n \in rows : n <= v
  BY <1>1, <1>3, LargestBelow
<1> QED BY <1>4, <1>5, <1>6

LEMMA AdvanceCompletes ==
  ASSUME TypeOK, ConfirmedIsReal, NEW w \in Worlds, Grows(world, w), NEW m \in Maps,
         NEW x, AtWork(x, w), NEW n \in Nat \ {0}, NEW f, NEW rs,
         x.at + n = 4 => x.scene <= world.version[SceneOf],
         x.at + n > PlanLength => x.at = PlanLength /\ Scheduled(w) /\ BehindInv(x, w, f),
         Ahead(x, x.at + n, w, f), Knows(x, x.at + n, w, m, f, rs)
  PROVE  /\ BehindInv(Advance(x, n), w, f)
         /\ SyncInv(Advance(x, n), w, m, f, rs)
<1> DEFINE y == Advance(x, n)
<1>0. /\ x \in RunRecords /\ x.at \in 1..PlanLength /\ x.scene \in Nat /\ x.version \in Nat
      /\ PlanLength \in Nat /\ x.phase = "working" /\ x.scene <= w.version[SceneOf]
      /\ w.version[SceneOf] \in Nat
  BY PlanLengthNat, SceneIsAggregate DEF AtWork, RunRecords, Worlds
<1>1. CASE x.at + n > PlanLength
  <2>1. y = [x EXCEPT !.phase = "ending"]
    BY <1>1 DEF Advance
  <2>2. /\ y.phase = "ending" /\ y.todo = x.todo /\ y.at = x.at /\ y.version = x.version
        /\ y.scene = x.scene /\ y.unapplied = x.unapplied /\ y.pending = x.pending
        /\ y.again = x.again
    BY <1>0, <2>1 DEF RunRecords
  <2> HIDE DEF y
  <2>3. BehindInv(y, w, f) /\ SyncInv(y, w, m, f, rs)
    BY <1>1, <2>2 DEF BehindInv, SyncInv
  <2> QED BY <2>3 DEF y
<1>2. CASE ~(x.at + n > PlanLength)
  <2> DEFINE at == x.at + n
             todo == IF Plan[at].kind = "assign" THEN "assign" ELSE "find"
             scene == IF Plan[at].kind = "assign" THEN SceneVersion(x) ELSE x.scene
  <2>1. y = [x EXCEPT !.at = at, !.again = FALSE, !.todo = todo, !.scene = scene]
    BY <1>0, <1>2 DEF Advance, RunRecords
  <2>2. at \in 1..PlanLength /\ at <= PlanLength
    BY <1>0, <1>2
  <2>3. scene \in Nat /\ x.scene <= scene /\ (at # 4 => scene = x.scene)
    <3>1. CASE Plan[at].kind = "assign"
      <4>1. at = 4
        BY <2>2, <3>1, KindsOfPlan
      <4>2. SceneVersion(x) \in Nat /\ x.scene <= SceneVersion(x)
        BY <1>0, <4>1, SceneVersionReached, SceneVersionIsLargest
      <4> QED BY <3>1, <4>1, <4>2
    <3>2. CASE Plan[at].kind # "assign"
      BY <1>0, <3>2
    <3> QED BY <3>1, <3>2
  <2>4. todo \in {"assign", "find"}
    OBVIOUS
  <2>5. Ahead(x, at, w, f) /\ Knows(x, at, w, m, f, rs)
    OBVIOUS
  <2> HIDE DEF at, todo, scene
  <2>6. /\ y.phase = "working" /\ y.todo = todo /\ y.at = at /\ y.again = FALSE
        /\ y.scene = scene /\ y.unapplied = x.unapplied
    BY <1>0, <2>1 DEF RunRecords
  <2> HIDE DEF y
  <2>7. at > 2 => scene > 0
    BY <1>0, <2>3, <2>5 DEF Ahead
  <2>8. y.todo \notin {"category", "notes", "confirm", "create", "beat"}
    BY <2>4, <2>6
  <2>9. BehindInv(y, w, f)
    BY <2>2, <2>5, <2>6, <2>7, <2>8 DEF BehindInv, Ahead
  <2>10. SyncInv(y, w, m, f, rs)
    <3> SUFFICES ASSUME at > 4, f # "figure"
                 PROVE  /\ \/ y.scene = w.version[SceneOf]
                           \/ Scheduled(w)
                           \/ /\ f = "nothing"
                              /\ \E o \in 1..Outfits :
                                   /\ m[Beat(o)] <= 0
                                   /\ y.at < BeatAt(o) \/ (y.at = BeatAt(o) /\ y.todo \in {"find", "beat"})
                        /\ y.scene < w.version[SceneOf] => NoneLate(rs, w)
      BY <2>6, <2>8 DEF SyncInv
    <3>1. y.scene = x.scene /\ y.todo = "find"
      <4>1. at # 4
        BY <2>2
      <4>2. Plan[at].kind # "assign"
        BY <2>2, <4>1, KindsOfPlan
      <4> QED BY <2>3, <2>6, <4>1, <4>2 DEF todo
    <3>2. \A o \in 1..Outfits : at <= BeatAt(o) => at < BeatAt(o) \/ at = BeatAt(o)
      BY <2>2 DEF BeatAt
    <3>3. y.scene < w.version[SceneOf] => NoneLate(rs, w)
      BY <2>5, <3>1 DEF Knows
    <3>4. \/ y.scene = w.version[SceneOf] \/ Scheduled(w)
          \/ f = "nothing" /\ \E o \in 1..Outfits : m[Beat(o)] <= 0 /\ at <= BeatAt(o)
      BY <2>5, <3>1 DEF Knows
    <3> QED BY <2>6, <3>1, <3>2, <3>3, <3>4
  <2> QED BY <2>9, <2>10 DEF y
<1> QED BY <1>1, <1>2

LEMMA NextKind ==
  ASSUME NEW i \in 1..PlanLength, i + 1 <= PlanLength
  PROVE  /\ Plan[i + 1].kind = "outfit" => Plan[i].kind = "piece"
         /\ Plan[i + 1].kind = "beat" => Plan[i].kind = "outfit"
<1>1. i + 1 \in 1..PlanLength
  BY PlanLengthNat
<1>2. ASSUME Plan[i + 1].kind = "outfit" PROVE Plan[i].kind = "piece"
  <2>1. PICK o \in 1..Outfits : i + 1 = 3 * o + 3
    BY <1>1, <1>2, KindsOfPlan
  <2>2. i = 3 * o + 2
    BY <2>1, ApplyConstants
  <2> QED BY <2>2, PlanOutfits, StepFields
<1>3. ASSUME Plan[i + 1].kind = "beat" PROVE Plan[i].kind = "outfit"
  <2>1. PICK o \in 1..Outfits : i + 1 = 3 * o + 4
    BY <1>1, <1>3, KindsOfPlan DEF BeatAt
  <2>2. i = 3 * o + 3
    BY <2>1, ApplyConstants
  <2> QED BY <2>2, PlanOutfits, StepFields
<1> QED BY <1>2, <1>3
-----------------------------------------------------------------------------
(* Steps that keep what is behind the runs *)

(* Only while every outfit is created do the runs reach a beat, and then    *)
(* none of them leaves any out.                                             *)
LEMMA BeatMeansNothing ==
  ASSUME ApplyInv, CompleteInv, Quiet, NEW r \in Runs, Plan[run[r].at].kind = "beat"
  PROVE  refused = "nothing" /\ \A q \in Runs : run[q].unapplied = {}
<1>1. refused \in {"nothing", "figure", "piece", "outfit"} /\ run[r] \in RunRecords
  BY InvParts
<1>2. \A q \in Runs : BehindInv(run[q], world, refused)
  BY DEF CompleteInv
<1>3. run[r].at \in 1..PlanLength
  BY <1>1 DEF RunRecords
<1>4. Plan[run[r].at].o \in 1..Outfits /\ run[r].at = 3 * Plan[run[r].at].o + 4
  BY <1>3, KindsOfPlan DEF BeatAt
<1>5. ~(run[r].at <= 3 \/ run[r].at >= 5 + 3 * Outfits)
  BY <1>4, ApplyConstants
<1>6. refused = "nothing"
  BY <1>1, <1>2, <1>5 DEF BehindInv
<1> QED BY <1>2, <1>6 DEF BehindInv

LEMMA LateOthers ==
  ASSUME ApplyInv, NEW q \in Runs, LateInv(run[q], world, mapping), world' \in Worlds,
         mapping' \in Maps, Grows(world, world'),
         world'.version[SceneOf] = world.version[SceneOf] => world'.beats = world.beats,
         \A k \in Keys : mapping[k] <= 0 => mapping'[k] <= 0
  PROVE  LateInv(run[q], world', mapping')
<1>1. /\ run[q] \in RunRecords /\ world \in Worlds /\ mapping \in Maps
      /\ RecordInv(run[q], world, mapping)
  BY InvParts
<1>2. world.version[SceneOf] <= world'.version[SceneOf]
  BY SceneIsAggregate DEF Grows
<1>3. run[q].todo = "beat" => Plan[run[q].at] \in Keys
  <2> HAVE run[q].todo = "beat"
  <2>1. run[q].at \in 1..PlanLength /\ Plan[run[q].at].kind # "assign"
    BY <1>1 DEF RunRecords, RecordInv, TodosOf
  <2> QED BY <2>1, AtKey
<1> QED BY <1>1, <1>2, <1>3, LateKept

(* A step of the run that has the slot: the others are not at work. *)
LEMMA WorkerStep ==
  ASSUME ApplyInv, CompleteInv, NEW r \in Runs, run[r].phase = "working", NEW y,
         run' = [run EXCEPT ![r] = y], refused' = refused, edits' = edits,
         slot.stolen => slot'.stolen, world' \in Worlds, Grows(world, world'),
         Quiet =>
           /\ FactsInv(world', refused) /\ world.facts \subseteq world'.facts
           /\ BehindInv(y, world', refused) /\ SyncInv(y, world', mapping', refused, run')
           /\ LateInv(y, world', mapping')
           /\ \A q \in Runs \ {r} : LateInv(run[q], world', mapping')
  PROVE  CompleteInv'
<1>1. /\ run \in [Runs -> RunRecords] /\ world \in Worlds /\ slot.stolen \in BOOLEAN
      /\ ~slot.stolen => \A q \in Runs : run[q].phase \in {"working", "ending"} => slot.owner = q
      /\ \A q \in Runs : run[q] \in RunRecords /\ RecordInv(run[q], world, mapping)
  BY InvParts
<1>2. edits' \in Nat
  BY DEF CompleteInv
<1>3. SUFFICES ASSUME Quiet'
               PROVE  /\ FactsInv(world', refused')
                      /\ \A q \in Runs : /\ BehindInv(run'[q], world', refused')
                                         /\ SyncInv(run'[q], world', mapping', refused', run')
                                         /\ LateInv(run'[q], world', mapping')
  BY <1>2 DEF CompleteInv
<1>4. Quiet
  BY <1>3 DEF Quiet
<1>5. \A q \in Runs : run'[q] = IF q = r THEN y ELSE run[q]
  BY <1>1
<1>6. ASSUME NEW q \in Runs, q # r
      PROVE  BehindInv(run[q], world', refused) /\ SyncInv(run[q], world', mapping', refused, run')
  <2>1. run[q].phase # "working"
    BY <1>1, <1>4, <1>6 DEF Quiet
  <2>2. BehindInv(run[q], world, refused)
    BY <1>4 DEF CompleteInv
  <2>3. run[q].todo \in TodosOf(Plan[run[q].at].kind)
    BY <1>1 DEF RecordInv
  <2>4. BehindInv(run[q], world', refused)
    BY <1>1, <1>4, <2>2, <2>3, BehindKept
  <2> QED BY <2>1, <2>4 DEF SyncInv
<1> QED BY <1>4, <1>5, <1>6
(* A step that changes only how a run stands. *)
LEMMA PhaseComplete ==
  ASSUME ApplyInv, CompleteInv, NEW r \in Runs, NEW phase, NEW clear, NEW late \in BOOLEAN,
         run' = [run EXCEPT ![r] = [run[r] EXCEPT !.phase = phase, !.clear = clear, !.late = late]],
         run' \in [Runs -> RunRecords],
         world' = world, mapping' = mapping, refused' = refused, edits' = edits,
         slot.stolen => slot'.stolen,
         phase = "working" => run[r].phase = "new",
         phase \in {"ending", "done"} => run[r].phase \in {"ending", "done"},
         phase \in {"new", "refused"} => run[r].phase \in {"new", "refused"},
         late => run[r].late \/ run[r].phase = "working"
  PROVE  CompleteInv'
<1> DEFINE x == run[r]
           y == [run[r] EXCEPT !.phase = phase, !.clear = clear, !.late = late]
<1>1. /\ run \in [Runs -> RunRecords] /\ world \in Worlds /\ slot.stolen \in BOOLEAN
      /\ ~slot.stolen => \A q \in Runs : run[q].phase \in {"working", "ending"} => slot.owner = q
      /\ ~slot.stolen /\ (\A q \in Runs : run[q].unapplied = {}) =>
           BeatsInv(world, mapping) /\ \A q \in Runs : SendInv(run[q], world, mapping)
      /\ \A q \in Runs : run[q] \in RunRecords /\ RecordInv(run[q], world, mapping)
  BY InvParts
<1>2. edits' \in Nat
  BY DEF CompleteInv
<1>3. SUFFICES ASSUME Quiet'
               PROVE  /\ FactsInv(world', refused')
                      /\ \A q \in Runs : /\ BehindInv(run'[q], world', refused')
                                         /\ SyncInv(run'[q], world', mapping', refused', run')
                                         /\ LateInv(run'[q], world', mapping')
  BY <1>2 DEF CompleteInv
<1>4. Quiet
  BY <1>3 DEF Quiet
<1>5. /\ FactsInv(world, refused)
      /\ \A q \in Runs : /\ BehindInv(run[q], world, refused)
                         /\ SyncInv(run[q], world, mapping, refused, run)
                         /\ LateInv(run[q], world, mapping)
  BY <1>4 DEF CompleteInv
<1>6. /\ y.phase = phase /\ y.late = late /\ y.at = x.at /\ y.todo = x.todo
      /\ y.version = x.version /\ y.scene = x.scene /\ y.unapplied = x.unapplied
      /\ y.again = x.again /\ y.pending = x.pending
  BY <1>1 DEF RunRecords
<1>7. \A q \in Runs : run'[q] = IF q = r THEN y ELSE run[q]
  BY <1>1
<1> HIDE DEF y
<1>8. BehindInv(y, world, refused)
  <2>1. BehindInv(x, world, refused)
    BY <1>5
  <2> QED BY <1>6, <2>1 DEF BehindInv
<1>9. SyncInv(y, world, mapping, refused, run')
  <2>1. x.phase = "new" => x.at = 1
    BY <1>5 DEF BehindInv
  <2> QED BY <1>6, <2>1 DEF SyncInv
<1>10. LateInv(y, world, mapping)
  <2>1. CASE x.late
    <3>1. LateInv(x, world, mapping)
      BY <1>5
    <3> QED BY <1>6, <2>1, <3>1 DEF LateInv
  <2>2. CASE x.phase = "working"
    <3> SUFFICES ASSUME x.todo = "beat" PROVE mapping[Plan[x.at]] <= 0
      BY <1>6 DEF LateInv
    <3>1. x.todo \in TodosOf(Plan[x.at].kind) /\ x.at \in 1..PlanLength
      BY <1>1 DEF RecordInv, RunRecords
    <3>2. Plan[x.at].kind = "beat"
      BY <3>1, KindsOfPlan DEF TodosOf, AllKinds
    <3>3. \A q \in Runs : run[q].unapplied = {}
      BY <1>4, <3>2, BeatMeansNothing
    <3>4. SendInv(x, world, mapping)
      BY <1>1, <1>4, <3>3 DEF Quiet
    <3> QED BY <2>2, <3>4 DEF SendInv
  <2>3. CASE ~late
    BY <1>6, <2>3 DEF LateInv
  <2> QED BY <2>1, <2>2, <2>3
<1>11. ASSUME NEW q \in Runs, q # r PROVE SyncInv(run[q], world, mapping, refused, run')
  <2>1. CASE run[q].phase # "working"
    BY <2>1 DEF SyncInv
  <2>2. CASE run[q].phase = "working"
    <3>1. x.phase # "working"
      BY <1>1, <1>4, <1>11, <2>2 DEF Quiet
    <3>2. \A p \in Runs : run'[p].late =>
            run[p].late /\ run[p].todo = run'[p].todo /\ run[p].scene = run'[p].scene
      BY <1>6, <1>7, <3>1
    <3>3. NoneLate(run, world) => NoneLate(run', world)
      BY <3>2 DEF NoneLate
    <3>4. SyncInv(run[q], world, mapping, refused, run)
      BY <1>5
    <3> QED BY <3>3, <3>4 DEF SyncInv
  <2> QED BY <2>1, <2>2
<1> QED BY <1>5, <1>7, <1>8, <1>9, <1>10, <1>11
(* A command whose answer nobody waits for *)
LEMMA LastCommandComplete ==
  ASSUME ApplyInv, CompleteInv, NotesInv, NEW r \in Runs, run[r].phase = "working" \/ run[r].late,
         run[r].todo \in Commands, NEW late, ~late,
         world' = Execute(world, r).world, mapping' = mapping, refused' = refused, edits' = edits,
         run' = [run EXCEPT ![r] = [run[r] EXCEPT !.phase = "failed", !.clear = run[r].clear,
                                                  !.late = late]],
         run' \in [Runs -> RunRecords], slot'.stolen = slot.stolen
  PROVE  CompleteInv'
<1> DEFINE x == run[r]
           s == At(r)
           a == Execute(world, r)
           y == [run[r] EXCEPT !.phase = "failed", !.clear = run[r].clear, !.late = late]
           V == world.version[SceneOf]
           W == world'.version[SceneOf]
<1>1. /\ TypeOK /\ ConfirmedIsReal /\ RunInv /\ SceneInv
      /\ run \in [Runs -> RunRecords] /\ world \in Worlds /\ slot.stolen \in BOOLEAN
      /\ mapping \in Maps
      /\ ~slot.stolen => \A q \in Runs : run[q].phase \in {"working", "ending"} => slot.owner = q
      /\ \A q \in Runs : run[q] \in RunRecords /\ RecordInv(run[q], world, mapping)
  BY InvParts
<1>2. edits' \in Nat
  BY DEF CompleteInv
<1>3. SUFFICES ASSUME Quiet'
               PROVE  /\ FactsInv(world', refused')
                      /\ \A q \in Runs : /\ BehindInv(run'[q], world', refused')
                                         /\ SyncInv(run'[q], world', mapping', refused', run')
                                         /\ LateInv(run'[q], world', mapping')
  BY <1>2 DEF CompleteInv
<1>4. Quiet
  BY <1>3 DEF Quiet
<1>5. /\ FactsInv(world, refused)
      /\ \A q \in Runs : /\ BehindInv(run[q], world, refused)
                         /\ SyncInv(run[q], world, mapping, refused, run)
                         /\ LateInv(run[q], world, mapping)
  BY <1>4 DEF CompleteInv
<1>6. /\ y.phase = "failed" /\ ~y.late /\ y.at = x.at /\ y.todo = x.todo
      /\ y.version = x.version /\ y.scene = x.scene /\ y.unapplied = x.unapplied
      /\ y.again = x.again /\ y.pending = x.pending
  BY <1>1 DEF RunRecords
<1>7. \A q \in Runs : run'[q] = IF q = r THEN y ELSE run[q]
  BY <1>1
<1>8. /\ world' \in Worlds /\ Grows(world, world')
      /\ W = V => world'.beats = world.beats
  BY <1>1, CommandOrder
<1>9. Effect(a, x, s) /\ world' = a.world
  BY <1>1, <1>4, <1>5, CommandEffect, NotesAreFresh
<1>10. s = Plan[x.at] /\ V \in Nat /\ W \in Nat /\ V <= W /\ x.at \in 1..PlanLength
       /\ \A q \in Runs : run[q].scene \in Nat /\ run[q].scene <= V /\ run[q].at \in 1..PlanLength
  BY <1>1, <1>8, SceneIsAggregate DEF At, Worlds, Grows, RunRecords, RecordInv
<1> HIDE DEF y, a, s
<1>11. FactsInv(world', refused) /\ world.facts \subseteq world'.facts
  BY <1>9 DEF Effect
<1>12. \A q \in Runs : BehindInv(run[q], world', refused)
  <2> TAKE q \in Runs
  <2>1. run[q].todo \in TodosOf(Plan[run[q].at].kind)
    BY <1>1 DEF RecordInv
  <2> QED BY <1>1, <1>5, <1>8, <1>11, <2>1, BehindKept
<1>13. BehindInv(y, world', refused) /\ SyncInv(y, world', mapping, refused, run')
       /\ LateInv(y, world', mapping)
  <2>1. BehindInv(x, world', refused)
    BY <1>12
  <2>2. BehindInv(y, world', refused)
    BY <1>6, <2>1 DEF BehindInv
  <2> QED BY <1>6, <2>2 DEF SyncInv, LateInv
<1>14. \A q \in Runs : LateInv(run[q], world', mapping)
  BY <1>1, <1>5, <1>8, LateOthers
<1>15. \A p \in Runs : run'[p].late =>
         p # r /\ run[p].late /\ run[p].todo = run'[p].todo /\ run[p].scene = run'[p].scene
  BY <1>6, <1>7
<1>16. ASSUME NEW q \in Runs, q # r PROVE SyncInv(run[q], world', mapping, refused, run')
  <2> SUFFICES ASSUME run[q].phase = "working", run[q].at > 4, refused # "figure"
               PROVE  SyncInv(run[q], world', mapping, refused, run')
    BY DEF SyncInv
  <2>1. /\ SyncInv(run[q], world, mapping, refused, run) /\ BehindInv(run[q], world, refused)
        /\ RecordInv(run[q], world, mapping)
    BY <1>1, <1>5
  <2>2. x.late
    BY <1>1, <1>4, <1>16 DEF Quiet
  <2>3. CASE W = V
    <3>1. NoneLate(run, world) => NoneLate(run', world')
      BY <1>15, <2>3 DEF NoneLate
    <3>2. Scheduled(world) => Scheduled(world')
      BY <1>11 DEF Scheduled
    <3>3. \A o : LastIs(world, o) => LastIs(world', o)
      BY <1>8, <2>3 DEF LastIs
    <3> QED BY <2>1, <2>3, <3>1, <3>2, <3>3 DEF SyncInv
  <2>4. CASE W # V
    <3>1. V # 0
      BY <1>10, <2>1 DEF BehindInv
    <3>2. /\ x.todo \in ToScene /\ x.scene = V
          /\ x.todo = "assign" => ~Assigned(world)
          /\ x.todo = "schedule" => Scheduled(world')
          /\ x.todo = "beat" => ~LastIs(world, s.o)
      BY <1>9, <2>4, <3>1 DEF Effect
    <3>3. ~NoneLate(run, world)
      BY <1>10, <2>2, <3>2 DEF NoneLate
    <3>4. ~run[q].again /\ ~(run[q].scene < V)
          /\ (Plan[run[q].at].kind = "beat" /\ run[q].todo = "confirm" => LastIs(world, Plan[run[q].at].o))
      BY <2>1, <3>3 DEF SyncInv
    <3>5. NoneLate(run', world')
      <4>1. \A p \in Runs : run'[p].late => run'[p].scene < W
        BY <1>10, <1>15, <2>4
      <4> QED BY <4>1 DEF NoneLate
    <3>6. \/ Scheduled(world')
          \/ /\ refused = "nothing"
             /\ \E o \in 1..Outfits :
                  /\ mapping[Beat(o)] <= 0
                  /\ \/ run[q].at < BeatAt(o)
                     \/ run[q].at = BeatAt(o) /\ run[q].todo \in {"find", "beat"}
      <4>1. CASE x.todo = "assign"
        BY <2>1, <3>2, <4>1 DEF BehindInv
      <4>2. CASE x.todo = "schedule"
        BY <3>2, <4>2
      <4>3. CASE x.todo = "beat"
        <5>1. x.todo \in TodosOf(Plan[x.at].kind)
          BY <1>1 DEF RecordInv
        <5>2. Plan[x.at].kind = "beat"
          BY <1>10, <4>3, <5>1, KindsOfPlan DEF TodosOf, AllKinds
        <5>3. refused = "nothing" /\ run[q].unapplied = {}
          BY <1>4, <5>2, BeatMeansNothing
        <5>4. s.o \in 1..Outfits /\ s = Beat(s.o)
          BY <1>10, <5>2, KindsOfPlan DEF Beat
        <5> DEFINE o == s.o
        <5>5. mapping[Beat(o)] <= 0
          <6>1. LateInv(x, world, mapping)
            BY <1>5
          <6> QED BY <1>10, <2>2, <3>2, <4>3, <5>4, <6>1 DEF LateInv
        <5>6. ~(run[q].at > BeatAt(o))
          <6>1. run[q].at > BeatAt(o) => o \in run[q].unapplied \/ mapping[Beat(o)] > 0
            BY <2>1, <5>4 DEF RecordInv
          <6>2. mapping[Beat(o)] \in Int
            BY <1>1, <5>4, BeatIsKey DEF Maps
          <6> QED BY <5>3, <5>5, <6>1, <6>2
        <5>7. run[q].at < BeatAt(o) \/ run[q].at = BeatAt(o)
          BY <1>10, <5>4, <5>6, ApplyConstants DEF BeatAt
        <5>8. run[q].at = BeatAt(o) => run[q].todo \in {"find", "beat"}
          <6> HAVE run[q].at = BeatAt(o)
          <6>1. Plan[run[q].at].kind = "beat" /\ Plan[run[q].at].o = o
            BY <5>4, BeatIsKey
          <6>2. run[q].todo \in {"find", "beat", "confirm"}
            BY <2>1, <6>1 DEF RecordInv, TodosOf
          <6> QED BY <3>2, <3>4, <4>3, <6>1, <6>2
        <5> QED BY <5>3, <5>4, <5>5, <5>7, <5>8
      <4> QED BY <3>2, <4>1, <4>2, <4>3 DEF ToScene
    <3> QED BY <3>4, <3>5, <3>6 DEF SyncInv
  <2> QED BY <2>3, <2>4
<1> QED BY <1>7, <1>11, <1>12, <1>13, <1>14, <1>16
-----------------------------------------------------------------------------
(* Steps of the run at work *)

(* The draft a run is at is done. *)
DraftDone(x, w, f) ==
  LET s == Plan[x.at]
  IN  /\ s.kind # f
      /\ s.kind = "scene" => x.scene > 0
      /\ s.kind = "assign" /\ f # "figure" => Assigned(w)
      /\ s.kind = "piece" => PieceSet(w, s.o)
      /\ s.kind = "outfit" => OutfitSet(w, s.o)

LEMMA NextAhead ==
  ASSUME NEW x \in RunRecords, NEW y \in RunRecords, NEW w, NEW f, BehindInv(x, w, f),
         y.at = x.at, y.unapplied = x.unapplied, x.at > 2 => x.scene <= y.scene,
         DraftDone(y, w, f)
  PROVE  Ahead(y, y.at + 1, w, f)
<1> DEFINE i == x.at
           s == Plan[x.at]
<1>0. i \in 1..PlanLength /\ x.scene \in Nat /\ y.scene \in Nat /\ Outfits \in Nat
      /\ PlanLength = 6 + 3 * Outfits
  BY ApplyConstants DEF RunRecords, PlanLength
<1>1. i + 1 > 2 => y.scene > 0
  <2>1. CASE i = 2
    <3>1. s.kind = "scene"
      BY <2>1, PlanEnds, StepFields
    <3> QED BY <3>1 DEF DraftDone
  <2>2. CASE i > 2
    BY <1>0, <2>2 DEF BehindInv
  <2> QED BY <1>0, <2>1, <2>2
<1>2. i + 1 > 4 /\ f # "figure" => Assigned(w)
  <2>1. CASE i = 4
    <3>1. s.kind = "assign"
      BY <2>1, PlanEnds, StepFields
    <3> QED BY <3>1 DEF DraftDone
  <2>2. CASE i > 4
    BY <2>2 DEF BehindInv
  <2> QED BY <1>0, <2>1, <2>2
<1>3. ASSUME NEW o \in 1..Outfits
      PROVE  /\ i + 1 > 3 * o + 2 => o \in y.unapplied \/ PieceSet(w, o)
             /\ i + 1 > 3 * o + 3 => o \in y.unapplied \/ OutfitSet(w, o)
  <2>1. ASSUME i = 3 * o + 2 PROVE PieceSet(w, o)
    <3>1. s.kind = "piece" /\ s.o = o
      BY <2>1, PlanOutfits, StepFields
    <3> QED BY <3>1 DEF DraftDone
  <2>2. ASSUME i = 3 * o + 3 PROVE OutfitSet(w, o)
    <3>1. s.kind = "outfit" /\ s.o = o
      BY <2>2, PlanOutfits, StepFields
    <3> QED BY <3>1 DEF DraftDone
  <2>3. /\ i > 3 * o + 2 => o \in y.unapplied \/ PieceSet(w, o)
        /\ i > 3 * o + 3 => o \in y.unapplied \/ OutfitSet(w, o)
    BY DEF BehindInv
  <2>4. (i + 1 > 3 * o + 2 => i > 3 * o + 2 \/ i = 3 * o + 2)
        /\ (i + 1 > 3 * o + 3 => i > 3 * o + 3 \/ i = 3 * o + 3)
    BY <1>0
  <2> QED BY <2>1, <2>2, <2>3, <2>4
<1>4. f = "figure" => i + 1 <= 3 \/ i + 1 >= 5 + 3 * Outfits
  <2> HAVE f = "figure"
  <2>1. i # 3
    <3>1. i = 3 => s.kind = "figure"
      BY PlanEnds, StepFields
    <3> QED BY <3>1 DEF DraftDone
  <2>2. i <= 3 \/ i >= 5 + 3 * Outfits
    BY DEF BehindInv
  <2> QED BY <1>0, <2>1, <2>2
<1>5. f = "nothing" => y.unapplied = {}
  BY DEF BehindInv
<1>6. ASSUME i + 1 <= PlanLength
      PROVE  /\ f = "piece" => Plan[i + 1].kind \notin {"outfit", "beat"}
             /\ f = "outfit" => Plan[i + 1].kind # "beat"
  <2>1. Plan[i + 1].kind = "outfit" => s.kind = "piece"
    BY <1>0, <1>6, NextKind
  <2>2. Plan[i + 1].kind = "beat" => s.kind = "outfit"
    BY <1>0, <1>6, NextKind
  <2>3. s.kind # f
    BY DEF DraftDone
  <2>4. f = "piece" => s.kind # "outfit"
    BY DEF BehindInv
  <2> QED BY <2>1, <2>2, <2>3, <2>4
<1> QED BY <1>1, <1>2, <1>3, <1>4, <1>5, <1>6 DEF Ahead

(* What a run knows of the scene stays as good while it works on a draft    *)
(* that is none of the scene's, and when it goes on to the next.            *)
LEMMA SyncMoves ==
  ASSUME NEW x, NEW y, NEW w, NEW v, NEW m, NEW n, NEW f, NEW rs, NEW qs,
         SyncInv(x, w, m, f, rs), x.phase = "working",
         y.at = x.at, y.scene = x.scene, y.again = x.again, y.todo # "beat",
         Plan[x.at].kind # "beat", x.at \in 1..PlanLength,
         v.version[SceneOf] = w.version[SceneOf], Scheduled(w) => Scheduled(v),
         \A o \in 1..Outfits : m[Beat(o)] <= 0 => n[Beat(o)] <= 0,
         NoneLate(rs, w) => NoneLate(qs, v)
  PROVE  SyncInv(y, v, n, f, qs)
<1>1. \A o \in 1..Outfits : x.at # BeatAt(o)
  BY BeatIsKey
<1> QED BY <1>1 DEF SyncInv

LEMMA KnowsMoves ==
  ASSUME NEW x, NEW y, NEW w, NEW v, NEW m, NEW n, NEW f, NEW rs, NEW qs,
         SyncInv(x, w, m, f, rs), x.phase = "working", x.at \in 1..PlanLength,
         x.at # 4, y.at = x.at, x.scene \in Nat, y.scene \in Nat, v.version[SceneOf] \in Nat,
         x.at > 2 => x.scene <= y.scene, y.scene <= v.version[SceneOf],
         x.at > 4 => v.version[SceneOf] = w.version[SceneOf],
         Scheduled(w) => Scheduled(v),
         \A o \in 1..Outfits : m[Beat(o)] <= 0 /\ x.at # BeatAt(o) => n[Beat(o)] <= 0,
         Plan[x.at].kind = "beat" /\ x.todo \in {"find", "beat"} => m[Plan[x.at]] > 0,
         m \in Maps, NoneLate(rs, w) => NoneLate(qs, v)
  PROVE  Knows(y, y.at + 1, v, n, f, qs)
<1> SUFFICES ASSUME x.at + 1 > 4, f # "figure"
             PROVE  /\ \/ y.scene = v.version[SceneOf]
                       \/ Scheduled(v)
                       \/ f = "nothing" /\ \E o \in 1..Outfits : n[Beat(o)] <= 0 /\ x.at + 1 <= BeatAt(o)
                    /\ y.scene < v.version[SceneOf] => NoneLate(qs, v)
  BY DEF Knows
<1>1. x.at > 4 /\ v.version[SceneOf] = w.version[SceneOf]
  OBVIOUS
<1>2. ASSUME NEW o \in 1..Outfits, m[Beat(o)] <= 0,
             x.at < BeatAt(o) \/ (x.at = BeatAt(o) /\ x.todo \in {"find", "beat"})
      PROVE  n[Beat(o)] <= 0 /\ x.at + 1 <= BeatAt(o)
  <2>1. BeatAt(o) \in Nat /\ Beat(o) \in Keys /\ Plan[BeatAt(o)] = Beat(o) /\ Beat(o).kind = "beat"
    BY BeatIsKey, PlanLengthNat
  <2>2. m[Beat(o)] \in Int
    BY <2>1 DEF Maps
  <2>3. x.at # BeatAt(o)
    <3> SUFFICES ASSUME x.at = BeatAt(o) PROVE FALSE
      OBVIOUS
    <3>1. m[Beat(o)] > 0
      BY <1>2, <2>1
    <3> QED BY <1>2, <2>2, <3>1
  <2> QED BY <1>2, <2>1, <2>3
<1>3. \/ x.scene = w.version[SceneOf] \/ Scheduled(w)
      \/ f = "nothing" /\ \E o \in 1..Outfits : n[Beat(o)] <= 0 /\ x.at + 1 <= BeatAt(o)
  BY <1>1, <1>2 DEF SyncInv
<1>4. x.scene < w.version[SceneOf] => NoneLate(rs, w)
  BY <1>1 DEF SyncInv
<1> QED BY <1>1, <1>3, <1>4
(* What a row says is left of its draft *)
LEMMA FromRow ==
  ASSUME NEW kind \in AllKinds \ {"assign"}, NEW o, NEW v \in Int, NEW t,
         t = FromMapping(Step(kind, o), v)
  PROVE  /\ t = "advance" => /\ v > 0
                             /\ kind = "piece" => v >= 3
                             /\ kind = "outfit" => v >= 2
         /\ t = "category" => kind = "piece" /\ v = 1
         /\ t = "notes" => (kind = "piece" /\ v = 2) \/ (kind = "outfit" /\ v = 1)
         /\ t = "create" /\ kind = "outfit" => v < 1
         /\ t = "create" => kind # "shoot"
         /\ kind = "beat" => t \in {"advance", "beat"}
         /\ t \notin {"find", "confirm", "assign"}
<1>1. Step(kind, o).kind = kind
  BY StepFields
<1>2. CASE kind = "piece"
  BY <1>1, <1>2 DEF FromMapping, PieceFrom
<1>3. CASE kind = "outfit"
  BY <1>1, <1>3 DEF FromMapping, OutfitFrom
<1>4. CASE kind \notin {"piece", "outfit"}
  <2>1. kind \in {"episode", "scene", "figure", "beat", "day", "shoot"}
    BY <1>4 DEF AllKinds
  <2>2. kind = "episode" => t = "create"
    BY <1>1 DEF FromMapping
  <2>3. kind = "beat" => t = IF v > 0 THEN "advance" ELSE "beat"
    BY <1>1 DEF FromMapping
  <2>4. kind = "shoot" => t = IF v > 0 THEN "advance" ELSE "schedule"
    BY <1>1 DEF FromMapping
  <2>5. kind \in {"scene", "figure", "day"} => t = IF v > 0 THEN "advance" ELSE "create"
    BY <1>1 DEF FromMapping
  <2> QED BY <1>4, <2>1, <2>2, <2>3, <2>4, <2>5
<1> QED BY <1>2, <1>3, <1>4

(* Streams that were written are not of the kind that is refused. *)
LEMMA WrittenFacts ==
  ASSUME NEW w \in Worlds, NEW f \in {"nothing", "figure", "piece", "outfit"}, FactsInv(w, f),
         NEW i \in 1..PlanLength, Plan[i].kind # "assign", NEW v \in Nat, v > 0,
         v <= w.version[StreamOf(Plan[i])]
  PROVE  /\ Plan[i].kind # f
         /\ Plan[i].kind = "piece" /\ v >= 3 => PieceSet(w, Plan[i].o)
         /\ Plan[i].kind = "outfit" /\ v >= 2 => OutfitSet(w, Plan[i].o)
         /\ Plan[i].kind = "shoot" => Scheduled(w)
<1> DEFINE s == Plan[i]
           n == w.version[StreamOf(s)]
<1>1. StreamOf(s) \in Aggregates /\ (s.kind # "beat" => StreamOf(s) = s) /\ n \in Nat
  BY AtKey DEF Worlds
<1>2. /\ s.kind = "piece" => s = PieceOf(s.o) /\ s.o \in 1..Outfits
      /\ s.kind = "outfit" => s = OutfitOf(s.o) /\ s.o \in 1..Outfits
      /\ s.kind = "figure" => s = Figure
      /\ s.kind = "shoot" => s = Shoot
  BY AtPlace
<1>3. n > 0 /\ (v >= 2 => n >= 2) /\ (v >= 3 => n >= 2 /\ n >= 3)
  BY <1>1
<1>4. CASE s.kind = "piece"
  <2>1. w.version[PieceOf(s.o)] = n /\ s.o \in 1..Outfits
    BY <1>1, <1>2, <1>4
  <2>2. f # "piece"
    <3>1. f = "piece" => w.version[PieceOf(s.o)] = 0
      BY <2>1 DEF FactsInv
    <3> QED BY <1>3, <2>1, <3>1
  <2>3. v >= 3 => PieceSet(w, s.o)
    BY <1>3, <2>1 DEF FactsInv, PieceSet
  <2> QED BY <1>4, <2>2, <2>3
<1>5. CASE s.kind = "outfit"
  <2>1. w.version[OutfitOf(s.o)] = n /\ s.o \in 1..Outfits
    BY <1>1, <1>2, <1>5
  <2>2. f # "outfit"
    <3>1. f = "outfit" => w.version[OutfitOf(s.o)] = 0
      BY <2>1 DEF FactsInv
    <3> QED BY <1>3, <2>1, <3>1
  <2>3. v >= 2 => OutfitSet(w, s.o)
    BY <1>3, <2>1 DEF FactsInv
  <2> QED BY <1>5, <2>2, <2>3
<1>6. CASE s.kind = "figure"
  <2>1. w.version[Figure] = n
    BY <1>1, <1>2, <1>6
  <2>2. f # "figure"
    BY <1>3, <2>1 DEF FactsInv
  <2> QED BY <1>6, <2>2
<1>7. CASE s.kind = "shoot"
  <2>1. w.version[Shoot] = n
    BY <1>1, <1>2, <1>7
  <2>2. Scheduled(w)
    BY <1>3, <2>1 DEF FactsInv
  <2> QED BY <1>7, <2>2
<1>8. CASE s.kind \notin {"piece", "outfit", "figure", "shoot"}
  BY <1>8, KindsOfPlan DEF AllKinds
<1> QED BY <1>4, <1>5, <1>6, <1>7, <1>8
LEMMA FindComplete ==
  ASSUME ApplyInv, CompleteInv, NEW r \in Runs, Find(r) PROVE CompleteInv'
<1> DEFINE s == At(r)
           v == Greater(mapping[s], 0)
           scene == IF s.kind \in {"scene", "beat"} THEN Greater(run[r].scene, v) ELSE run[r].scene
           pending == s.kind = "outfit" /\ v < 1
           x == run[r]
           z == [x EXCEPT !.version = v, !.pending = pending, !.scene = scene]
           t == FromMapping(s, mapping[s])
           y == Then(z, t)
           V == world.version[SceneOf]
<1>1. /\ TypeOK /\ ConfirmedIsReal /\ RunInv /\ run \in [Runs -> RunRecords]
      /\ Confirmed(mapping, world) /\ RecordInv(x, world, mapping)
      /\ refused \in {"nothing", "figure", "piece", "outfit"}
  BY InvParts
<1>2. /\ x \in RunRecords /\ x.at \in 1..PlanLength /\ s = Plan[x.at] /\ s.kind \in AllKinds
      /\ world \in Worlds /\ mapping \in Maps /\ x.scene \in Nat /\ V \in Nat /\ x.scene <= V
  BY <1>1, AtTypes DEF RecordInv
<1>3. Working(r) /\ x.todo = "find" /\ x.phase = "working" /\ ~x.clear /\ ~x.late
  BY <1>1, WorkingClear DEF Find
<1>4. s.kind # "assign" /\ s \in Keys /\ StreamOf(s) \in Aggregates /\ s = Step(s.kind, s.o)
      /\ (s.kind = "scene" => x.at = 2) /\ x.at # 4
      /\ (s.kind \in {"scene", "beat"} => StreamOf(s) = SceneOf)
  <2>1. s.kind # "assign"
    BY <1>1, <1>2, <1>3 DEF RecordInv, TodosOf
  <2>2. s.kind \in {"scene", "beat"} => StreamOf(s) = SceneOf
    BY <1>2, AtPlace DEF StreamOf
  <2> QED BY <1>2, <2>1, <2>2, AtKey, KindsOfPlan
<1>5. /\ mapping' \in Maps /\ \A k \in Keys : mapping[k] <= 0 <=> mapping'[k] <= 0
  BY <1>1, FindKeeps
<1>6. world' = world /\ refused' = refused /\ slot' = slot /\ edits' = edits
  BY DEF Find
<1>7. mapping[s] \in Int /\ v \in Nat /\ (v > 0 => v = mapping[s]) /\ (mapping[s] > 0 => v = mapping[s])
  BY <1>2, <1>4 DEF Greater, Maps
<1>8. v > 0 => v <= world.version[StreamOf(s)]
  BY <1>1, <1>4, <1>7 DEF Confirmed
<1>9. scene \in Nat /\ x.scene <= scene /\ scene <= V /\ (s.kind = "scene" => v <= scene)
  <2>1. s.kind \in {"scene", "beat"} /\ v > 0 => v <= V
    BY <1>4, <1>8
  <2> QED BY <1>2, <1>7, <2>1 DEF Greater
<1>10. /\ t = "advance" => /\ mapping[s] > 0
                           /\ s.kind = "piece" => mapping[s] >= 3
                           /\ s.kind = "outfit" => mapping[s] >= 2
       /\ t = "category" => s.kind = "piece" /\ mapping[s] = 1
       /\ t = "notes" => (s.kind = "piece" /\ mapping[s] = 2) \/ (s.kind = "outfit" /\ mapping[s] = 1)
       /\ t = "create" /\ s.kind = "outfit" => mapping[s] < 1
       /\ t = "create" => s.kind # "shoot"
       /\ s.kind = "beat" => t \in {"advance", "beat"}
       /\ t \notin {"find", "confirm", "assign"}
  <2>1. s.kind \in AllKinds \ {"assign"} /\ t = FromMapping(Step(s.kind, s.o), mapping[s])
    BY <1>2, <1>4
  <2> HIDE DEF s, t
  <2> QED BY <1>7, <2>1, FromRow
<1>11. run' = [run EXCEPT ![r] = y]
  BY <1>2 DEF Find, RunRecords
<1>12. pending \in BOOLEAN /\ (s.kind = "outfit" /\ v < 1 => pending)
  OBVIOUS
<1> HIDE DEF v, scene, pending, t
<1>13. z \in RunRecords
  BY <1>2, <1>7, <1>9, <1>12 DEF RunRecords
<1>14. /\ z.phase = "working" /\ z.at = x.at /\ z.todo = "find" /\ z.scene = scene
       /\ z.version = v /\ z.pending = pending /\ z.unapplied = x.unapplied /\ ~z.late /\ ~z.clear
       /\ z.again = x.again
  BY <1>2, <1>3 DEF RunRecords
<1> HIDE DEF z
<1>15. ASSUME Quiet
       PROVE  /\ FactsInv(world, refused) /\ BehindInv(y, world, refused)
              /\ SyncInv(y, world, mapping', refused, run') /\ LateInv(y, world, mapping')
              /\ \A q \in Runs \ {r} : LateInv(run[q], world, mapping')
  <2>1. /\ FactsInv(world, refused) /\ BehindInv(x, world, refused)
        /\ SyncInv(x, world, mapping, refused, run)
        /\ \A q \in Runs : LateInv(run[q], world, mapping)
    BY <1>15 DEF CompleteInv
  <2>2. Grows(world, world)
    BY <1>2, Reflexive
  <2>3. \A q \in Runs \ {r} : LateInv(run[q], world, mapping')
    BY <1>2, <1>5, <1>6, <2>1, <2>2, LateOthers
  <2>4. ~y.late
    <3>1. GoesOn(run'[r], x, world, mapping')
      BY <1>1, FindKeeps
    <3>2. run'[r] = y
      BY <1>1, <1>11
    <3> QED BY <3>1, <3>2 DEF GoesOn
  <2>5. NoneLate(run, world) => NoneLate(run', world)
    BY <1>1, <1>11, <2>4 DEF NoneLate
  <2>6. \A o \in 1..Outfits : mapping[Beat(o)] <= 0 => mapping'[Beat(o)] <= 0
    BY <1>5, BeatIsKey
  <2>7. BehindInv(z, world, refused)
    <3>1. z.scene > 0 \/ ~(z.at > 2)
      BY <1>2, <1>9, <1>14, <2>1 DEF BehindInv
    <3> QED BY <1>3, <1>14, <2>1, <3>1 DEF BehindInv
  <2>8. CASE t = "advance"
    <3>1. y = Advance(z, 1)
      BY <2>8 DEF Then
    <3>2. v = mapping[s] /\ v > 0
      BY <1>7, <1>10, <2>8
    <3>3. /\ s.kind # refused
          /\ s.kind = "piece" /\ v >= 3 => PieceSet(world, s.o)
          /\ s.kind = "outfit" /\ v >= 2 => OutfitSet(world, s.o)
          /\ s.kind = "shoot" => Scheduled(world)
      BY <1>1, <1>2, <1>4, <1>7, <1>8, <2>1, <3>2, WrittenFacts
    <3>4. DraftDone(z, world, refused)
      <4>1. s.kind = "scene" => z.scene > 0
        BY <1>7, <1>9, <1>14, <3>2
      <4> QED BY <1>2, <1>4, <1>10, <1>14, <2>8, <3>2, <3>3, <4>1 DEF DraftDone
    <3>5. Ahead(z, z.at + 1, world, refused)
      BY <1>2, <1>9, <1>13, <1>14, <2>1, <3>4, NextAhead
    <3>6. Knows(z, z.at + 1, world, mapping', refused, run')
      <4>1. Plan[x.at].kind = "beat" /\ x.todo \in {"find", "beat"} => mapping[Plan[x.at]] > 0
        BY <1>2, <3>2
      <4> QED BY <1>2, <1>3, <1>4, <1>9, <1>14, <2>1, <2>5, <2>6, <4>1, KnowsMoves
    <3>7. AtWork(z, world)
      BY <1>9, <1>13, <1>14 DEF AtWork
    <3>8. z.at + 1 > PlanLength => z.at = PlanLength /\ Scheduled(world)
      <4> HAVE z.at + 1 > PlanLength
      <4>1. z.at = PlanLength
        BY <1>2, <1>14, PlanLengthNat
      <4>2. s.kind = "shoot"
        BY <1>2, <1>14, <4>1, KindsOfPlan
      <4> QED BY <3>3, <4>1, <4>2
    <3>9. z.scene <= world.version[SceneOf]
      BY <1>9, <1>14
    <3>10. BehindInv(y, world, refused) /\ SyncInv(y, world, mapping', refused, run')
      BY <1>1, <1>2, <1>5, <2>2, <2>7, <3>1, <3>5, <3>6, <3>7, <3>8, <3>9, AdvanceCompletes
    <3> QED BY <2>1, <2>3, <2>4, <3>10 DEF LateInv
  <2>9. CASE t # "advance"
    <3>1. y = [z EXCEPT !.todo = t]
      BY <2>9 DEF Then
    <3>2. /\ y.phase = "working" /\ y.at = x.at /\ y.todo = t /\ y.scene = scene /\ y.version = v
          /\ y.pending = pending /\ y.unapplied = x.unapplied /\ y.again = x.again
      BY <1>13, <1>14, <3>1 DEF RunRecords
    <3> HIDE DEF y
    <3>3. ~x.again
      BY <1>3, <2>1 DEF BehindInv
    <3>4. BehindInv(y, world, refused)
      <4>1. t \in {"category", "notes"} => 0 < v /\ v <= world.version[StreamOf(s)]
        BY <1>7, <1>8, <1>10
      <4>2. s.kind = "piece" => (t = "category" => v = 1) /\ (t = "notes" => v = 2)
        BY <1>7, <1>10
      <4>3. s.kind = "outfit" /\ t = "create" => pending
        BY <1>7, <1>10, <1>12
      <4>4. x.at = PlanLength => t \notin {"create", "confirm"}
        <5>1. x.at = PlanLength => s.kind = "shoot"
          BY <1>2, KindsOfPlan
        <5> QED BY <1>10, <5>1
      <4> QED BY <1>2, <1>10, <1>14, <2>7, <3>2, <3>3, <4>1, <4>2, <4>3, <4>4 DEF BehindInv
    <3>5. SyncInv(y, world, mapping', refused, run')
      <4> SUFFICES ASSUME x.at > 4, refused # "figure"
                   PROVE  /\ \/ scene = V
                             \/ Scheduled(world)
                             \/ /\ refused = "nothing"
                                /\ \E o \in 1..Outfits :
                                     /\ mapping'[Beat(o)] <= 0
                                     /\ \/ x.at < BeatAt(o)
                                        \/ x.at = BeatAt(o) /\ t \in {"find", "beat"}
                          /\ scene < V => NoneLate(run', world)
        BY <1>10, <3>2, <3>3 DEF SyncInv
      <4>1. \/ x.scene = V
            \/ Scheduled(world)
            \/ /\ refused = "nothing"
               /\ \E o \in 1..Outfits :
                    mapping[Beat(o)] <= 0 /\ (x.at < BeatAt(o) \/ x.at = BeatAt(o))
        BY <1>3, <2>1 DEF SyncInv
      <4>2. x.scene < V => NoneLate(run, world)
        BY <1>3, <2>1 DEF SyncInv
      <4>3. ASSUME NEW o \in 1..Outfits, x.at = BeatAt(o) PROVE t = "beat"
        <5>1. s.kind = "beat"
          BY <1>2, <4>3, BeatIsKey
        <5> QED BY <1>10, <2>9, <5>1
      <4>4. (x.scene = V => scene = V) /\ (scene < V => x.scene < V)
        BY <1>2, <1>9
      <4> QED BY <2>5, <2>6, <4>1, <4>2, <4>3, <4>4
    <3> QED BY <2>1, <2>3, <2>4, <3>4, <3>5 DEF LateInv
  <2> QED BY <2>8, <2>9
<1> HIDE DEF y
<1>16. Grows(world, world') /\ world.facts \subseteq world'.facts
  BY <1>2, <1>6, Reflexive
<1> QED BY <1>2, <1>3, <1>6, <1>11, <1>15, <1>16, WorkerStep
LEMMA ConfirmComplete ==
  ASSUME ApplyInv, CompleteInv, NEW r \in Runs, Confirm(r) PROVE CompleteInv'
<1> DEFINE s == At(r)
           x == run[r]
           n == Greater(mapping[s], x.version)
           next == CASE s.kind = "piece" -> PieceFrom(x.version)
                     [] s.kind = "outfit" /\ x.pending -> "notes"
                     [] OTHER -> "advance"
           scene == IF s.kind = "scene" THEN x.version ELSE x.scene
           z == [x EXCEPT !.pending = FALSE, !.scene = scene]
           y == Then(z, next)
           V == world.version[SceneOf]
<1>1. /\ TypeOK /\ ConfirmedIsReal /\ RunInv /\ run \in [Runs -> RunRecords]
      /\ Confirmed(mapping, world) /\ RecordInv(x, world, mapping)
      /\ refused \in {"nothing", "figure", "piece", "outfit"}
      /\ \A q \in Runs : run[q] \in RunRecords /\ RecordInv(run[q], world, mapping)
  BY InvParts
<1>2. /\ x \in RunRecords /\ x.at \in 1..PlanLength /\ s = Plan[x.at] /\ s.kind \in AllKinds
      /\ world \in Worlds /\ mapping \in Maps /\ x.scene \in Nat /\ V \in Nat /\ x.scene <= V
      /\ x.version \in Nat
  BY <1>1, AtTypes DEF RecordInv
<1>3. Working(r) /\ x.todo = "confirm" /\ x.phase = "working" /\ ~x.clear /\ ~x.late
  BY <1>1, WorkingClear DEF Confirm
<1>4. s.kind # "assign" /\ s \in Keys /\ StreamOf(s) \in Aggregates /\ x.at # 4
      /\ (s.kind = "scene" => x.at = 2 /\ StreamOf(s) = SceneOf)
  <2>1. s.kind # "assign"
    BY <1>1, <1>2, <1>3 DEF RecordInv, TodosOf
  <2>2. s.kind = "scene" => StreamOf(s) = SceneOf
    BY <1>2, AtPlace DEF StreamOf
  <2> QED BY <1>2, <2>1, <2>2, AtKey, KindsOfPlan
<1>5. mapping' \in Maps /\ \A k \in Keys : mapping'[k] = IF k = s THEN n ELSE mapping[k]
  <2>1. mapping' = [mapping EXCEPT ![s] = n] /\ n \in Nat
    BY <1>2, <1>4 DEF Confirm, Maps, Greater
  <2> HIDE DEF n, s
  <2> QED BY <1>2, <1>4, <2>1 DEF Maps
<1>6. world' = world /\ refused' = refused /\ slot' = slot /\ edits' = edits
  BY DEF Confirm
<1>7. run' = [run EXCEPT ![r] = y]
  BY <1>2 DEF Confirm, RunRecords
<1>8. /\ next = "advance" => /\ s.kind = "piece" => x.version >= 3
                             /\ s.kind = "outfit" => ~x.pending
      /\ next # "advance" /\ x.version > 0 =>
           \/ s.kind = "piece" /\ next = "category" /\ x.version = 1
           \/ s.kind = "piece" /\ next = "notes" /\ x.version = 2
           \/ s.kind = "outfit" /\ next = "notes"
  BY <1>2 DEF PieceFrom
<1>9. x.version <= world.version[StreamOf(s)]
  BY <1>1, <1>2, <1>3 DEF RecordInv
<1>10. scene \in Nat /\ scene <= V /\ (s.kind # "scene" => scene = x.scene)
       /\ (s.kind = "scene" => scene = x.version)
  BY <1>2, <1>4, <1>9
<1> HIDE DEF n, next, scene
<1>11. z \in RunRecords
  BY <1>2, <1>10 DEF RunRecords
<1>12. /\ z.phase = "working" /\ z.at = x.at /\ z.todo = "confirm" /\ z.scene = scene
       /\ z.version = x.version /\ ~z.pending /\ z.unapplied = x.unapplied /\ ~z.late /\ ~z.clear
       /\ z.again = x.again
  BY <1>2, <1>3 DEF RunRecords
<1> HIDE DEF z
<1>13. ASSUME Quiet
       PROVE  /\ FactsInv(world, refused) /\ BehindInv(y, world, refused)
              /\ SyncInv(y, world, mapping', refused, run') /\ LateInv(y, world, mapping')
              /\ \A q \in Runs \ {r} : LateInv(run[q], world, mapping')
  <2>1. /\ FactsInv(world, refused) /\ BehindInv(x, world, refused)
        /\ SyncInv(x, world, mapping, refused, run)
        /\ \A q \in Runs : LateInv(run[q], world, mapping)
    BY <1>13 DEF CompleteInv
  <2>2. Grows(world, world)
    BY <1>2, Reflexive
  <2>3. ASSUME NEW q \in Runs PROVE LateInv(run[q], world, mapping')
    <3>1. ASSUME run[q].late, run[q].todo = "beat", run[q].scene = V, mapping[Plan[run[q].at]] <= 0
          PROVE  mapping'[Plan[run[q].at]] <= 0 \/ LastIs(world, Plan[run[q].at].o)
      <4>1. run[q].at \in 1..PlanLength /\ Plan[run[q].at].kind # "assign"
        BY <1>1, <3>1 DEF RunRecords, RecordInv, TodosOf
      <4>2. Plan[run[q].at].kind \in AllKinds /\ run[q].todo \in TodosOf(Plan[run[q].at].kind)
        BY <1>1, <4>1, KindsOfPlan DEF RecordInv
      <4>3. Plan[run[q].at] \in Keys /\ Plan[run[q].at].kind = "beat"
        BY <3>1, <4>1, <4>2, AtKey DEF TodosOf, AllKinds
      <4>4. CASE Plan[run[q].at] # s
        BY <1>5, <3>1, <4>3, <4>4
      <4>5. CASE Plan[run[q].at] = s
        <5>1. s.kind = "beat" /\ refused = "nothing"
          BY <1>2, <1>13, <4>3, <4>5, BeatMeansNothing
        <5>2. x.at > 4
          BY <1>2, <5>1, KindsOfPlan, ApplyConstants DEF BeatAt
        <5>3. LastIs(world, s.o) \/ NoneLate(run, world)
          BY <1>2, <1>3, <2>1, <5>1, <5>2 DEF SyncInv
        <5>4. ~NoneLate(run, world)
          BY <1>2, <3>1 DEF NoneLate, ToScene
        <5> QED BY <4>5, <5>3, <5>4
      <4> QED BY <4>4, <4>5
    <3>2. V <= V /\ LateInv(run[q], world, mapping) /\ run[q] \in RunRecords
          /\ RecordInv(run[q], world, mapping)
      BY <1>1, <1>2, <2>1
    <3> QED BY <1>2, <1>5, <3>1, <3>2, LateKept
  <2>4. ~y.late
    <3>1. GoesOn(run'[r], x, world, mapping')
      BY <1>1, ConfirmKeeps
    <3>2. run'[r] = y
      BY <1>1, <1>7
    <3> QED BY <3>1, <3>2 DEF GoesOn
  <2>5. NoneLate(run, world) => NoneLate(run', world)
    BY <1>1, <1>7, <2>4 DEF NoneLate
  <2>6. \A o \in 1..Outfits : mapping[Beat(o)] <= 0 /\ x.at # BeatAt(o) => mapping'[Beat(o)] <= 0
    <3> TAKE o \in 1..Outfits
    <3> HAVE mapping[Beat(o)] <= 0 /\ x.at # BeatAt(o)
    <3>1. Beat(o) \in Keys /\ Beat(o).kind = "beat" /\ Beat(o).o = o
      BY BeatIsKey
    <3>2. Beat(o) # s
      BY <1>2, <3>1, KindsOfPlan
    <3> QED BY <1>5, <3>1, <3>2
  <2>7. x.version > 0
    BY <1>3, <2>1 DEF BehindInv
  <2>8. /\ s.kind # refused
        /\ s.kind = "piece" /\ x.version >= 3 => PieceSet(world, s.o)
        /\ s.kind = "shoot" => Scheduled(world)
    BY <1>1, <1>2, <1>4, <1>9, <2>1, <2>7, WrittenFacts
  <2>9. z.scene <= V /\ (x.at > 2 => z.scene = x.scene /\ z.scene > 0)
    <3>1. x.at > 2 => x.scene > 0 /\ s.kind # "scene"
      BY <1>2, <1>4, <2>1 DEF BehindInv
    <3> QED BY <1>2, <1>10, <1>12, <3>1
  <2>10. CASE next = "advance"
    <3>1. y = Advance(z, 1)
      BY <2>10 DEF Then
    <3>2. DraftDone(z, world, refused)
      <4>1. s.kind = "outfit" => OutfitSet(world, s.o)
        BY <1>2, <1>3, <1>8, <2>1, <2>10 DEF BehindInv
      <4>2. s.kind = "scene" => z.scene > 0
        BY <1>10, <1>12, <2>7
      <4> QED BY <1>2, <1>4, <1>8, <1>12, <2>8, <2>10, <4>1, <4>2 DEF DraftDone
    <3>3. Ahead(z, z.at + 1, world, refused)
      BY <1>2, <1>11, <1>12, <2>1, <2>9, <3>2, NextAhead
    <3>4. Knows(z, z.at + 1, world, mapping', refused, run')
      BY <1>2, <1>3, <1>4, <1>10, <1>12, <2>1, <2>5, <2>6, <2>9, KnowsMoves
    <3>5. AtWork(z, world)
      BY <1>10, <1>11, <1>12 DEF AtWork
    <3>6. z.at + 1 > PlanLength => z.at = PlanLength /\ Scheduled(world) /\ BehindInv(z, world, refused)
      <4> HAVE z.at + 1 > PlanLength
      <4>1. z.at = PlanLength
        BY <1>2, <1>12, PlanLengthNat
      <4>2. s.kind = "shoot"
        BY <1>2, <1>12, <4>1, KindsOfPlan
      <4>3. BehindInv(z, world, refused)
        BY <1>2, <1>3, <1>12, <2>1, <2>9, <4>2 DEF BehindInv
      <4> QED BY <2>8, <4>1, <4>2, <4>3
    <3>7. BehindInv(y, world, refused) /\ SyncInv(y, world, mapping', refused, run')
      BY <1>1, <1>2, <1>5, <2>2, <2>9, <3>1, <3>3, <3>4, <3>5, <3>6, AdvanceCompletes
    <3> QED BY <2>1, <2>3, <2>4, <3>7 DEF LateInv
  <2>11. CASE next # "advance"
    <3>1. y = [z EXCEPT !.todo = next]
      BY <2>11 DEF Then
    <3>2. \/ s.kind = "piece" /\ next = "category" /\ x.version = 1
          \/ s.kind = "piece" /\ next = "notes" /\ x.version = 2
          \/ s.kind = "outfit" /\ next = "notes"
      BY <1>8, <2>7, <2>11
    <3>3. /\ y.phase = "working" /\ y.at = x.at /\ y.todo = next /\ y.scene = x.scene
          /\ y.version = x.version /\ y.unapplied = x.unapplied /\ y.again = x.again
      BY <1>10, <1>11, <1>12, <3>1, <3>2 DEF RunRecords
    <3> HIDE DEF y
    <3>4. x.at # PlanLength
      BY <1>2, <3>2, KindsOfPlan
    <3>5. BehindInv(y, world, refused)
      BY <1>2, <1>3, <2>1, <3>2, <3>3, <3>4 DEF BehindInv
    <3>6. SyncInv(y, world, mapping', refused, run')
      <4>1. \A o \in 1..Outfits : x.at # BeatAt(o)
        BY <1>2, <3>2, BeatIsKey
      <4> QED BY <1>2, <1>3, <2>1, <2>5, <2>6, <3>2, <3>3, <4>1, SyncMoves
    <3> QED BY <2>1, <2>3, <2>4, <3>5, <3>6 DEF LateInv
  <2> QED BY <2>10, <2>11
<1> HIDE DEF y
<1>14. Grows(world, world') /\ world.facts \subseteq world'.facts
  BY <1>2, <1>6, Reflexive
<1> QED BY <1>2, <1>3, <1>6, <1>7, <1>13, <1>14, WorkerStep
(* What is refused is reported with all that depends on it. *)
LEMMA RefusalCompletes ==
  ASSUME TypeOK, ConfirmedIsReal, NEW x, AtWork(x, world), NEW f \in {"figure", "piece", "outfit"},
         Plan[x.at].kind = f, BehindInv(x, world, f), SyncInv(x, world, mapping, f, run),
         NEW rs, NoneLate(run, world) => NoneLate(rs, world)
  PROVE  /\ BehindInv(AfterRefusal(x, Plan[x.at]), world, f)
         /\ SyncInv(AfterRefusal(x, Plan[x.at]), world, mapping, f, rs)
<1> DEFINE s == Plan[x.at]
           skipped == IF s.kind = "figure" THEN 1..Outfits ELSE {s.o}
           n == CASE s.kind = "figure" -> 2 + 3 * Outfits
                  [] s.kind = "piece"  -> 3
                  [] s.kind = "outfit" -> 2
                  [] s.kind = "beat"   -> 1
           z == [x EXCEPT !.unapplied = @ \cup skipped]
           y == AfterRefusal(x, s)
<1>0. /\ x \in RunRecords /\ x.at \in 1..PlanLength /\ x.unapplied \subseteq 1..Outfits
      /\ Outfits \in Nat /\ PlanLength = 6 + 3 * Outfits /\ x.scene \in Nat
      /\ x.phase = "working" /\ x.scene <= world.version[SceneOf] /\ world \in Worlds
      /\ mapping \in Maps /\ ~x.late /\ ~x.clear
  BY ApplyConstants DEF AtWork, RunRecords, PlanLength, TypeOK, Maps
<1>1. /\ s.kind = "figure" => x.at = 3 /\ n = 2 + 3 * Outfits /\ skipped = 1..Outfits
      /\ s.kind = "piece" => s.o \in 1..Outfits /\ x.at = 3 * s.o + 2 /\ n = 3 /\ skipped = {s.o}
      /\ s.kind = "outfit" => s.o \in 1..Outfits /\ x.at = 3 * s.o + 3 /\ n = 2 /\ skipped = {s.o}
  BY <1>0, KindsOfPlan
<1>2. y = Advance(z, n)
  BY DEF AfterRefusal
<1> HIDE DEF n, skipped
<1>3. skipped \subseteq 1..Outfits /\ n \in Nat \ {0} /\ x.at + n \in 1..PlanLength /\ x.at + n # 4
      /\ x.at > 2
  <2>1. CASE s.kind = "figure"
    BY <1>0, <1>1, <2>1
  <2>2. CASE s.kind = "piece"
    BY <1>0, <1>1, <2>2
  <2>3. CASE s.kind = "outfit"
    BY <1>0, <1>1, <2>3
  <2> QED BY <2>1, <2>2, <2>3
<1>4. z \in RunRecords
  BY <1>0, <1>3 DEF RunRecords
<1>5. /\ z.at = x.at /\ z.scene = x.scene /\ z.phase = x.phase /\ z.unapplied = x.unapplied \cup skipped
      /\ ~z.late /\ ~z.clear
  BY <1>0 DEF RunRecords
<1> HIDE DEF z, y
<1>6. AtWork(z, world)
  BY <1>0, <1>4, <1>5 DEF AtWork
<1>7. ASSUME NEW o \in 1..Outfits
      PROVE  /\ x.at + n > 3 * o + 2 => (x.at > 3 * o + 2 /\ x.at > 3 * o + 3) \/ o \in skipped
             /\ x.at + n > 3 * o + 3 => (x.at > 3 * o + 2 /\ x.at > 3 * o + 3) \/ o \in skipped
  <2>1. CASE s.kind = "figure"
    BY <1>1, <2>1
  <2>2. CASE s.kind = "piece"
    <3>1. x.at + n > 3 * o + 2 => o <= s.o
      BY <1>0, <1>1, <2>2
    <3>2. o <= s.o => o = s.o \/ (x.at > 3 * o + 2 /\ x.at > 3 * o + 3)
      BY <1>0, <1>1, <2>2
    <3>3. x.at + n > 3 * o + 3 => x.at + n > 3 * o + 2
      BY <1>0, <1>3
    <3> QED BY <1>1, <2>2, <3>1, <3>2, <3>3
  <2>3. CASE s.kind = "outfit"
    <3>1. x.at + n > 3 * o + 2 => o <= s.o
      BY <1>0, <1>1, <2>3
    <3>2. o <= s.o => o = s.o \/ (x.at > 3 * o + 2 /\ x.at > 3 * o + 3)
      BY <1>0, <1>1, <2>3
    <3>3. x.at + n > 3 * o + 3 => x.at + n > 3 * o + 2
      BY <1>0, <1>3
    <3> QED BY <1>1, <2>3, <3>1, <3>2, <3>3
  <2> QED BY <2>1, <2>2, <2>3
<1>8. x.at > 4 \/ f = "figure"
  BY <1>0, <1>1
<1>9. ASSUME f # "figure" PROVE Plan[x.at + n].kind \notin {"outfit", "beat"}
  <2>1. s.o \in 1..Outfits /\ x.at + n = 3 * s.o + 5
    <3>1. CASE s.kind = "piece"
      BY <1>0, <1>1, <3>1
    <3>2. CASE s.kind = "outfit"
      BY <1>0, <1>1, <3>2
    <3> QED BY <1>9, <3>1, <3>2
  <2>2. \A o \in 1..Outfits : x.at + n # 3 * o + 3 /\ x.at + n # 3 * o + 4
    BY <1>0, <2>1
  <2> QED BY <1>3, <2>2, KindsOfPlan DEF BeatAt
<1>10. Ahead(z, x.at + n, world, f)
  <2>1. x.scene > 0
    BY <1>3 DEF BehindInv
  <2>2. f # "figure" => Assigned(world)
    BY <1>8 DEF BehindInv
  <2>3. f = "figure" => x.at + n >= 5 + 3 * Outfits
    BY <1>0, <1>1
  <2>4. \A o \in 1..Outfits :
          /\ x.at + n > 3 * o + 2 => o \in z.unapplied \/ PieceSet(world, o)
          /\ x.at + n > 3 * o + 3 => o \in z.unapplied \/ OutfitSet(world, o)
    BY <1>5, <1>7 DEF BehindInv
  <2> QED BY <1>5, <1>9, <2>1, <2>2, <2>3, <2>4 DEF Ahead
<1>11. Knows(z, x.at + n, world, mapping, f, rs)
  BY <1>0, <1>5, <1>8 DEF Knows, SyncInv
<1>12. Grows(world, world) /\ ~(x.at + n > PlanLength)
  BY <1>0, <1>3, Reflexive
<1>13. BehindInv(y, world, f) /\ SyncInv(y, world, mapping, f, rs)
  BY <1>0, <1>2, <1>3, <1>5, <1>6, <1>10, <1>11, <1>12, AdvanceCompletes
<1> QED BY <1>13 DEF y
LEMMA AnswerCompletes ==
  ASSUME ApplyInv, CompleteInv, NotesInv, Quiet, NEW r \in Runs, Working(r), run[r].todo \in Commands,
         NEW a, NEW x, NEW s, a = Execute(world, r), x = run[r], s = At(r), NEW rs,
         NoneLate(run, world) => NoneLate(rs, a.world),
         a.world.version[SceneOf] # world.version[SceneOf] => NoneLate(rs, a.world)
  PROVE  /\ BehindInv(AfterAnswer(x, s, a), a.world, refused)
         /\ SyncInv(AfterAnswer(x, s, a), a.world, mapping, refused, rs)
<1> DEFINE w == a.world
           y == AfterAnswer(x, s, a)
           V == world.version[SceneOf]
           W == w.version[SceneOf]
<1>0. /\ TypeOK /\ ConfirmedIsReal /\ RunInv /\ SceneInv /\ RecordInv(x, world, mapping)
      /\ refused \in {"nothing", "figure", "piece", "outfit"}
  BY InvParts
<1>1. Answers(a, x, s)
  BY <1>0, ExecuteOK
<1>2. /\ FactsInv(world, refused) /\ BehindInv(x, world, refused)
      /\ SyncInv(x, world, mapping, refused, run)
  BY DEF CompleteInv
<1>3. Effect(a, x, s)
  BY <1>0, <1>2, CommandEffect, NotesAreFresh
<1>4. /\ x \in RunRecords /\ x.at \in 1..PlanLength /\ s = Plan[x.at] /\ s.kind \in AllKinds
      /\ world \in Worlds /\ mapping \in Maps /\ x.version \in Nat /\ x.scene \in Nat
      /\ w \in Worlds /\ Grows(world, w) /\ a.version \in Nat /\ V \in Nat /\ W \in Nat /\ V <= W
      /\ x.todo \in TodosOf(s.kind) /\ x.scene <= V /\ x.again \in BOOLEAN /\ x.todo \in Commands
  <2>1. /\ x \in RunRecords /\ x.at \in 1..PlanLength /\ s = Plan[x.at] /\ s.kind \in AllKinds
        /\ world \in Worlds /\ mapping \in Maps /\ x.version \in Nat /\ x.scene \in Nat
        /\ V \in Nat
    BY <1>0, AtTypes
  <2>2. w \in Worlds /\ Grows(world, w) /\ a.version \in Nat
    BY <1>1 DEF Answers
  <2>3. W \in Nat /\ V <= W
    BY <2>2, SceneIsAggregate DEF Worlds, Grows
  <2> QED BY <1>0, <2>1, <2>2, <2>3 DEF RecordInv, RunRecords
<1>5. x.phase = "working" /\ ~x.clear /\ ~x.late
  BY <1>0, WorkingClear
<1>6. FactsInv(w, refused) /\ world.facts \subseteq w.facts
  BY <1>3 DEF Effect
<1>7. BehindInv(x, w, refused)
  BY <1>2, <1>4, <1>6, BehindKept
<1>8. Scheduled(world) => Scheduled(w)
  BY <1>6 DEF Scheduled
<1>9. x.at > 4 /\ x.todo \notin ToScene => W = V
  <2> HAVE x.at > 4 /\ x.todo \notin ToScene
  <2>1. V # 0
    BY <1>2, <1>4 DEF BehindInv
  <2> QED BY <1>3, <2>1 DEF Effect
<1>10. a.verdict \in {"ok", "conflict", "refused"}
  BY <1>1 DEF Answers
<1> HIDE DEF y
<1>11. CASE a.verdict = "refused"
  <2>0. x.todo = "create"
    BY <1>1, <1>3, <1>11 DEF Answers, Effect
  <2>1. y = AfterRefusal(x, s)
    BY <1>11, <2>0 DEF y, AfterAnswer, BeforeRetry
  <2>2. w = world /\ s.kind = refused
    BY <1>1, <1>3, <1>11, <2>0 DEF Answers, Effect
  <2>3. refused \in {"figure", "piece", "outfit"}
    BY <1>0, <1>4, <2>2 DEF AllKinds
  <2>4. AtWork(x, world)
    BY <1>4, <1>5 DEF AtWork
  <2>5. NoneLate(run, world) => NoneLate(rs, world)
    BY <2>2
  <2>6. BehindInv(AfterRefusal(x, s), world, refused)
        /\ SyncInv(AfterRefusal(x, s), world, mapping, refused, rs)
    BY <1>0, <1>2, <1>4, <2>2, <2>3, <2>4, <2>5, RefusalCompletes
  <2> QED BY <2>1, <2>2, <2>6 DEF y
<1>12. CASE x.todo = "beat" /\ a.verdict # "refused"
  <2>1. s.kind = "beat" /\ StreamOf(s) = SceneOf
    BY <1>4, <1>12 DEF TodosOf, AllKinds, StreamOf
  <2>2. refused = "nothing"
    BY <1>4, <2>1, BeatMeansNothing
  <2>3. x.at > 4 /\ x.at # PlanLength
    BY <1>4, <2>1, KindsOfPlan, ApplyConstants DEF BeatAt
  <2>4. x.scene > 0 /\ a.version = W
    BY <1>2, <1>3, <1>4, <1>12, <2>3 DEF BehindInv, Effect, ToScene
  <2>5. /\ x.again \/ x.scene < V => NoneLate(run, world)
        /\ x.again => x.scene = V
    BY <1>2, <1>5, <1>12, <2>2, <2>3 DEF SyncInv
  <2>6. CASE a.verdict = "conflict"
    <3>1. x.scene < V /\ w = world
      BY <1>3, <1>12, <2>6 DEF Effect, ToScene
    <3>2. ~x.again
      BY <1>4, <2>5, <3>1
    <3>3. y = [x EXCEPT !.version = x.scene, !.scene = a.version, !.again = TRUE]
      BY <1>12, <2>6, <3>2 DEF y, AfterAnswer
    <3>4. /\ y.phase = "working" /\ y.at = x.at /\ y.todo = "beat" /\ y.scene = W /\ y.again
          /\ y.unapplied = x.unapplied
      BY <1>4, <1>5, <1>12, <2>4, <3>3 DEF RunRecords
    <3>5. BehindInv(y, w, refused)
      BY <1>4, <1>7, <1>12, <2>1, <2>4, <3>4 DEF BehindInv
    <3>6. SyncInv(y, w, mapping, refused, rs)
      BY <1>4, <2>5, <3>1, <3>4 DEF SyncInv
    <3> QED BY <3>5, <3>6 DEF y
  <2>7. CASE a.verdict = "ok"
    <3>1. y = [x EXCEPT !.scene = a.version, !.version = a.version, !.todo = "confirm"]
      BY <1>12, <2>7 DEF y, AfterAnswer
    <3>2. /\ y.phase = "working" /\ y.at = x.at /\ y.todo = "confirm" /\ y.scene = W
          /\ y.again = x.again /\ y.unapplied = x.unapplied /\ y.version = W
      BY <1>4, <1>5, <1>12, <2>4, <3>1 DEF RunRecords
    <3>3. BehindInv(y, w, refused)
      BY <1>4, <1>7, <2>1, <2>3, <2>4, <3>2 DEF BehindInv
    <3>4. LastIs(w, s.o) \/ NoneLate(rs, w)
      BY <1>3, <1>12, <2>7 DEF Effect
    <3>5. SyncInv(y, w, mapping, refused, rs)
      BY <1>4, <2>5, <3>2, <3>4 DEF SyncInv
    <3> QED BY <3>3, <3>5 DEF y
  <2> QED BY <1>10, <1>12, <2>6, <2>7
<1>13. CASE x.todo = "assign" /\ a.verdict # "refused"
  <2> DEFINE z == [x EXCEPT !.scene = a.version]
  <2>1. s.kind = "assign" /\ x.at = 4
    <3>1. s.kind = "assign"
      BY <1>4, <1>13 DEF TodosOf, AllKinds
    <3> QED BY <1>4, <3>1, KindsOfPlan
  <2>2. a.version = W /\ Assigned(w)
    BY <1>3, <1>13 DEF Effect, ToScene
  <2>3. y = Advance(z, 1)
    BY <1>13 DEF y, AfterAnswer
  <2>4. z \in RunRecords
    BY <1>4 DEF RunRecords
  <2>5. /\ z.at = x.at /\ z.scene = W /\ z.phase = "working" /\ ~z.late /\ ~z.clear
        /\ z.unapplied = x.unapplied
    BY <1>4, <1>5, <2>2 DEF RunRecords
  <2> HIDE DEF z
  <2>6. DraftDone(z, w, refused)
    BY <1>0, <1>4, <2>1, <2>2, <2>5 DEF DraftDone
  <2>7. Ahead(z, z.at + 1, w, refused)
    BY <1>4, <1>7, <2>4, <2>5, <2>6, NextAhead
  <2>8. Knows(z, z.at + 1, w, mapping, refused, rs)
    BY <1>4, <2>5 DEF Knows
  <2>9. AtWork(z, w) /\ ~(z.at + 1 > PlanLength) /\ z.at + 1 # 4
    BY <1>4, <2>1, <2>4, <2>5, PlanLengthNat DEF AtWork
  <2>10. BehindInv(y, w, refused) /\ SyncInv(y, w, mapping, refused, rs)
    BY <1>0, <1>4, <2>3, <2>7, <2>8, <2>9, AdvanceCompletes
  <2> QED BY <2>10 DEF y
<1>14. CASE x.todo = "schedule" /\ a.verdict # "refused"
  <2>1. s.kind = "shoot" /\ x.at = PlanLength
    <3>1. s.kind = "shoot"
      BY <1>4, <1>14 DEF TodosOf, AllKinds
    <3> QED BY <1>4, <3>1, KindsOfPlan
  <2>2. a.version = W /\ x.scene > 0 /\ Greater(x.scene, a.version) = W
    <3>1. a.version = W
      BY <1>3, <1>14 DEF Effect, ToScene
    <3>2. x.scene > 0
      BY <1>2, <2>1, PlanLengthNat DEF BehindInv
    <3> QED BY <1>4, <3>1, <3>2 DEF Greater
  <2>3. Scheduled(w)
    <3>1. CASE a.verdict = "ok"
      BY <1>3, <1>14, <3>1 DEF Effect
    <3>2. CASE a.verdict = "conflict"
      <4>1. x.scene < V
        BY <1>3, <1>14, <3>2 DEF Effect, ToScene
      <4>2. CASE refused = "figure"
        <5>1. V >= 2
          BY <1>4, <2>2, <4>1
        <5> QED BY <1>2, <1>8, <4>2, <5>1 DEF FactsInv
      <4>3. CASE refused # "figure"
        <5>1. x.at > 4
          BY <2>1, PlanLengthNat
        <5>2. \A o \in 1..Outfits : ~(x.at < BeatAt(o) \/ x.at = BeatAt(o))
          BY <2>1, ApplyConstants DEF BeatAt, PlanLength
        <5>3. x.scene # V
          BY <1>4, <4>1
        <5>4. Scheduled(world)
          BY <1>2, <1>5, <4>3, <5>1, <5>2, <5>3 DEF SyncInv
        <5> QED BY <1>8, <5>4
      <4> QED BY <4>2, <4>3
    <3> QED BY <1>10, <1>14, <3>1, <3>2
  <2>4. y = [x EXCEPT !.scene = Greater(x.scene, a.version), !.todo = "create"]
    BY <1>4, <1>14 DEF y, AfterAnswer, RunRecords
  <2>5. /\ y.phase = "working" /\ y.at = x.at /\ y.todo = "create" /\ y.scene = W
        /\ y.again = x.again /\ y.unapplied = x.unapplied /\ y.version = x.version
    BY <1>4, <1>5, <2>2, <2>4 DEF RunRecords
  <2>6. BehindInv(y, w, refused)
    BY <1>4, <1>7, <2>1, <2>2, <2>3, <2>5 DEF BehindInv
  <2>7. SyncInv(y, w, mapping, refused, rs)
    BY <1>2, <1>4, <1>5, <2>1, <2>5 DEF SyncInv
  <2> QED BY <2>6, <2>7 DEF y
<1>15. CASE x.todo = "category" /\ a.verdict = "conflict"
  <2> DEFINE z == [x EXCEPT !.version = a.version]
             t == PieceFrom(a.version)
  <2>1. s.kind = "piece" /\ x.at > 4 /\ x.at # 4 /\ ~(x.at + 1 > PlanLength) /\ x.at # PlanLength
        /\ x.at + 1 # 4 /\ StreamOf(s) = s
    <3>1. s.kind = "piece"
      BY <1>4, <1>15 DEF TodosOf, AllKinds
    <3>2. s.o \in 1..Outfits /\ x.at = 3 * s.o + 2
      BY <1>4, <3>1, KindsOfPlan
    <3> QED BY <1>4, <3>1, <3>2, ApplyConstants DEF PlanLength, StreamOf
  <2>2. a.version = world.version[s] /\ a.version > x.version /\ x.version > 0
    BY <1>2, <1>3, <1>4, <1>15, <2>1 DEF Effect, BehindInv
  <2>3. W = V
    BY <1>9, <1>15, <2>1 DEF ToScene
  <2>4. a.version <= w.version[StreamOf(s)] /\ a.version > 0 /\ a.version >= 2
    <3>1. s \in Aggregates /\ a.version <= w.version[s]
      BY <1>1, <1>15 DEF Answers
    <3> QED BY <1>4, <2>1, <2>2, <3>1
  <2>5. (t = "advance" /\ a.version >= 3) \/ (t = "notes" /\ a.version = 2)
    BY <1>4, <2>4 DEF PieceFrom
  <2>6. y = Then(z, t)
    BY <1>15 DEF y, AfterAnswer
  <2>7. z \in RunRecords
    BY <1>4 DEF RunRecords
  <2>8. /\ z.at = x.at /\ z.scene = x.scene /\ z.phase = "working" /\ ~z.late /\ ~z.clear
        /\ z.unapplied = x.unapplied /\ z.version = a.version /\ z.again = x.again
    BY <1>4, <1>5 DEF RunRecords
  <2> HIDE DEF z, t
  <2>9. CASE t = "advance"
    <3>1. y = Advance(z, 1)
      BY <2>6, <2>9 DEF Then
    <3>2. s.kind # refused /\ PieceSet(w, s.o)
      <4>1. s.kind # "assign" /\ a.version >= 3
        BY <2>1, <2>5, <2>9
      <4> QED BY <1>0, <1>4, <1>6, <2>1, <2>4, <4>1, WrittenFacts
    <3>3. DraftDone(z, w, refused)
      BY <1>4, <2>1, <2>8, <3>2 DEF DraftDone
    <3>4. Ahead(z, z.at + 1, w, refused)
      BY <1>4, <1>7, <2>7, <2>8, <3>3, NextAhead
    <3>5. Knows(z, z.at + 1, w, mapping, refused, rs)
      <4>1. x.scene <= z.scene /\ z.scene \in Nat /\ z.scene <= W
        BY <1>4, <2>3, <2>8
      <4>2. Plan[x.at].kind # "beat"
        BY <1>4, <2>1
      <4> QED BY <1>2, <1>4, <1>5, <1>8, <2>1, <2>3, <2>8, <4>1, <4>2, KnowsMoves
    <3>6. AtWork(z, w)
      BY <1>4, <2>3, <2>7, <2>8 DEF AtWork
    <3>7. BehindInv(y, w, refused) /\ SyncInv(y, w, mapping, refused, rs)
      BY <1>0, <1>4, <2>1, <2>8, <3>1, <3>4, <3>5, <3>6, AdvanceCompletes
    <3> QED BY <3>7 DEF y
  <2>10. CASE t = "notes"
    <3>1. y = [z EXCEPT !.todo = "notes"]
      BY <2>6, <2>10 DEF Then
    <3>2. /\ y.phase = "working" /\ y.at = x.at /\ y.todo = "notes" /\ y.scene = x.scene
          /\ y.again = x.again /\ y.unapplied = x.unapplied /\ y.version = a.version
      BY <2>7, <2>8, <3>1 DEF RunRecords
    <3>3. a.version = 2
      BY <2>5, <2>10
    <3>4. BehindInv(y, w, refused)
      BY <1>4, <1>7, <2>1, <2>4, <3>2, <3>3 DEF BehindInv
    <3>5. SyncInv(y, w, mapping, refused, rs)
      BY <1>2, <1>4, <1>5, <1>8, <2>1, <2>3, <3>2, SyncMoves
    <3> QED BY <3>4, <3>5 DEF y
  <2> QED BY <2>5, <2>9, <2>10
<1>16. CASE /\ a.verdict # "refused" /\ x.todo \in {"create", "category", "notes"}
            /\ ~(x.todo = "category" /\ a.verdict = "conflict")
  <2>1. s \in Aggregates /\ a.version <= w.version[s] /\ StreamOf(s) = s /\ s.kind # "beat"
    BY <1>1, <1>16 DEF Answers, Aggregates, Keys, StreamOf
  <2>2. y = [x EXCEPT !.version = a.version, !.todo = "confirm"]
    BY <1>16 DEF y, AfterAnswer
  <2>3. /\ y.phase = "working" /\ y.at = x.at /\ y.todo = "confirm" /\ y.scene = x.scene
        /\ y.again = x.again /\ y.unapplied = x.unapplied /\ y.version = a.version
        /\ y.pending = x.pending
    BY <1>4, <1>5, <2>2 DEF RunRecords
  <2>4. a.version > 0
    <3>1. CASE x.todo = "create"
      BY <1>3, <1>16, <3>1 DEF Effect
    <3>2. CASE x.todo \in {"category", "notes"}
      <4>1. x.version > 0
        BY <1>2, <3>2 DEF BehindInv
      <4>2. a.version >= x.version
        BY <1>3, <1>4, <1>10, <1>16, <3>2 DEF Effect
      <4> QED BY <1>4, <4>1, <4>2
    <3> QED BY <1>16, <3>1, <3>2
  <2>5. s.kind = "outfit" /\ ~x.pending => OutfitSet(w, s.o)
    <3> HAVE s.kind = "outfit" /\ ~x.pending
    <3>1. x.todo = "notes"
      <4>1. x.todo # "category"
        BY <1>4 DEF TodosOf
      <4>2. x.todo # "create"
        BY <1>2, <1>4 DEF BehindInv
      <4> QED BY <1>16, <4>1, <4>2
    <3>2. s = OutfitOf(s.o) /\ s.o \in 1..Outfits /\ s.kind # "assign"
      BY <1>4, AtPlace
    <3>3. CASE a.verdict = "ok"
      BY <1>3, <3>1, <3>2, <3>3 DEF Effect, OutfitSet
    <3>4. CASE a.verdict = "conflict"
      <4>1. a.version >= 2
        BY <1>2, <1>3, <1>4, <3>1, <3>4 DEF Effect, BehindInv
      <4> QED BY <1>0, <1>4, <1>6, <2>1, <2>4, <3>2, <4>1, WrittenFacts
    <3> QED BY <1>10, <1>16, <3>3, <3>4
  <2>6. x.at = PlanLength => Scheduled(w)
    <3> HAVE x.at = PlanLength
    <3>1. s.kind = "shoot"
      BY <1>4, KindsOfPlan
    <3>2. x.todo = "create"
      BY <1>4, <1>16, <3>1 DEF TodosOf
    <3> QED BY <1>7, <3>2 DEF BehindInv
  <2>7. BehindInv(y, w, refused)
    BY <1>4, <1>7, <2>1, <2>3, <2>4, <2>5, <2>6 DEF BehindInv
  <2>8. SyncInv(y, w, mapping, refused, rs)
    <3>1. CASE x.at > 4
      <4>1. W = V
        BY <1>9, <1>16, <3>1 DEF ToScene
      <4> QED BY <1>2, <1>4, <1>5, <1>8, <2>1, <2>3, <4>1, SyncMoves
    <3>2. CASE ~(x.at > 4)
      BY <2>3, <3>2 DEF SyncInv
    <3> QED BY <3>1, <3>2
  <2> QED BY <2>7, <2>8 DEF y
<1> QED BY <1>4, <1>10, <1>11, <1>12, <1>13, <1>14, <1>15, <1>16 DEF Commands
LEMMA SendComplete ==
  ASSUME ApplyInv, CompleteInv, NotesInv, NEW r \in Runs, Send(r) PROVE CompleteInv'
<1> DEFINE a == Execute(world, r)
           y == AfterAnswer(run[r], At(r), a)
<1>1. /\ TypeOK /\ ConfirmedIsReal /\ RunInv /\ SceneInv /\ mapping \in Maps /\ world \in Worlds
      /\ run \in [Runs -> RunRecords] /\ \A q \in Runs : RecordInv(run[q], world, mapping)
  BY InvParts
<1>2. /\ Working(r) /\ run[r].todo \in Commands /\ world' = a.world
      /\ run' = [run EXCEPT ![r] = y] /\ slot' = slot /\ mapping' = mapping /\ refused' = refused
      /\ run[r].phase = "working" /\ edits' = edits
  BY DEF Send, Working
<1>3. /\ world' \in Worlds /\ Grows(world, world')
      /\ world'.version[SceneOf] = world.version[SceneOf] => world'.beats = world.beats
  BY <1>1, <1>2, CommandOrder
<1>4. ~y.late
  <2>1. GoesOn(y, run[r], a.world, mapping)
    BY <1>1, <1>2, AnswerKeeps
  <2> QED BY <2>1 DEF GoesOn
<1>5. ASSUME Quiet
      PROVE  /\ FactsInv(world', refused) /\ world.facts \subseteq world'.facts
             /\ BehindInv(y, world', refused) /\ SyncInv(y, world', mapping', refused, run')
             /\ LateInv(y, world', mapping')
             /\ \A q \in Runs \ {r} : LateInv(run[q], world', mapping')
  <2>1. /\ FactsInv(world, refused) /\ BehindInv(run[r], world, refused)
        /\ \A q \in Runs : LateInv(run[q], world, mapping)
    BY <1>5 DEF CompleteInv
  <2>2. FactsInv(world', refused) /\ world.facts \subseteq world'.facts
    <3>1. Effect(a, run[r], At(r))
      BY <1>1, <1>2, <1>5, <2>1, CommandEffect, NotesAreFresh
    <3> QED BY <1>2, <3>1 DEF Effect
  <2>3. \A q \in Runs \ {r} : LateInv(run[q], world', mapping')
    BY <1>1, <1>2, <1>3, <2>1, LateOthers
  <2>4. \A q \in Runs : run'[q].late => q # r /\ run'[q] = run[q]
    BY <1>1, <1>2, <1>4
  <2>5. /\ world.version[SceneOf] \in Nat /\ world'.version[SceneOf] \in Nat
        /\ world.version[SceneOf] <= world'.version[SceneOf]
        /\ \A q \in Runs : run[q].scene \in Nat /\ run[q].scene <= world.version[SceneOf]
    BY <1>1, <1>3, SceneIsAggregate DEF Worlds, Grows, RunRecords, RecordInv
  <2>6. NoneLate(run, world) => NoneLate(run', world')
    BY <2>4, <2>5 DEF NoneLate
  <2>7. world'.version[SceneOf] # world.version[SceneOf] => NoneLate(run', world')
    BY <2>4, <2>5 DEF NoneLate
  <2>8. BehindInv(y, world', refused) /\ SyncInv(y, world', mapping, refused, run')
    <3> HIDE DEF a
    <3>1. a = Execute(world, r)
      BY DEF a
    <3> QED BY <1>2, <1>5, <2>6, <2>7, <3>1, AnswerCompletes
  <2> QED BY <1>2, <1>4, <2>2, <2>3, <2>8 DEF LateInv
<1> HIDE DEF y
<1> QED BY <1>2, <1>3, <1>5, WorkerStep

LEMMA StolenKept ==
  ASSUME slot \in Slots, NEW r, slot' = slot \/ slot' = Cleared(r)
  PROVE  slot'.stolen = slot.stolen
BY DEF Slots, Cleared

LEMMA ClaimComplete ==
  ASSUME ApplyInv, CompleteInv, run' \in [Runs -> RunRecords], NEW r \in Runs, ClaimApplyRun(r)
  PROVE  CompleteInv'
<1> DEFINE phase == IF Claimable THEN "working" ELSE "refused"
<1>1. run[r] \in RunRecords /\ run \in [Runs -> RunRecords] /\ slot.stolen \in BOOLEAN
  BY InvParts
<1>2. run[r].phase = "new" /\ run[r].late \in BOOLEAN
  BY <1>1 DEF ClaimApplyRun, RunRecords
<1>3. run' = [run EXCEPT ![r] = [run[r] EXCEPT !.phase = phase, !.clear = run[r].clear,
                                               !.late = run[r].late]]
  BY <1>1 DEF ClaimApplyRun, RunRecords
<1>4. world' = world /\ mapping' = mapping /\ refused' = refused /\ edits' = edits
      /\ (slot.stolen => slot'.stolen)
  <2> DEFINE stolen == slot.stolen \/ OwnerWorks
  <2>1. slot' = [owner |-> r, stale |-> FALSE, stolen |-> stolen] \/ slot' = slot
    BY DEF ClaimApplyRun
  <2>2. stolen \in BOOLEAN /\ (slot.stolen => stolen)
    BY <1>1
  <2> HIDE DEF stolen
  <2>3. CASE slot' = slot
    BY <2>3 DEF ClaimApplyRun
  <2>4. CASE slot' = [owner |-> r, stale |-> FALSE, stolen |-> stolen]
    <3>1. slot'.stolen = stolen
      BY <2>2, <2>4
    <3> QED BY <2>2, <3>1 DEF ClaimApplyRun
  <2> QED BY <2>1, <2>3, <2>4
<1>5. phase \in {"working", "refused"}
  OBVIOUS
<1> HIDE DEF phase
<1> QED BY <1>2, <1>3, <1>4, <1>5, PhaseComplete

LEMMA AskAgainComplete ==
  ASSUME ApplyInv, CompleteInv, run' \in [Runs -> RunRecords], NEW r \in Runs, AskAgain(r)
  PROVE  CompleteInv'
<1> DEFINE phase == "new"
<1>1. run[r] \in RunRecords /\ run \in [Runs -> RunRecords]
  BY InvParts
<1>2. run[r].phase = "refused" /\ run[r].late \in BOOLEAN
  BY <1>1 DEF AskAgain, RunRecords
<1>3. run' = [run EXCEPT ![r] = [run[r] EXCEPT !.phase = phase, !.clear = run[r].clear,
                                               !.late = run[r].late]]
  BY <1>1 DEF AskAgain, RunRecords
<1>4. world' = world /\ mapping' = mapping /\ refused' = refused /\ edits' = edits /\ slot' = slot
  BY DEF AskAgain
<1>5. phase \notin {"working", "ending", "done"}
  OBVIOUS
<1> HIDE DEF phase
<1> QED BY <1>2, <1>3, <1>4, <1>5, PhaseComplete

LEMMA ClearComplete ==
  ASSUME ApplyInv, CompleteInv, run' \in [Runs -> RunRecords], NEW r \in Runs, DeferredClear(r)
  PROVE  CompleteInv'
<1> DEFINE phase == run[r].phase
           clear == FALSE
<1>1. run[r] \in RunRecords /\ run \in [Runs -> RunRecords] /\ slot \in Slots
      /\ RecordInv(run[r], world, mapping)
  BY InvParts
<1>2. phase \in {"failed", "done"} /\ run[r].late \in BOOLEAN
  BY <1>1 DEF DeferredClear, RecordInv, RunRecords
<1>3. run' = [run EXCEPT ![r] = [run[r] EXCEPT !.phase = phase, !.clear = clear,
                                               !.late = run[r].late]]
  BY <1>1 DEF DeferredClear, RunRecords
<1>4. world' = world /\ mapping' = mapping /\ refused' = refused /\ edits' = edits
      /\ slot'.stolen = slot.stolen
  BY <1>1, StolenKept DEF DeferredClear
<1>5. phase \in {"ending", "done"} => run[r].phase \in {"ending", "done"}
  OBVIOUS
<1> HIDE DEF phase, clear
<1> QED BY <1>2, <1>3, <1>4, <1>5, PhaseComplete

LEMMA FinishComplete ==
  ASSUME ApplyInv, CompleteInv, run' \in [Runs -> RunRecords], NEW r \in Runs,
         Finish(r) \/ FinishUncleared(r)
  PROVE  CompleteInv'
<1> DEFINE phase == "done"
           clear == IF Finish(r) THEN run[r].clear ELSE TRUE
<1>1. run[r] \in RunRecords /\ run \in [Runs -> RunRecords] /\ slot \in Slots
  BY InvParts
<1>2. run[r].phase = "ending" /\ run[r].late \in BOOLEAN
  BY <1>1 DEF Finish, FinishUncleared, RunRecords
<1>3. run' = [run EXCEPT ![r] = [run[r] EXCEPT !.phase = phase, !.clear = clear,
                                               !.late = run[r].late]]
  <2>1. CASE Finish(r)
    <3>1. clear = run[r].clear
      BY <2>1
    <3> HIDE DEF clear
    <3> QED BY <1>1, <2>1, <3>1 DEF Finish, RunRecords
  <2>2. CASE ~Finish(r)
    <3>1. clear = TRUE
      BY <2>2
    <3> HIDE DEF clear
    <3>2. [run[r] EXCEPT !.phase = phase, !.clear = clear] =
          [run[r] EXCEPT !.phase = phase, !.clear = clear, !.late = run[r].late]
      BY <1>1 DEF RunRecords
    <3>3. run' = [run EXCEPT ![r] = [run[r] EXCEPT !.phase = phase, !.clear = clear]]
      BY <1>1, <2>2, <3>1 DEF FinishUncleared
    <3> QED BY <3>2, <3>3
  <2> QED BY <2>1, <2>2
<1>4. world' = world /\ mapping' = mapping /\ refused' = refused /\ edits' = edits
      /\ slot'.stolen = slot.stolen
  BY <1>1, StolenKept DEF Finish, FinishUncleared
<1>5. phase \notin {"working", "new", "refused"}
  OBVIOUS
<1> HIDE DEF phase, clear
<1> QED BY <1>2, <1>3, <1>4, <1>5, PhaseComplete

LEMMA HangUpComplete ==
  ASSUME ApplyInv, CompleteInv, run' \in [Runs -> RunRecords], NEW r \in Runs, HangUp(r)
  PROVE  CompleteInv'
<1> DEFINE late == run[r].todo \in Commands
           clear == TRUE
           phase == "failed"
<1>1. run[r] \in RunRecords /\ run \in [Runs -> RunRecords]
  BY InvParts
<1>2. run' = [run EXCEPT ![r] = [run[r] EXCEPT !.phase = phase, !.clear = clear, !.late = late]]
  BY <1>1 DEF HangUp, RunRecords
<1>3. run[r].phase = "working" /\ late \in BOOLEAN
  BY DEF HangUp, Working
<1>4. world' = world /\ mapping' = mapping /\ refused' = refused /\ edits' = edits /\ slot' = slot
  BY DEF HangUp
<1>5. phase \notin {"working", "ending", "done", "new", "refused"}
  OBVIOUS
<1> HIDE DEF late, clear, phase
<1> QED BY <1>2, <1>3, <1>4, <1>5, PhaseComplete

LEMMA OutageComplete ==
  ASSUME ApplyInv, CompleteInv, NotesInv, run' \in [Runs -> RunRecords], NEW r \in Runs, Outage(r)
  PROVE  CompleteInv'
<1> DEFINE late == FALSE
<1>1. TypeOK /\ RunInv /\ run[r] \in RunRecords /\ run \in [Runs -> RunRecords] /\ slot \in Slots
  BY InvParts
<1>2. Working(r) /\ mapping' = mapping /\ refused' = refused /\ edits' = edits
      /\ slot'.stolen = slot.stolen
  BY <1>1, StolenKept DEF Outage
<1>3. run[r].phase = "working" /\ ~run[r].late /\ run[r].late \in BOOLEAN /\ late \in BOOLEAN /\ ~late
  BY <1>1, <1>2, WorkingClear DEF RunRecords
<1>4. run' = [run EXCEPT ![r] = [run[r] EXCEPT !.phase = "failed", !.clear = run[r].clear,
                                               !.late = late]]
  <2>1. run[r].late = FALSE
    BY <1>3
  <2>2. [run[r] EXCEPT !.phase = "failed"] =
        [run[r] EXCEPT !.phase = "failed", !.clear = run[r].clear, !.late = late]
    BY <1>1, <2>1 DEF RunRecords
  <2> QED BY <2>2 DEF Outage
<1> HIDE DEF late
<1>5. CASE world' = world
  <2> DEFINE phase == "failed"
  <2>1. phase \notin {"working", "ending", "done", "new", "refused"}
    OBVIOUS
  <2>2. run' = [run EXCEPT ![r] = [run[r] EXCEPT !.phase = phase, !.clear = run[r].clear,
                                                 !.late = late]]
    BY <1>4
  <2> HIDE DEF phase
  <2> QED BY <1>2, <1>3, <1>5, <2>1, <2>2, PhaseComplete
<1>6. CASE world' # world
  <2>1. run[r].todo \in Commands /\ world' = Execute(world, r).world
    BY <1>6 DEF Outage
  <2> QED BY <1>2, <1>3, <1>4, <2>1, LastCommandComplete
<1> QED BY <1>5, <1>6

LEMMA LateComplete ==
  ASSUME ApplyInv, CompleteInv, NotesInv, run' \in [Runs -> RunRecords], NEW r \in Runs, LateCommand(r)
  PROVE  CompleteInv'
<1> DEFINE late == FALSE
<1>1. run[r] \in RunRecords /\ RecordInv(run[r], world, mapping) /\ run \in [Runs -> RunRecords]
  BY InvParts
<1>2. /\ run[r].late /\ mapping' = mapping /\ refused' = refused /\ slot' = slot /\ edits' = edits
      /\ world' = Execute(world, r).world
  BY DEF LateCommand
<1>3. run[r].phase = "failed" /\ run[r].todo \in Commands
  BY <1>1, <1>2 DEF RecordInv
<1>4. run' = [run EXCEPT ![r] = [run[r] EXCEPT !.phase = "failed", !.clear = run[r].clear,
                                               !.late = late]]
  <2>1. [run[r] EXCEPT !.late = FALSE] =
        [run[r] EXCEPT !.phase = "failed", !.clear = run[r].clear, !.late = late]
    BY <1>1, <1>3 DEF RunRecords
  <2> QED BY <2>1 DEF LateCommand
<1>5. ~late /\ late \in BOOLEAN /\ slot'.stolen = slot.stolen /\ (run[r].phase = "working" \/ run[r].late)
  BY <1>2
<1>6. world' = Execute(world, r).world /\ mapping' = mapping /\ refused' = refused /\ edits' = edits
  BY <1>2
<1>7. run[r].todo \in Commands
  BY <1>3
<1> HIDE DEF late
<1> QED BY <1>4, <1>5, <1>6, <1>7, LastCommandComplete

LEMMA CrashComplete ==
  ASSUME ApplyInv, CompleteInv, Crash PROVE CompleteInv'
<1>1. run \in [Runs -> RunRecords]
  BY InvParts
<1>2. mapping' = mapping /\ world' = world /\ refused' = refused /\ slot' = slot /\ edits' = edits
  BY DEF Crash
<1>3. ASSUME NEW q \in Runs
      PROVE  /\ ~run'[q].late
             /\ run'[q].at = run[q].at /\ run'[q].todo = run[q].todo
             /\ run'[q].version = run[q].version /\ run'[q].scene = run[q].scene
             /\ run'[q].unapplied = run[q].unapplied /\ run'[q].again = run[q].again
             /\ run'[q].pending = run[q].pending
             /\ run'[q].phase \in {"failed", run[q].phase} /\ run'[q].phase # "working"
  <2> DEFINE phase == IF run[q].phase \in {"working", "ending"} THEN "failed" ELSE run[q].phase
  <2>1. run'[q] = [run[q] EXCEPT !.late = FALSE, !.clear = FALSE, !.phase = phase]
    BY <1>1, <1>3 DEF Crash, RunRecords
  <2>2. run[q] \in RunRecords /\ phase \in {"failed", run[q].phase} /\ phase # "working"
    BY <1>1, <1>3
  <2> HIDE DEF phase
  <2> QED BY <2>1, <2>2 DEF RunRecords
<1>4. edits' \in Nat
  BY <1>2 DEF CompleteInv
<1>5. SUFFICES ASSUME Quiet'
               PROVE  /\ FactsInv(world', refused')
                      /\ \A q \in Runs : /\ BehindInv(run'[q], world', refused')
                                         /\ SyncInv(run'[q], world', mapping', refused', run')
                                         /\ LateInv(run'[q], world', mapping')
  BY <1>4 DEF CompleteInv
<1>6. /\ FactsInv(world, refused)
      /\ \A q \in Runs : BehindInv(run[q], world, refused)
  BY <1>2, <1>5 DEF Quiet, CompleteInv
<1>7. ASSUME NEW q \in Runs PROVE BehindInv(run'[q], world, refused)
  <2> DEFINE y == run'[q]
             x == run[q]
  <2>1. /\ BehindInv(x, world, refused) /\ y.at = x.at /\ y.todo = x.todo
        /\ y.version = x.version /\ y.scene = x.scene /\ y.unapplied = x.unapplied
        /\ y.again = x.again /\ y.pending = x.pending /\ y.phase \in {"failed", x.phase}
    BY <1>3, <1>6
  <2> HIDE DEF x, y
  <2>2. BehindInv(y, world, refused)
    BY <2>1 DEF BehindInv
  <2> QED BY <2>2 DEF y
<1>8. \A q \in Runs : SyncInv(run'[q], world, mapping, refused, run') /\ LateInv(run'[q], world, mapping)
  BY <1>3 DEF SyncInv, LateInv
<1> QED BY <1>2, <1>6, <1>7, <1>8
-----------------------------------------------------------------------------
(* Notes are not sent twice *)

LEMMA NotesInit == Init => NotesInv
<1> SUFFICES ASSUME Init PROVE NotesInv
  OBVIOUS
<1>1. /\ world = [version |-> [a \in Aggregates |-> 0], facts |-> {}, beats |-> <<>>]
      /\ run = [r \in Runs |-> NewRun]
  BY DEF Init
<1>2. \A o \in 1..Outfits : world.version[OutfitOf(o)] = 0
  BY <1>1, Places
<1>3. NotesWritten(world) /\ NotesRows(world, mapping)
  BY <1>1, <1>2 DEF NotesWritten, NotesRows, OutfitSet
<1>4. NotesTurn(NewRun, mapping)
  BY DEF NotesTurn, NewRun
<1> QED BY <1>1, <1>3, <1>4 DEF NotesInv

(* Streams and facts after an event *)
LEMMA NotesAppended ==
  ASSUME NotesWritten(world), NotesRows(world, mapping), world \in Worlds, NEW g \in Aggregates,
         NEW name, NEW v \in Worlds,
         v.facts = world.facts \cup {<<name, g>>}, v.version[g] = world.version[g] + 1,
         \A h \in Aggregates \ {g} : v.version[h] = world.version[h],
         g.kind = "piece" /\ name = "notes" => world.version[g] = 2,
         g.kind = "outfit" => world.version[g] = 0 \/ (name = "notes" /\ world.version[g] = 1
                                                       /\ mapping[g] > 0),
         g.kind = "outfit" /\ name = "notes" => world.version[g] = 1
  PROVE  NotesWritten(v) /\ NotesRows(v, mapping)
<1>1. \A h \in Aggregates : world.version[h] \in Nat /\ v.version[h] \in Nat
  BY DEF Worlds
<1>2. ASSUME NEW o \in 1..Outfits
      PROVE  /\ <<"notes", PieceOf(o)>> \in v.facts => v.version[PieceOf(o)] >= 3
             /\ OutfitSet(v, o) => v.version[OutfitOf(o)] >= 2
             /\ v.version[OutfitOf(o)] >= 2 => mapping[OutfitOf(o)] > 0
  <2>1. /\ PieceOf(o) \in Aggregates /\ OutfitOf(o) \in Aggregates
        /\ PieceOf(o).kind = "piece" /\ OutfitOf(o).kind = "outfit"
    BY Places
  <2>2. /\ <<"notes", PieceOf(o)>> \in world.facts => world.version[PieceOf(o)] >= 3
        /\ <<"notes", OutfitOf(o)>> \in world.facts => world.version[OutfitOf(o)] >= 2
        /\ world.version[OutfitOf(o)] >= 2 => mapping[OutfitOf(o)] > 0
    BY DEF NotesWritten, NotesRows, OutfitSet
  <2>3. <<"notes", PieceOf(o)>> \in v.facts => v.version[PieceOf(o)] >= 3
    <3>1. CASE g = PieceOf(o)
      BY <1>1, <2>1, <2>2, <3>1
    <3>2. CASE g # PieceOf(o)
      BY <2>1, <2>2, <3>2
    <3> QED BY <3>1, <3>2
  <2>4. OutfitSet(v, o) => v.version[OutfitOf(o)] >= 2
    <3>1. CASE g = OutfitOf(o)
      BY <1>1, <2>1, <2>2, <3>1 DEF OutfitSet
    <3>2. CASE g # OutfitOf(o)
      BY <2>1, <2>2, <3>2 DEF OutfitSet
    <3> QED BY <3>1, <3>2
  <2>5. v.version[OutfitOf(o)] >= 2 => mapping[OutfitOf(o)] > 0
    <3>1. CASE g = OutfitOf(o)
      BY <1>1, <2>1, <2>2, <3>1
    <3>2. CASE g # OutfitOf(o)
      BY <2>1, <2>2, <3>2
    <3> QED BY <3>1, <3>2
  <2> QED BY <2>3, <2>4, <2>5
<1> QED BY <1>2 DEF NotesWritten, NotesRows

(* What a command leaves *)
LEMMA NotesCommand ==
  ASSUME ApplyInv, CompleteInv, NotesInv, Quiet, NEW r \in Runs, run[r].todo \in Commands
  PROVE  LET v == Execute(world, r).world IN NotesWritten(v) /\ NotesRows(v, mapping)
<1> DEFINE x == run[r]
           s == At(r)
           a == Execute(world, r)
<1>0. /\ TypeOK /\ RunInv /\ SceneInv /\ RecordInv(x, world, mapping)
  BY InvParts
<1>1. /\ x \in RunRecords /\ x.at \in 1..PlanLength /\ s = Plan[x.at] /\ s.kind \in AllKinds
      /\ world \in Worlds /\ SceneOf \in Aggregates
  BY <1>0, AtTypes, SceneIsAggregate
<1>2. NotesWritten(world) /\ NotesRows(world, mapping) /\ NotesTurn(x, mapping)
      /\ BehindInv(x, world, refused)
  BY DEF NotesInv, CompleteInv
<1>3. a.world \in Worlds
  BY <1>0, ExecuteOK DEF Answers
<1>4. x.todo \in TodosOf(s.kind)
  BY <1>0, <1>1 DEF RecordInv
<1>5. x.todo \in {"create", "category", "notes"} => s \in Aggregates
  <2>1. x.todo \in {"create", "category", "notes"} => s.kind \notin {"assign", "beat"}
    BY <1>4 DEF TodosOf
  <2> QED BY <1>1, <2>1, AtKey
<1>6. CASE a.world = world
  BY <1>2, <1>6
<1>7. CASE x.todo = "create" /\ a.world # world
  <2> DEFINE name == "create"
  <2>1. a = Appended(world, s, <<name, s>>) /\ world.version[s] = 0
    BY <1>7, AnswerFields DEF Execute, CreateOn, Conflict
  <2>2. /\ a.world.facts = world.facts \cup {<<name, s>>} /\ a.world.version[s] = world.version[s] + 1
        /\ \A h \in Aggregates \ {s} : a.world.version[h] = world.version[h]
    BY <1>1, <1>5, <1>7, <2>1, AppendedFields
  <2>3. name # "notes"
    OBVIOUS
  <2> HIDE DEF name, a, s
  <2>4. NotesWritten(a.world) /\ NotesRows(a.world, mapping)
    BY <1>1, <1>2, <1>3, <1>5, <1>7, <2>1, <2>2, <2>3, NotesAppended
  <2> QED BY <2>4 DEF a
<1>8. CASE x.todo \in {"category", "notes"} /\ a.world # world
  <2> DEFINE name == x.todo
  <2>1. a = Appended(world, s, <<name, s>>) /\ world.version[s] = x.version
    <3>1. a = ChangeOn(world, s, <<name, s>>, x.version)
      BY <1>8 DEF Execute
    <3> HIDE DEF a, s, name, x
    <3> QED BY <1>8, <3>1, AnswerFields DEF ChangeOn, Conflict
  <2>2. /\ a.world.facts = world.facts \cup {<<name, s>>} /\ a.world.version[s] = world.version[s] + 1
        /\ \A h \in Aggregates \ {s} : a.world.version[h] = world.version[h]
    BY <1>1, <1>5, <1>8, <2>1, AppendedFields
  <2>3. s.kind = "piece" /\ name = "notes" => world.version[s] = 2
    BY <1>1, <1>2, <2>1 DEF BehindInv
  <2>4. s.kind = "outfit" => name = "notes" /\ world.version[s] = 1 /\ mapping[s] > 0
    <3> HAVE s.kind = "outfit"
    <3>1. x.todo = "notes"
      BY <1>4, <1>8 DEF TodosOf
    <3> QED BY <1>1, <1>2, <2>1, <3>1 DEF NotesTurn
  <2> HIDE DEF name, a, s
  <2>5. NotesWritten(a.world) /\ NotesRows(a.world, mapping)
    BY <1>1, <1>2, <1>3, <1>5, <1>8, <2>1, <2>2, <2>3, <2>4, NotesAppended
  <2> QED BY <2>5 DEF a
<1>9. CASE x.todo \in {"assign", "schedule"} /\ a.world # world
  <2> DEFINE name == x.todo
  <2>1. a = Appended(world, SceneOf, <<name, SceneOf>>)
    <3>1. a = ChangeOn(world, SceneOf, <<name, SceneOf>>, x.scene)
      BY <1>9 DEF Execute
    <3> HIDE DEF a, s, name, x
    <3> QED BY <1>9, <3>1, AnswerFields DEF ChangeOn, Conflict
  <2>2. /\ a.world.facts = world.facts \cup {<<name, SceneOf>>}
        /\ a.world.version[SceneOf] = world.version[SceneOf] + 1
        /\ \A h \in Aggregates \ {SceneOf} : a.world.version[h] = world.version[h]
    BY <1>1, <2>1, AppendedFields
  <2>3. SceneOf.kind = "scene"
    BY Places
  <2> HIDE DEF name, a, s
  <2>4. NotesWritten(a.world) /\ NotesRows(a.world, mapping)
    BY <1>1, <1>2, <1>3, <2>2, <2>3, NotesAppended
  <2> QED BY <2>4 DEF a
<1>10. CASE x.todo = "beat" /\ a.world # world
  <2>1. a.world = [world EXCEPT !.version[SceneOf] = @ + 1, !.beats = Append(@, s.o)]
    <3>1. a = AddOutfitBeat(world, s.o, x.scene)
      BY <1>10 DEF Execute
    <3> HIDE DEF a, s, x
    <3> QED BY <1>10, <3>1, AnswerFields DEF AddOutfitBeat, Conflict
  <2>2. a.world.facts = world.facts
        /\ \A h \in Aggregates \ {SceneOf} : a.world.version[h] = world.version[h]
    BY <1>1, <2>1 DEF Worlds
  <2>3. \A o \in 1..Outfits : /\ a.world.version[PieceOf(o)] = world.version[PieceOf(o)]
                              /\ a.world.version[OutfitOf(o)] = world.version[OutfitOf(o)]
    <3> TAKE o \in 1..Outfits
    <3>1. PieceOf(o) \in Aggregates \ {SceneOf} /\ OutfitOf(o) \in Aggregates \ {SceneOf}
      BY Places
    <3> HIDE DEF a
    <3> QED BY <2>2, <3>1
  <2> HIDE DEF a
  <2>4. NotesWritten(a.world) /\ NotesRows(a.world, mapping)
    BY <1>2, <2>2, <2>3 DEF NotesWritten, NotesRows, OutfitSet
  <2> QED BY <2>4 DEF a
<1> QED BY <1>6, <1>7, <1>8, <1>9, <1>10 DEF Commands

(* A step of the run that has the slot: the others are not at work. *)
LEMMA NotesWorker ==
  ASSUME ApplyInv, NotesInv, NEW r \in Runs, run[r].phase = "working", NEW y,
         run' = [run EXCEPT ![r] = y], edits' = edits, slot.stolen => slot'.stolen,
         mapping' \in Maps, RowsGrow(mapping, mapping'),
         Quiet => /\ NotesWritten(world') /\ NotesRows(world', mapping')
                  /\ NotesTurn(y, mapping')
  PROVE  NotesInv'
<1>1. /\ run \in [Runs -> RunRecords] /\ mapping \in Maps
      /\ ~slot.stolen => \A q \in Runs : run[q].phase \in {"working", "ending"} => slot.owner = q
  BY InvParts
<1>2. SUFFICES ASSUME Quiet'
               PROVE  /\ NotesWritten(world') /\ NotesRows(world', mapping')
                      /\ \A q \in Runs : NotesTurn(run'[q], mapping')
  BY DEF NotesInv
<1>3. Quiet
  BY <1>2 DEF Quiet
<1>4. ASSUME NEW q \in Runs, q # r PROVE NotesTurn(run[q], mapping')
  <2>1. run[q].phase # "working" /\ NotesTurn(run[q], mapping) /\ run[q].at \in 1..PlanLength
    BY <1>1, <1>3, <1>4 DEF Quiet, NotesInv, RunRecords
  <2>2. Plan[run[q].at].kind = "outfit" /\ mapping[Plan[run[q].at]] > 0 =>
          mapping'[Plan[run[q].at]] > 0
    <3> HAVE Plan[run[q].at].kind = "outfit" /\ mapping[Plan[run[q].at]] > 0
    <3>1. Plan[run[q].at] \in Keys
      BY <2>1, AtKey
    <3> QED BY <1>1, <3>1 DEF RowsGrow, Maps
  <2> QED BY <2>1, <2>2 DEF NotesTurn
<1>5. \A q \in Runs : run'[q] = IF q = r THEN y ELSE run[q]
  BY <1>1
<1> QED BY <1>3, <1>4, <1>5

(* A step that changes how runs stand, or streams. *)
LEMMA NotesStand ==
  ASSUME NotesInv, mapping' = mapping, edits' = edits, slot.stolen => slot'.stolen,
         Quiet => NotesWritten(world') /\ NotesRows(world', mapping),
         \A q \in Runs : /\ run'[q].at = run[q].at /\ run'[q].todo = run[q].todo
                         /\ run'[q].version = run[q].version /\ run'[q].pending = run[q].pending
                         /\ run'[q].phase = "working" => run[q].phase = "working" \/ run[q].todo = "find"
  PROVE  NotesInv'
<1>1. SUFFICES ASSUME Quiet'
               PROVE  /\ NotesWritten(world') /\ NotesRows(world', mapping')
                      /\ \A q \in Runs : NotesTurn(run'[q], mapping')
  BY DEF NotesInv
<1>2. Quiet
  BY <1>1 DEF Quiet
<1>3. \A q \in Runs : NotesTurn(run'[q], mapping')
  BY <1>2 DEF NotesInv, NotesTurn
<1> QED BY <1>2, <1>3

(* On to the next draft, no notes are due. *)
LEMMA NotesAdvance ==
  ASSUME NEW x \in RunRecords, NEW n \in Nat \ {0}, NEW m, Plan[x.at].kind = "outfit" => n <= 2
  PROVE  NotesTurn(Advance(x, n), m)
<1> DEFINE y == Advance(x, n)
<1>1. x.at \in 1..PlanLength
  BY DEF RunRecords
<1>2. CASE x.at + n > PlanLength
  <2>1. y.at = x.at
    BY <1>2 DEF Advance, RunRecords
  <2>2. Plan[x.at].kind # "outfit"
    <3> SUFFICES ASSUME Plan[x.at].kind = "outfit" PROVE FALSE
      OBVIOUS
    <3>1. Plan[x.at].o \in 1..Outfits /\ x.at = 3 * Plan[x.at].o + 3
      BY <1>1, KindsOfPlan
    <3> QED BY <1>2, <3>1, ApplyConstants DEF PlanLength
  <2> HIDE DEF y
  <2> QED BY <2>1, <2>2 DEF NotesTurn, y
<1>3. CASE ~(x.at + n > PlanLength)
  <2>1. y.todo \in {"assign", "find"}
    BY <1>3 DEF Advance, RunRecords
  <2> HIDE DEF y
  <2> QED BY <2>1 DEF NotesTurn, y
<1> QED BY <1>2, <1>3

LEMMA NotesRefusal ==
  ASSUME NEW x \in RunRecords, NEW m, Plan[x.at].kind \in {"figure", "piece", "outfit", "beat"}
  PROVE  NotesTurn(AfterRefusal(BeforeRetry(x), Plan[x.at]), m)
<1> DEFINE s == Plan[x.at]
           skipped == IF s.kind = "figure" THEN 1..Outfits ELSE {s.o}
           n == CASE s.kind = "figure" -> 2 + 3 * Outfits
                  [] s.kind = "piece"  -> 3
                  [] s.kind = "outfit" -> 2
                  [] s.kind = "beat"   -> 1
           b == BeforeRetry(x)
           z == [b EXCEPT !.unapplied = @ \cup skipped]
<1>1. x.at \in 1..PlanLength /\ x.unapplied \subseteq 1..Outfits /\ x.version \in Nat
      /\ Outfits \in Nat
  BY ApplyConstants DEF RunRecords
<1>2. b \in RunRecords /\ b.at = x.at /\ b.unapplied = x.unapplied
  BY <1>1 DEF BeforeRetry, RunRecords
<1>3. skipped \subseteq 1..Outfits /\ n \in Nat \ {0} /\ (s.kind = "outfit" => n <= 2)
  <2>1. s.kind # "figure" => s.o \in 1..Outfits
    BY <1>1, KindsOfPlan
  <2> QED BY <1>1, <2>1
<1>4. AfterRefusal(b, s) = Advance(z, n)
  BY DEF AfterRefusal
<1> HIDE DEF b, n, skipped
<1>5. z \in RunRecords /\ z.at = x.at
  BY <1>2, <1>3 DEF RunRecords
<1> HIDE DEF z
<1>6. NotesTurn(Advance(z, n), m)
  BY <1>3, <1>5, NotesAdvance
<1> QED BY <1>4, <1>6 DEF b

LEMMA NotesFind ==
  ASSUME ApplyInv, NotesInv, NEW r \in Runs, Find(r) PROVE NotesInv'
<1> DEFINE s == At(r)
           v == Greater(mapping[s], 0)
           scene == IF s.kind \in {"scene", "beat"} THEN Greater(run[r].scene, v) ELSE run[r].scene
           pending == s.kind = "outfit" /\ v < 1
           x == [run[r] EXCEPT !.version = v, !.pending = pending, !.scene = scene]
           t == FromMapping(s, mapping[s])
           y == Then(x, t)
<1>1. /\ TypeOK /\ ConfirmedIsReal /\ RunInv
  BY InvParts
<1>2. /\ run[r] \in RunRecords /\ run[r].at \in 1..PlanLength /\ s = Plan[run[r].at]
      /\ s.kind \in AllKinds /\ mapping \in Maps /\ run[r].scene \in Nat
  BY <1>1, AtTypes
<1>3. mapping' \in Maps /\ RowsGrow(mapping, mapping')
  BY <1>1, FindKeeps
<1>4. /\ run[r].phase = "working" /\ run[r].todo = "find" /\ mapping' = [mapping EXCEPT ![s] = v]
      /\ run' = [run EXCEPT ![r] = y] /\ edits' = edits /\ slot' = slot /\ world' = world
  BY <1>2 DEF Find, RunRecords, Working
<1>5. s \in Keys /\ mapping[s] \in Int /\ v \in Nat /\ v >= mapping[s] /\ (v > 0 => v = mapping[s])
      /\ mapping'[s] = v
  <2>1. s.kind # "assign"
    BY <1>1, <1>2, <1>4 DEF RunInv, RecordInv, TodosOf
  <2>2. s \in Keys
    BY <1>2, <2>1, AtKey
  <2> QED BY <1>2, <1>4, <2>2 DEF Greater, Maps
<1>6. scene \in Nat /\ pending \in BOOLEAN
  BY <1>2, <1>5 DEF Greater
<1> HIDE DEF v, scene
<1>7. x \in RunRecords
  <2> HIDE DEF pending
  <2> QED BY <1>2, <1>5, <1>6 DEF RunRecords
<1>8. x.at = run[r].at /\ x.version = v /\ x.pending = pending
  BY <1>2 DEF RunRecords
<1> HIDE DEF x, t, s, pending
<1>9. NotesTurn(y, mapping')
  <2>1. CASE t = "advance"
    <3>1. y = Advance(x, 1)
      BY <2>1 DEF Then
    <3> QED BY <1>7, <3>1, NotesAdvance
  <2>2. CASE t # "advance"
    <3>1. y = [x EXCEPT !.todo = t]
      BY <2>2 DEF Then
    <3>2. y.at = x.at /\ y.todo = t /\ y.version = v /\ y.pending = pending
      BY <1>7, <1>8, <3>1 DEF RunRecords
    <3>3. ASSUME s.kind = "outfit"
          PROVE  /\ t = "notes" => v = 1 /\ ~pending
                 /\ t = "create" => v <= 0
                 /\ t # "confirm"
      <4>1. t = OutfitFrom(mapping[s])
        BY <3>3 DEF t, FromMapping
      <4> QED BY <1>5, <3>3, <4>1 DEF OutfitFrom, pending
    <3> HIDE DEF y
    <3> QED BY <1>2, <1>5, <1>8, <3>2, <3>3 DEF NotesTurn
  <2> QED BY <2>1, <2>2
<1>10. Quiet => NotesWritten(world') /\ NotesRows(world', mapping')
  <2> HAVE Quiet
  <2>1. NotesWritten(world) /\ NotesRows(world, mapping)
    BY DEF NotesInv
  <2>2. \A o \in 1..Outfits : mapping[OutfitOf(o)] > 0 => mapping'[OutfitOf(o)] > 0
    <3> TAKE o \in 1..Outfits
    <3>1. OutfitOf(o) \in Keys
      BY Places DEF Aggregates
    <3> QED BY <1>2, <1>3, <3>1 DEF RowsGrow, Maps
  <2> QED BY <1>4, <2>1, <2>2 DEF NotesRows
<1> HIDE DEF y
<1> QED BY <1>3, <1>4, <1>9, <1>10, NotesWorker

LEMMA NotesSend ==
  ASSUME ApplyInv, CompleteInv, NotesInv, NEW r \in Runs, Send(r) PROVE NotesInv'
<1> DEFINE a == Execute(world, r)
           x == run[r]
           s == At(r)
           y == AfterAnswer(x, s, a)
<1>1. TypeOK /\ ConfirmedIsReal /\ RunInv /\ SceneInv /\ mapping \in Maps
  BY InvParts
<1>2. /\ x \in RunRecords /\ x.at \in 1..PlanLength /\ s = Plan[x.at] /\ s.kind \in AllKinds
  BY <1>1, AtTypes
<1>3. /\ x.phase = "working" /\ x.todo \in Commands /\ world' = a.world /\ mapping' = mapping
      /\ run' = [run EXCEPT ![r] = y] /\ edits' = edits /\ slot' = slot
  BY DEF Send, Working
<1>4. Answers(a, x, s) /\ x.todo \in TodosOf(s.kind)
  BY <1>1, <1>2, <1>3, ExecuteOK DEF RunInv, RecordInv
<1>5. a.version \in Nat /\ x.scene \in Nat /\ x.version \in Nat
  BY <1>2, <1>4 DEF Answers, RunRecords
<1>6. RowsGrow(mapping, mapping')
  BY <1>1, <1>3, Reflexive
<1>7. ASSUME Quiet PROVE NotesTurn(y, mapping)
  <2>0. NotesTurn(x, mapping)
    BY <1>7 DEF NotesInv
  <2> HIDE DEF a, x, s
  <2>1. CASE a.verdict = "refused"
    <3> DEFINE z == BeforeRetry(x)
    <3>1. y = AfterRefusal(z, s)
      BY <1>4, <2>1 DEF AfterAnswer, Answers
    <3> QED BY <1>2, <1>4, <1>5, <2>1, <3>1, NotesRefusal DEF Answers
  <2>2. CASE x.todo = "beat" /\ a.verdict = "conflict" /\ x.again
    <3> DEFINE z == BeforeRetry(x)
    <3>1. y = AfterRefusal(z, s)
      BY <2>2 DEF AfterAnswer
    <3> QED BY <1>2, <1>4, <1>5, <2>2, <3>1, NotesRefusal DEF Answers
  <2>3. CASE x.todo = "beat" /\ a.verdict # "refused" /\ ~(a.verdict = "conflict" /\ x.again)
    <3>1. y.at = x.at
      BY <1>2, <1>4, <2>3 DEF AfterAnswer, RunRecords, Answers
    <3>2. s.kind # "outfit"
      BY <1>4, <2>3 DEF TodosOf
    <3> HIDE DEF y
    <3> QED BY <1>2, <3>1, <3>2 DEF NotesTurn
  <2>4. CASE x.todo = "assign" /\ a.verdict # "refused"
    <3> DEFINE z == [x EXCEPT !.scene = a.version]
    <3>1. y = Advance(z, 1)
      BY <2>4 DEF AfterAnswer
    <3>2. z \in RunRecords
      BY <1>2, <1>5 DEF RunRecords
    <3> HIDE DEF z
    <3> QED BY <3>1, <3>2, NotesAdvance
  <2>5. CASE x.todo = "schedule" /\ a.verdict # "refused"
    <3>1. y.at = x.at
      BY <1>2, <2>5 DEF AfterAnswer, RunRecords
    <3>2. s.kind # "outfit"
      BY <1>4, <2>5 DEF TodosOf
    <3> HIDE DEF y
    <3> QED BY <1>2, <3>1, <3>2 DEF NotesTurn
  <2>6. CASE x.todo = "category" /\ a.verdict = "conflict"
    <3> DEFINE z == [x EXCEPT !.version = a.version]
               t == PieceFrom(a.version)
    <3>1. y = Then(z, t)
      BY <2>6 DEF AfterAnswer
    <3>2. z \in RunRecords /\ z.at = x.at
      BY <1>2, <1>5 DEF RunRecords
    <3>3. s.kind # "outfit"
      BY <1>4, <2>6 DEF TodosOf
    <3> HIDE DEF z, t
    <3>4. CASE t = "advance"
      <4>1. y = Advance(z, 1)
        BY <3>1, <3>4 DEF Then
      <4> QED BY <3>2, <4>1, NotesAdvance
    <3>5. CASE t # "advance"
      <4>1. y.at = x.at
        BY <3>1, <3>2, <3>5 DEF Then, RunRecords
      <4> HIDE DEF y
      <4> QED BY <1>2, <3>3, <4>1 DEF NotesTurn
    <3> QED BY <3>4, <3>5
  <2>7. CASE /\ a.verdict # "refused" /\ x.todo \in {"create", "category", "notes"}
             /\ ~(x.todo = "category" /\ a.verdict = "conflict")
    <3>1. y = [x EXCEPT !.version = a.version, !.todo = "confirm"]
      BY <2>7 DEF AfterAnswer
    <3>2. y.at = x.at /\ y.todo = "confirm" /\ y.pending = x.pending
      BY <1>2, <3>1 DEF RunRecords
    <3>3. s.kind = "outfit" => x.todo # "category"
      BY <1>4 DEF TodosOf
    <3> HIDE DEF y
    <3> QED BY <1>2, <1>3, <2>0, <2>7, <3>2, <3>3 DEF NotesTurn, x
  <2>8. a.verdict \in {"ok", "conflict", "refused"}
    BY <1>4 DEF Answers
  <2> QED BY <1>3, <2>1, <2>2, <2>3, <2>4, <2>5, <2>6, <2>7, <2>8 DEF Commands
<1>8. Quiet => NotesWritten(world') /\ NotesRows(world', mapping')
  BY <1>3, NotesCommand
<1> HIDE DEF y
<1> QED BY <1>1, <1>3, <1>6, <1>7, <1>8, NotesWorker

LEMMA NotesConfirm ==
  ASSUME ApplyInv, CompleteInv, NotesInv, NEW r \in Runs, Confirm(r) PROVE NotesInv'
<1> DEFINE s == At(r)
           x == run[r]
           n == Greater(mapping[s], x.version)
           next == CASE s.kind = "piece" -> PieceFrom(x.version)
                     [] s.kind = "outfit" /\ x.pending -> "notes"
                     [] OTHER -> "advance"
           scene == IF s.kind = "scene" THEN x.version ELSE x.scene
           z == [x EXCEPT !.pending = FALSE, !.scene = scene]
           y == Then(z, next)
<1>1. TypeOK /\ ConfirmedIsReal /\ RunInv /\ mapping \in Maps
  BY InvParts
<1>2. /\ x \in RunRecords /\ x.at \in 1..PlanLength /\ s = Plan[x.at] /\ s.kind \in AllKinds
      /\ x.version \in Nat /\ x.scene \in Nat /\ world \in Worlds
  BY <1>1, AtTypes
<1>3. mapping' \in Maps /\ RowsGrow(mapping, mapping')
  BY <1>1, ConfirmKeeps
<1>4. /\ x.phase = "working" /\ x.todo = "confirm" /\ world' = world /\ edits' = edits /\ slot' = slot
      /\ run' = [run EXCEPT ![r] = y]
  BY <1>2 DEF Confirm, Working, RunRecords
<1>5. s \in Keys /\ mapping' = [mapping EXCEPT ![s] = n]
  <2>1. s.kind # "assign"
    BY <1>1, <1>2, <1>4 DEF RunInv, RecordInv, TodosOf
  <2>2. s \in Keys
    BY <1>2, <2>1, AtKey
  <2> QED BY <1>1, <2>2 DEF Confirm, Maps
<1>6. z \in RunRecords /\ z.at = x.at /\ z.version = x.version /\ ~z.pending /\ scene \in Nat
  <2>1. scene \in Nat
    BY <1>2
  <2> HIDE DEF scene
  <2> QED BY <1>2, <2>1 DEF RunRecords
<1> HIDE DEF z
<1>7. ASSUME Quiet PROVE NotesTurn(y, mapping')
  <2>1. NotesTurn(x, mapping) /\ NotesRows(world, mapping) /\ BehindInv(x, world, refused)
    BY <1>7 DEF NotesInv, CompleteInv
  <2>2. CASE s.kind = "outfit" /\ x.pending
    <3>1. next = "notes"
      BY <2>2
    <3>2. y = [z EXCEPT !.todo = "notes"]
      BY <3>1 DEF Then
    <3>3. y.at = x.at /\ y.todo = "notes" /\ y.version = x.version /\ ~y.pending
      BY <1>6, <3>2 DEF RunRecords
    <3>4. s = OutfitOf(s.o) /\ s.o \in 1..Outfits /\ StreamOf(s) = s /\ s \in Aggregates
      BY <1>2, <1>5, <2>2, AtPlace DEF StreamOf, Aggregates
    <3>5. mapping[s] <= 0 /\ mapping[s] \in Int
      BY <1>1, <1>2, <1>4, <1>5, <2>1, <2>2 DEF NotesTurn, Maps
    <3>6. world.version[s] < 2 /\ world.version[s] \in Nat
      <4>1. world.version[s] \in Nat
        BY <1>2, <3>4 DEF Worlds
      <4>2. world.version[s] >= 2 => mapping[s] > 0
        BY <2>1, <3>4 DEF NotesRows
      <4> HIDE DEF s
      <4> QED BY <3>5, <4>1, <4>2
    <3>7. 0 < x.version /\ x.version <= world.version[s]
      BY <1>2, <1>4, <2>1, <3>4 DEF BehindInv
    <3>8. x.version = 1 /\ mapping'[s] = 1
      <4>1. x.version = 1
        BY <1>2, <3>6, <3>7
      <4>2. n = 1
        BY <3>5, <4>1 DEF Greater
      <4> QED BY <1>1, <1>5, <4>1, <4>2 DEF Maps
    <3> HIDE DEF y
    <3> QED BY <1>2, <3>3, <3>8 DEF NotesTurn
  <2>3. CASE s.kind = "outfit" /\ ~x.pending
    <3>1. next = "advance"
      BY <2>3
    <3>2. y = Advance(z, 1)
      BY <3>1 DEF Then
    <3> QED BY <1>6, <3>2, NotesAdvance
  <2>4. CASE s.kind # "outfit"
    <3> HIDE DEF next
    <3>1. CASE next = "advance"
      <4>1. y = Advance(z, 1)
        BY <3>1 DEF Then
      <4> QED BY <1>6, <4>1, NotesAdvance
    <3>2. CASE next # "advance"
      <4>1. y.at = x.at
        BY <1>6, <3>2 DEF Then, RunRecords
      <4> HIDE DEF y
      <4> QED BY <1>2, <2>4, <4>1 DEF NotesTurn
    <3> QED BY <3>1, <3>2
  <2> QED BY <2>2, <2>3, <2>4
<1>8. Quiet => NotesWritten(world') /\ NotesRows(world', mapping')
  <2> HAVE Quiet
  <2>1. NotesWritten(world) /\ NotesRows(world, mapping)
    BY DEF NotesInv
  <2>2. \A o \in 1..Outfits : mapping[OutfitOf(o)] > 0 => mapping'[OutfitOf(o)] > 0
    <3> TAKE o \in 1..Outfits
    <3>1. OutfitOf(o) \in Keys
      BY Places DEF Aggregates
    <3> QED BY <1>1, <1>3, <3>1 DEF RowsGrow, Maps
  <2> QED BY <1>4, <2>1, <2>2 DEF NotesRows
<1> HIDE DEF y
<1> QED BY <1>3, <1>4, <1>7, <1>8, NotesWorker

LEMMA NotesNext == ApplyInv /\ ApplyInv' /\ CompleteInv /\ NotesInv /\ [Next]_vars => NotesInv'
<1> SUFFICES ASSUME ApplyInv, ApplyInv', CompleteInv, NotesInv, [Next]_vars PROVE NotesInv'
  OBVIOUS
<1>1. /\ TypeOK /\ RunInv /\ slot \in Slots /\ run \in [Runs -> RunRecords] /\ slot.stolen \in BOOLEAN
      /\ \A q \in Runs : run[q] \in RunRecords /\ RecordInv(run[q], world, mapping)
  BY InvParts
<1>2. Quiet => NotesWritten(world) /\ NotesRows(world, mapping)
  BY DEF NotesInv
<1> DEFINE Stand == \A q \in Runs :
             /\ run'[q].at = run[q].at /\ run'[q].todo = run[q].todo
             /\ run'[q].version = run[q].version /\ run'[q].pending = run[q].pending
             /\ run'[q].phase = "working" => run[q].phase = "working" \/ run[q].todo = "find"
<1>3. ASSUME NEW r \in Runs, NEW phase, NEW clear, NEW late,
             run' = [run EXCEPT ![r] = [run[r] EXCEPT !.phase = phase, !.clear = clear, !.late = late]],
             phase = "working" => run[r].phase = "working" \/ run[r].todo = "find"
      PROVE  Stand
  <2>1. \A q \in Runs : run'[q] = IF q = r THEN [run[r] EXCEPT !.phase = phase, !.clear = clear,
                                                               !.late = late] ELSE run[q]
    BY <1>1, <1>3
  <2> QED BY <1>1, <1>3, <2>1 DEF RunRecords
<1>4. ASSUME NEW r \in Runs, ClaimApplyRun(r) PROVE NotesInv'
  <2> DEFINE phase == IF Claimable THEN "working" ELSE "refused"
  <2>1. run' = [run EXCEPT ![r] = [run[r] EXCEPT !.phase = phase, !.clear = run[r].clear,
                                                 !.late = run[r].late]]
    BY <1>1, <1>4 DEF ClaimApplyRun, RunRecords
  <2>2. run[r].todo = "find"
    BY <1>1, <1>4 DEF ClaimApplyRun, RecordInv
  <2>3. world' = world /\ mapping' = mapping /\ edits' = edits /\ (slot.stolen => slot'.stolen)
    <3> DEFINE stolen == slot.stolen \/ OwnerWorks
    <3>1. slot' = [owner |-> r, stale |-> FALSE, stolen |-> stolen] \/ slot' = slot
      BY <1>4 DEF ClaimApplyRun
    <3>2. slot.stolen => stolen = TRUE
      BY <1>1
    <3> HIDE DEF stolen
    <3> QED BY <1>4, <3>1, <3>2 DEF ClaimApplyRun
  <2> HIDE DEF phase
  <2>4. Stand
    BY <1>3, <2>1, <2>2
  <2> QED BY <1>2, <2>3, <2>4, NotesStand
<1>5. ASSUME NEW r \in Runs, AskAgain(r) PROVE NotesInv'
  <2> DEFINE phase == "new"
  <2>1. run' = [run EXCEPT ![r] = [run[r] EXCEPT !.phase = phase, !.clear = run[r].clear,
                                                 !.late = run[r].late]]
    BY <1>1, <1>5 DEF AskAgain, RunRecords
  <2>2. phase # "working"
    OBVIOUS
  <2> HIDE DEF phase
  <2>3. Stand
    BY <1>3, <2>1, <2>2
  <2>4. world' = world /\ mapping' = mapping /\ edits' = edits /\ slot' = slot
    BY <1>5 DEF AskAgain
  <2> QED BY <1>2, <2>3, <2>4, NotesStand
<1>6. ASSUME NEW r \in Runs, DeferredClear(r) PROVE NotesInv'
  <2> DEFINE clear == FALSE
  <2>1. run' = [run EXCEPT ![r] = [run[r] EXCEPT !.phase = run[r].phase, !.clear = clear,
                                                 !.late = run[r].late]]
    BY <1>1, <1>6 DEF DeferredClear, RunRecords
  <2> HIDE DEF clear
  <2>2. Stand
    BY <1>3, <2>1
  <2>3. world' = world /\ mapping' = mapping /\ edits' = edits /\ slot'.stolen = slot.stolen
    BY <1>1, <1>6, StolenKept DEF DeferredClear
  <2> QED BY <1>2, <2>2, <2>3, NotesStand
<1>7. ASSUME NEW r \in Runs, Finish(r) PROVE NotesInv'
  <2> DEFINE phase == "done"
  <2>1. run' = [run EXCEPT ![r] = [run[r] EXCEPT !.phase = phase, !.clear = run[r].clear,
                                                 !.late = run[r].late]]
    BY <1>1, <1>7 DEF Finish, RunRecords
  <2>2. phase # "working"
    OBVIOUS
  <2> HIDE DEF phase
  <2>3. Stand
    BY <1>3, <2>1, <2>2
  <2>4. world' = world /\ mapping' = mapping /\ edits' = edits /\ slot'.stolen = slot.stolen
    BY <1>1, <1>7, StolenKept DEF Finish
  <2> QED BY <1>2, <2>3, <2>4, NotesStand
<1>8. ASSUME NEW r \in Runs, FinishUncleared(r) PROVE NotesInv'
  <2> DEFINE phase == "done"
             clear == TRUE
  <2>1. run' = [run EXCEPT ![r] = [run[r] EXCEPT !.phase = phase, !.clear = clear]]
    BY <1>1, <1>8 DEF FinishUncleared
  <2>2. phase # "working"
    OBVIOUS
  <2> HIDE DEF phase, clear
  <2>3. run' = [run EXCEPT ![r] = [run[r] EXCEPT !.phase = phase, !.clear = clear,
                                                 !.late = run[r].late]]
    BY <1>1, <2>1 DEF RunRecords
  <2>4. Stand
    BY <1>3, <2>2, <2>3
  <2>5. world' = world /\ mapping' = mapping /\ edits' = edits /\ slot' = slot
    BY <1>8 DEF FinishUncleared
  <2> QED BY <1>2, <2>4, <2>5, NotesStand
<1>9. ASSUME NEW r \in Runs, HangUp(r) PROVE NotesInv'
  <2> DEFINE late == run[r].todo \in Commands
             clear == TRUE
             phase == "failed"
  <2>1. run' = [run EXCEPT ![r] = [run[r] EXCEPT !.phase = phase, !.clear = clear, !.late = late]]
    BY <1>1, <1>9 DEF HangUp, RunRecords
  <2>2. phase # "working"
    OBVIOUS
  <2> HIDE DEF phase, clear, late
  <2>3. Stand
    BY <1>3, <2>1, <2>2
  <2>4. world' = world /\ mapping' = mapping /\ edits' = edits /\ slot' = slot
    BY <1>9 DEF HangUp
  <2> QED BY <1>2, <2>3, <2>4, NotesStand
<1>10. ASSUME NEW r \in Runs, Outage(r) PROVE NotesInv'
  <2> DEFINE phase == "failed"
  <2>1. run' = [run EXCEPT ![r] = [run[r] EXCEPT !.phase = phase, !.clear = run[r].clear,
                                                 !.late = run[r].late]]
    BY <1>1, <1>10 DEF Outage, RunRecords
  <2>2. phase # "working"
    OBVIOUS
  <2> HIDE DEF phase
  <2>3. Stand
    BY <1>3, <2>1, <2>2
  <2>4. mapping' = mapping /\ edits' = edits /\ slot'.stolen = slot.stolen
    BY <1>1, <1>10, StolenKept DEF Outage
  <2>5. world' = world \/ (run[r].todo \in Commands /\ world' = Execute(world, r).world)
    BY <1>10 DEF Outage
  <2>6. Quiet => NotesWritten(world') /\ NotesRows(world', mapping)
    BY <1>2, <2>5, NotesCommand
  <2> QED BY <2>3, <2>4, <2>6, NotesStand
<1>11. ASSUME NEW r \in Runs, LateCommand(r) PROVE NotesInv'
  <2> DEFINE late == FALSE
  <2>1. run' = [run EXCEPT ![r] = [run[r] EXCEPT !.phase = run[r].phase, !.clear = run[r].clear,
                                                 !.late = late]]
    BY <1>1, <1>11 DEF LateCommand, RunRecords
  <2> HIDE DEF late
  <2>2. Stand
    BY <1>3, <2>1
  <2>3. run[r].todo \in Commands
    BY <1>1, <1>11 DEF LateCommand, RecordInv
  <2>4. /\ mapping' = mapping /\ edits' = edits /\ slot' = slot /\ world' = Execute(world, r).world
    BY <1>11 DEF LateCommand
  <2>5. Quiet => NotesWritten(world') /\ NotesRows(world', mapping)
    BY <2>3, <2>4, NotesCommand
  <2> QED BY <2>2, <2>4, <2>5, NotesStand
<1>12. ASSUME Crash PROVE NotesInv'
  <2>1. ASSUME NEW q \in Runs
        PROVE  /\ run'[q].at = run[q].at /\ run'[q].todo = run[q].todo
               /\ run'[q].version = run[q].version /\ run'[q].pending = run[q].pending
               /\ run'[q].phase = "working" => run[q].phase = "working" \/ run[q].todo = "find"
    <3> DEFINE phase == IF run[q].phase \in {"working", "ending"} THEN "failed" ELSE run[q].phase
    <3>1. run'[q] = [run[q] EXCEPT !.late = FALSE, !.clear = FALSE, !.phase = phase]
      BY <1>1, <1>12, <2>1 DEF Crash, RunRecords
    <3>2. phase = "working" => run[q].phase = "working"
      OBVIOUS
    <3> HIDE DEF phase
    <3> QED BY <1>1, <2>1, <3>1, <3>2 DEF RunRecords
  <2>2. Stand
    BY <2>1
  <2>3. world' = world /\ mapping' = mapping /\ edits' = edits /\ slot' = slot
    BY <1>12 DEF Crash
  <2> QED BY <1>2, <2>2, <2>3, NotesStand
<1>13. ASSUME NEW a \in Aggregates, Edit(a) PROVE NotesInv'
  <2>1. edits' # 0
    BY <1>13 DEF Edit, CompleteInv
  <2> QED BY <2>1 DEF NotesInv, Quiet
<1>14. ASSUME UNCHANGED <<mapping, world, run, edits>>, slot'.stolen = slot.stolen PROVE NotesInv'
  <2>1. Stand
    BY <1>14
  <2> QED BY <1>2, <1>14, <2>1, NotesStand
<1>15. ASSUME NEW r \in Runs, Heartbeat(r) PROVE NotesInv'
  BY <1>1, <1>14, <1>15 DEF Heartbeat, Slots
<1>16. ASSUME FallSilent PROVE NotesInv'
  BY <1>1, <1>14, <1>16 DEF FallSilent, Slots
<1>17. CASE UNCHANGED vars
  BY <1>14, <1>17 DEF vars
<1> QED BY <1>4, <1>5, <1>6, <1>7, <1>8, <1>9, <1>10, <1>11, <1>12, <1>13, <1>15, <1>16, <1>17,
           NotesFind, NotesSend, NotesConfirm DEF Next, Works
-----------------------------------------------------------------------------
(* The theorem *)

LEMMA CompleteInit == Init => CompleteInv
<1> SUFFICES ASSUME Init PROVE CompleteInv
  OBVIOUS
<1>1. /\ world = [version |-> [a \in Aggregates |-> 0], facts |-> {}, beats |-> <<>>]
      /\ refused \in {"nothing", "figure", "piece", "outfit"}
      /\ run = [r \in Runs |-> NewRun] /\ edits = 0
  BY DEF Init
<1>2. \A a \in Aggregates : world.version[a] = 0
  BY <1>1
<1>3. FactsInv(world, refused)
  <2>1. world.version[Figure] = 0 /\ world.version[Shoot] = 0 /\ world.version[SceneOf] = 0
        /\ \A o \in 1..Outfits : world.version[PieceOf(o)] = 0 /\ world.version[OutfitOf(o)] = 0
    BY <1>2, Places
  <2> QED BY <2>1 DEF FactsInv
<1>4. /\ NewRun.at = 1 /\ NewRun.todo = "find" /\ NewRun.phase = "new"
      /\ ~NewRun.late /\ ~NewRun.again /\ NewRun.unapplied = {}
  BY DEF NewRun
<1>5. BehindInv(NewRun, world, refused)
  <2>1. Plan[1].kind = "episode" /\ PlanLength # 1
    BY PlanEnds, StepFields, PlanLengthNat
  <2>2. \A o \in 1..Outfits : ~(1 > 3 * o + 2) /\ ~(1 > 3 * o + 3)
    BY ApplyConstants
  <2> QED BY <1>4, <2>1, <2>2 DEF BehindInv
<1>6. SyncInv(NewRun, world, mapping, refused, run) /\ LateInv(NewRun, world, mapping)
  BY <1>4 DEF SyncInv, LateInv
<1> QED BY <1>1, <1>3, <1>5, <1>6 DEF CompleteInv

LEMMA CompleteNext ==
  ApplyInv /\ ApplyInv' /\ CompleteInv /\ NotesInv /\ [Next]_vars => CompleteInv'
<1> SUFFICES ASSUME ApplyInv, ApplyInv', CompleteInv, NotesInv, [Next]_vars PROVE CompleteInv'
  OBVIOUS
<1>1. run' \in [Runs -> RunRecords] /\ slot \in Slots
  <2>1. TypeOK'
    BY DEF ApplyInv
  <2> QED BY <2>1, InvParts DEF TypeOK
<1>2. ASSUME UNCHANGED <<mapping, world, refused, run, edits>>, slot'.stolen = slot.stolen
      PROVE  CompleteInv'
  <2>1. Quiet' <=> Quiet
    BY <1>2 DEF Quiet
  <2> QED BY <1>2, <2>1 DEF CompleteInv
<1>3. ASSUME NEW r \in Runs, Heartbeat(r) PROVE CompleteInv'
  BY <1>1, <1>2, <1>3 DEF Heartbeat, Slots
<1>4. ASSUME FallSilent PROVE CompleteInv'
  BY <1>1, <1>2, <1>4 DEF FallSilent, Slots
<1>5. ASSUME NEW a \in Aggregates, Edit(a) PROVE CompleteInv'
  <2>1. edits' \in Nat /\ edits' # 0
    BY <1>5 DEF Edit, CompleteInv
  <2> QED BY <2>1 DEF CompleteInv, Quiet
<1>6. CASE UNCHANGED vars
  BY <1>2, <1>6 DEF vars
<1> QED BY <1>1, <1>3, <1>4, <1>5, <1>6, ClaimComplete, AskAgainComplete, ClearComplete, FindComplete,
           SendComplete, ConfirmComplete, FinishComplete, OutageComplete, HangUpComplete,
           LateComplete, CrashComplete DEF Next, Works

LEMMA CompleteMeans == ApplyInv /\ CompleteInv => DoneIsComplete
<1> SUFFICES ASSUME ApplyInv, CompleteInv PROVE DoneIsComplete
  OBVIOUS
<1>1. ASSUME NEW r \in Runs, run[r].phase = "done"
      PROVE  /\ run[r].at = PlanLength /\ run[r].at > 4
             /\ RecordInv(run[r], world, mapping)
             /\ Quiet => BehindInv(run[r], world, refused)
  <2>1. RecordInv(run[r], world, mapping)
    BY InvParts
  <2>2. run[r].at = PlanLength
    BY <1>1, <2>1 DEF RecordInv
  <2> QED BY <2>1, <2>2, PlanLengthNat DEF CompleteInv
<1>2. ASSUME NEW r \in Runs, run[r].phase = "done", Quiet
      PROVE  Scheduled(world) /\ (refused # "figure" => Assigned(world))
  BY <1>1, <1>2 DEF BehindInv
<1>3. ASSUME NEW r \in Runs, run[r].phase = "done", NEW o \in 1..Outfits, o \notin run[r].unapplied
      PROVE  /\ InScene(world, o)
             /\ Quiet => PieceSet(world, o) /\ OutfitSet(world, o)
  <2>1. run[r].at > BeatAt(o) /\ run[r].at > 3 * o + 2 /\ run[r].at > 3 * o + 3
    <3>1. run[r].at = PlanLength
      BY <1>1, <1>3
    <3> QED BY <3>1, ApplyConstants DEF PlanLength, BeatAt
  <2>2. mapping[Beat(o)] > 0
    BY <1>1, <1>3, <2>1 DEF RecordInv
  <2>3. InScene(world, o)
    <3>1. Confirmed(mapping, world)
      BY InvParts
    <3> QED BY <2>2, <3>1, BeatIsKey DEF Confirmed
  <2>4. Quiet => PieceSet(world, o) /\ OutfitSet(world, o)
    BY <1>1, <1>3, <2>1 DEF BehindInv
  <2> QED BY <2>3, <2>4
<1> QED BY <1>2, <1>3 DEF DoneIsComplete, Quiet, Scheduled, Assigned, InScene, PieceSet, OutfitSet,
                          PieceOf, OutfitOf

(* A run that ends well (run_script_apply) leaves every beat it does not    *)
(* report as unapplied in the scene, however often the plan was driven and  *)
(* wherever earlier runs stopped; and unless users or another run moved the *)
(* streams meanwhile, the figure is assigned, the scene scheduled, and the  *)
(* notes and categories of what it applied are set.                         *)
THEOREM DoneRunsAreComplete == Spec => []DoneIsComplete
<1>1. Init => ApplyInv /\ CompleteInv /\ NotesInv
  BY ApplyInit, CompleteInit, NotesInit
<1>2. ApplyInv /\ CompleteInv /\ NotesInv /\ [Next]_vars => ApplyInv' /\ CompleteInv' /\ NotesInv'
  BY ApplyNext, CompleteNext, NotesNext
<1> QED BY <1>1, <1>2, CompleteMeans, PTL DEF Spec
=============================================================================
