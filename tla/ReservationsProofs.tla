------------------------- MODULE ReservationsProofs -------------------------
(***************************************************************************)
(* Theorems about Reservations for every set of keys, aggregates and calls *)
(* and every value of the bounds.  Three invariants carry them.            *)
(*                                                                         *)
(* SafeInv holds however late a call is re-driven: the version a call or   *)
(* the reaper holds as its CAS token still names the event it was read     *)
(* from, so an append that succeeds on it knows what tops the stream.      *)
(*                                                                         *)
(* TimedInv needs calls that end before the claim they use reaches the     *)
(* TTL (LateRedrive = FALSE): a call about to create its aggregate has its *)
(* claim on top of the stream, and the reaper is never about to release it.*)
(* Under it every step of the streams is a step of KeyRegistry or none.    *)
(*                                                                         *)
(* RowInv is about the projector: what it has read of a stream is what the *)
(* row of the stream says.                                                 *)
(***************************************************************************)
EXTENDS Reservations, TLAPS

(* A call that is running has a key and an aggregate; the version it will  *)
(* append at is empty or a release, and the claim it holds is an event of  *)
(* its own aggregate.                                                      *)
CallClaim(p) ==
  LET c == call[p] IN
  c.pc # "idle" =>
    /\ c.key \in Keys /\ c.agg \in Aggregates
    /\ c.pc = "reserve" /\ c.expected # 0 =>
         /\ c.expected \in 1..Version(c.key)
         /\ stream[c.key][c.expected].name = "Released"
    /\ c.pc \in {"execute", "release"} =>
         /\ c.claim \in 1..Version(c.key)
         /\ stream[c.key][c.claim].agg = c.agg
         /\ stream[c.key][c.claim].name # "Released"
    /\ c.pc = "release" => c.agg \in Rejected

CallClaims == \A p \in Calls : CallClaim(p)

(* The version the reaper holds is that of an expired claim of the         *)
(* aggregate in hand; a claim it will consume is realized.                 *)
ReaperClaims ==
  reaper.pc # "next" =>
    /\ reaper.key \in Keys /\ reaper.agg \in Aggregates
    /\ reaper.version \in 1..Version(reaper.key)
    /\ stream[reaper.key][reaper.version].name = "Reserved"
    /\ stream[reaper.key][reaper.version].agg = reaper.agg
    /\ stream[reaper.key][reaper.version].age = ClaimTtl
    /\ reaper.pc = "consume" => created[reaper.agg] = reaper.key

(* An aggregate that rejects its create command has no stream. *)
RejectedIsAbsent == \A a \in Rejected : created[a] = None

(* A consumed claim belongs to the aggregate created with the key. *)
ConsumedIsRealized ==
  \A k \in Keys : stream[k] # << >> /\ Top(k).name = "Consumed"
                    => created[Top(k).agg] = k

(* The projector does not run ahead of the stream. *)
CursorInStream == \A k \in Keys : cursor[k] <= Version(k)

SafeInv == /\ TypeOK /\ CallClaims /\ ReaperClaims /\ RejectedIsAbsent
           /\ ConsumedIsRealized /\ CursorInStream

(* A running call ends before its aggregate's claim reaches the TTL. *)
EndsInTime(p) ==
  call[p].pc # "idle" /\ Reserves(call[p].key, call[p].agg)
    => Top(call[p].key).age + MaxCreate < ClaimTtl + call[p].elapsed

Punctual == \A p \in Calls : EndsInTime(p)

(* A call about to create its aggregate has its claim on top, unless the   *)
(* create cannot append anything.                                          *)
HasClaim(p) ==
  call[p].pc = "execute" => \/ call[p].agg \in Rejected
                            \/ created[call[p].agg] # None
                            \/ Reserves(call[p].key, call[p].agg)

ExecutesOnClaim == \A p \in Calls : HasClaim(p)

(* A release of the reaper that would still succeed gives up no realized key. *)
ReleaseIsSafe ==
  reaper.pc = "release" /\ Version(reaper.key) = reaper.version
    => created[reaper.agg] # reaper.key

TimedInv == Punctual /\ ExecutesOnClaim /\ ReleaseIsSafe /\ RealizedClaimIsHeld

-----------------------------------------------------------------------------
(* Streams *)

(* What every step does to the streams: events are only added, and only    *)
(* ages change in the events that are there.                               *)
Grows ==
  \A k \in Keys :
    /\ Len(stream[k]) <= Len(stream'[k])
    /\ \A i \in 1..Len(stream[k]) :
         /\ stream'[k][i].name = stream[k][i].name
         /\ stream'[k][i].agg = stream[k][i].agg
         /\ stream[k][i].age <= stream'[k][i].age

LEMMA EventTypes ==
  ASSUME TypeOK
  PROVE  \A k \in Keys :
           /\ stream[k] \in Seq(LifecycleEvents)
           /\ Len(stream[k]) \in Nat
           /\ stream[k] # << >> <=> Len(stream[k]) > 0
           /\ \A i \in 1..Len(stream[k]) :
                /\ stream[k][i] \in LifecycleEvents
                /\ stream[k][i].name \in EventNames
                /\ stream[k][i].agg \in Aggregates
                /\ stream[k][i].age \in 0..ClaimTtl
PROOF
<1>1. \A e \in LifecycleEvents : /\ e.name \in EventNames
                                /\ e.agg \in Aggregates
                                /\ e.age \in 0..ClaimTtl
  BY DEF LifecycleEvents
<1>2. ASSUME NEW k \in Keys
      PROVE  /\ stream[k] \in Seq(LifecycleEvents)
             /\ Len(stream[k]) \in Nat
             /\ stream[k] # << >> <=> Len(stream[k]) > 0
             /\ \A i \in 1..Len(stream[k]) : stream[k][i] \in LifecycleEvents
  BY DEF TypeOK
<1> QED
  BY <1>1, <1>2

(* Events append_lifecycle writes on the stream of k. *)
LEMMA AppendGrows ==
  ASSUME TypeOK, NEW k \in Keys, NEW a \in Aggregates, NEW name \in EventNames,
         AppendLifecycle(k, name, a)
  PROVE  /\ stream' \in [Keys -> Seq(LifecycleEvents)]
         /\ Grows
         /\ Len(stream'[k]) = Len(stream[k]) + 1
         /\ stream'[k][Len(stream[k]) + 1] = [name |-> name, agg |-> a, age |-> 0]
         /\ \A i \in 1..Len(stream[k]) : stream'[k][i] = stream[k][i]
         /\ \A j \in Keys \ {k} : stream'[j] = stream[j]
PROOF
<1> DEFINE e == [name |-> name, agg |-> a, age |-> 0]
<1>1. e \in LifecycleEvents
  BY ReservationConstants DEF LifecycleEvents
<1>2. stream \in [Keys -> Seq(LifecycleEvents)]
  BY DEF TypeOK
<1>3. stream' = [stream EXCEPT ![k] = Append(stream[k], e)]
  BY DEF AppendLifecycle
<1> HIDE DEF e
<1>4. /\ Append(stream[k], e) \in Seq(LifecycleEvents)
      /\ Len(Append(stream[k], e)) = Len(stream[k]) + 1
      /\ Append(stream[k], e)[Len(stream[k]) + 1] = e
      /\ \A i \in 1..Len(stream[k]) : Append(stream[k], e)[i] = stream[k][i]
  BY <1>1, <1>2
<1>5. stream' \in [Keys -> Seq(LifecycleEvents)]
  BY <1>2, <1>3, <1>4
<1>6. /\ stream'[k] = Append(stream[k], e)
      /\ \A j \in Keys \ {k} : stream'[j] = stream[j]
  BY <1>2, <1>3
<1>7. Grows
  <2> SUFFICES ASSUME NEW j \in Keys
               PROVE  /\ Len(stream[j]) <= Len(stream'[j])
                      /\ \A i \in 1..Len(stream[j]) :
                           /\ stream'[j][i] = stream[j][i]
                           /\ stream[j][i].age <= stream[j][i].age
    BY DEF Grows
  <2>1. /\ Len(stream[j]) \in Nat
        /\ \A i \in 1..Len(stream[j]) : stream[j][i].age \in 0..ClaimTtl
    BY EventTypes
  <2>2. CASE j = k
    BY <2>1, <2>2, <1>4, <1>6, ReservationConstants
  <2>3. CASE j # k
    BY <2>1, <2>3, <1>6, ReservationConstants
  <2> QED BY <2>2, <2>3
<1> QED
  BY <1>4, <1>5, <1>6, <1>7 DEF e

LEMMA UnchangedGrows ==
  ASSUME TypeOK, UNCHANGED stream
  PROVE  /\ stream' \in [Keys -> Seq(LifecycleEvents)]
         /\ Grows
PROOF
  BY EventTypes, ReservationConstants DEF Grows, TypeOK

(* A tick changes ages only. *)
LEMMA TickGrows ==
  ASSUME TypeOK, Tick
  PROVE  /\ stream' \in [Keys -> Seq(LifecycleEvents)]
         /\ Grows
         /\ \A k \in Keys :
              /\ Len(stream'[k]) = Len(stream[k])
              /\ \A i \in 1..Len(stream[k]) : stream'[k][i] = Older(stream[k][i])
PROOF
<1>1. \A e \in LifecycleEvents :
        /\ Older(e) \in LifecycleEvents
        /\ Older(e).name = e.name
        /\ Older(e).agg = e.agg
        /\ e.age <= Older(e).age
  BY ReservationConstants DEF LifecycleEvents, Older
<1> SUFFICES ASSUME NEW k \in Keys
             PROVE  /\ stream'[k] \in Seq(LifecycleEvents)
                    /\ Len(stream'[k]) = Len(stream[k])
                    /\ \A i \in 1..Len(stream[k]) :
                         /\ stream'[k][i] = Older(stream[k][i])
                         /\ stream[k][i] \in LifecycleEvents
  BY <1>1 DEF Grows, Tick, TypeOK
<1>2. stream[k] \in Seq(LifecycleEvents)
  BY DEF TypeOK
<1>3. /\ DOMAIN stream[k] = 1..Len(stream[k])
      /\ Len(stream[k]) \in Nat
      /\ \A i \in 1..Len(stream[k]) : stream[k][i] \in LifecycleEvents
  BY <1>2
<1>4. stream'[k] = [i \in 1..Len(stream[k]) |-> Older(stream[k][i])]
  BY <1>3 DEF Tick
<1>5. stream'[k] \in [1..Len(stream[k]) -> LifecycleEvents]
  BY <1>1, <1>3, <1>4
<1>6. stream'[k] \in Seq(LifecycleEvents) /\ Len(stream'[k]) = Len(stream[k])
  BY <1>3, <1>5
<1> QED
  BY <1>3, <1>4, <1>6

-----------------------------------------------------------------------------
(* SafeInv, conjunct by conjunct: what keeps each one when the part of the *)
(* state it speaks of does not change, or only grows.                      *)

LEMMA CallClaimKept ==
  ASSUME TypeOK, Grows, stream' \in [Keys -> Seq(LifecycleEvents)],
         NEW p \in Calls, CallClaim(p),
         call'[p].pc = call[p].pc, call'[p].key = call[p].key,
         call'[p].agg = call[p].agg, call'[p].expected = call[p].expected,
         call'[p].claim = call[p].claim
  PROVE  CallClaim(p)'
PROOF
<1>1. \A k \in Keys : Len(stream[k]) \in Nat /\ Len(stream'[k]) \in Nat
  BY DEF TypeOK
<1> QED
  BY <1>1 DEF CallClaim, Version, Grows

LEMMA ReaperClaimsKept ==
  ASSUME TypeOK, Grows, stream' \in [Keys -> Seq(LifecycleEvents)],
         ReaperClaims, UNCHANGED reaper,
         \A a \in Aggregates : created[a] # None => created'[a] = created[a]
  PROVE  ReaperClaims'
PROOF
<1>1. \A k \in Keys :
        /\ Len(stream[k]) \in Nat /\ Len(stream'[k]) \in Nat
        /\ \A i \in 1..Len(stream'[k]) : stream'[k][i] \in LifecycleEvents
  BY DEF TypeOK
<1>2. \A e \in LifecycleEvents : e.age \in 0..ClaimTtl
  BY DEF LifecycleEvents
<1> SUFFICES ASSUME reaper.pc # "next" PROVE ReaperClaims'
  BY DEF ReaperClaims
<1> DEFINE k == reaper.key
           v == reaper.version
<1>3. /\ k \in Keys /\ reaper.agg \in Aggregates /\ v \in 1..Len(stream[k])
      /\ stream[k][v].name = "Reserved" /\ stream[k][v].agg = reaper.agg
      /\ stream[k][v].age = ClaimTtl
      /\ reaper.pc = "consume" => created[reaper.agg] = k
  BY DEF ReaperClaims, Version
<1>4. v \in 1..Len(stream'[k])
  BY <1>1, <1>3 DEF Grows
<1>5. /\ stream'[k][v].name = "Reserved" /\ stream'[k][v].agg = reaper.agg
      /\ stream'[k][v].age >= ClaimTtl
  BY <1>3 DEF Grows
<1>6. stream'[k][v].age = ClaimTtl
  <2>1. stream'[k][v].age \in 0..ClaimTtl
    BY <1>1, <1>2, <1>3, <1>4
  <2> QED
    BY <1>5, <2>1, ReservationConstants
<1>7. reaper.pc = "consume" => created'[reaper.agg] = k
  BY <1>3, ReservationConstants
<1> QED
  BY <1>3, <1>4, <1>5, <1>6, <1>7 DEF ReaperClaims, Version

LEMMA ConsumedKept ==
  ASSUME TypeOK, Grows, stream' \in [Keys -> Seq(LifecycleEvents)],
         ConsumedIsRealized,
         \A k \in Keys : Len(stream'[k]) = Len(stream[k]),
         \A a \in Aggregates : created[a] # None => created'[a] = created[a]
  PROVE  ConsumedIsRealized'
PROOF
<1> SUFFICES ASSUME NEW k \in Keys, stream'[k] # << >>, Top(k)'.name = "Consumed"
             PROVE  created'[Top(k)'.agg] = k
  BY DEF ConsumedIsRealized
<1>1. /\ Len(stream'[k]) > 0
      /\ Len(stream[k]) \in Nat
      /\ stream[k] # << >> <=> Len(stream[k]) > 0
  BY DEF TypeOK
<1>2. /\ Top(k)'.agg = Top(k).agg
      /\ Top(k)'.name = Top(k).name
  BY <1>1 DEF Top, Grows
<1>3. created[Top(k).agg] = k /\ Top(k).agg \in Aggregates
  BY <1>1, <1>2, EventTypes DEF ConsumedIsRealized, Top
<1> QED
  BY <1>2, <1>3, ReservationConstants

(* A step of call p that appends nothing. *)
LEMMA QuietCallStep ==
  ASSUME SafeInv, NEW p \in Calls,
         UNCHANGED <<stream, created, row, cursor, reaper, faults>>,
         starts' \in 0..MaxStarts,
         call' \in [Calls -> CallStates],
         \A q \in Calls \ {p} : call'[q] = call[q],
         CallClaim(p)'
  PROVE  SafeInv'
PROOF
<1>1. Grows /\ stream' \in [Keys -> Seq(LifecycleEvents)]
  BY UnchangedGrows DEF SafeInv
<1>2. TypeOK'
  BY DEF SafeInv, TypeOK
<1>3. CallClaims'
  BY <1>1, CallClaimKept DEF SafeInv, CallClaims
<1>4. ReaperClaims'
  BY <1>1, ReaperClaimsKept DEF SafeInv
<1>5. RejectedIsAbsent'
  BY DEF SafeInv, RejectedIsAbsent
<1>6. ConsumedIsRealized'
  BY <1>1, ConsumedKept DEF SafeInv
<1>7. CursorInStream'
  BY DEF SafeInv, CursorInStream, Version
<1> QED
  BY <1>2, <1>3, <1>4, <1>5, <1>6, <1>7 DEF SafeInv

(* The states a step may leave a call in. *)
LEMMA CallTypes ==
  ASSUME SafeInv, NEW p \in Calls
  PROVE  /\ call \in [Calls -> CallStates]
         /\ call[p].pc \in CallSteps
         /\ call[p].expected \in Nat
         /\ call[p].tries \in 0..RetryBudget
         /\ call[p].elapsed \in 0..MaxCreate
         /\ IdleCall \in CallStates
         /\ call[p].pc # "idle" =>
              /\ call[p].key \in Keys
              /\ call[p].agg \in Aggregates
              /\ Version(call[p].key) \in Nat
PROOF
<1>1. call \in [Calls -> CallStates] /\ CallClaim(p)
  BY DEF SafeInv, TypeOK, CallClaims
<1>2. call[p] \in CallStates
  BY <1>1
<1>3. IdleCall \in CallStates
  BY ReservationConstants DEF IdleCall, CallStates, CallSteps
<1> QED
  BY <1>1, <1>2, <1>3, EventTypes DEF SafeInv, CallStates, CallClaim, Version

(* Ending a call is a quiet step. *)
LEMMA EndCallKeepsSafeInv ==
  ASSUME SafeInv, NEW p \in Calls, EndCall(p),
         UNCHANGED <<stream, created, starts, row, cursor, reaper, faults>>
  PROVE  SafeInv'
PROOF
<1>1. /\ call' \in [Calls -> CallStates]
      /\ call'[p].pc = "idle"
      /\ \A q \in Calls \ {p} : call'[q] = call[q]
  BY CallTypes DEF EndCall, IdleCall
<1>2. CallClaim(p)'
  BY <1>1 DEF CallClaim
<1>3. starts' \in 0..MaxStarts
  BY DEF SafeInv, TypeOK
<1> QED
  BY <1>1, <1>2, <1>3, QuietCallStep

LEMMA QuietCallActions ==
  ASSUME SafeInv, NEW p \in Calls,
         \/ \E k \in Keys, a \in Aggregates : Start(p, k, a)
         \/ ReserveWrongVersion(p) \/ ClassifyOwn(p) \/ ClassifyReleased(p)
         \/ ClassifyTaken(p) \/ ExecuteWrongVersion(p) \/ ExecuteRejected(p)
         \/ Abandon(p)
  PROVE  SafeInv'
PROOF
<1> USE CallTypes
<1>1. CASE \E k \in Keys, a \in Aggregates : Start(p, k, a)
  <2> PICK k \in Keys, a \in Aggregates : Start(p, k, a)
    BY <1>1
  <2>1. [IdleCall EXCEPT !.pc = "reserve", !.key = k, !.agg = a] \in CallStates
    BY ReservationConstants DEF CallStates, CallSteps, IdleCall
  <2>2. /\ call' \in [Calls -> CallStates]
        /\ call'[p] = [IdleCall EXCEPT !.pc = "reserve", !.key = k, !.agg = a]
        /\ \A q \in Calls \ {p} : call'[q] = call[q]
    BY <2>1 DEF Start
  <2>3. CallClaim(p)'
    BY <2>2 DEF CallClaim, IdleCall
  <2>4. starts' \in 0..MaxStarts
    <3>1. starts \in 0..MaxStarts /\ starts < MaxStarts /\ starts' = starts + 1
      BY DEF SafeInv, TypeOK, Start
    <3> QED
      BY <3>1, ReservationConstants
  <2> QED
    BY <2>2, <2>3, <2>4, QuietCallStep DEF Start
<1>2. CASE ReserveWrongVersion(p)
  <2>1. /\ call' \in [Calls -> CallStates]
        /\ call'[p].pc = "classify"
        /\ call'[p].key = call[p].key /\ call'[p].agg = call[p].agg
        /\ \A q \in Calls \ {p} : call'[q] = call[q]
    BY <1>2 DEF ReserveWrongVersion, CallStates, CallSteps
  <2>2. CallClaim(p)'
    BY <1>2, <2>1 DEF CallClaim, ReserveWrongVersion
  <2> QED
    BY <1>2, <2>1, <2>2, QuietCallStep DEF ReserveWrongVersion, SafeInv, TypeOK
<1>3. CASE ClassifyOwn(p)
  <2> DEFINE k == call[p].key
  <2>1. /\ call' \in [Calls -> CallStates]
        /\ call'[p].pc = "execute"
        /\ call'[p].claim = Version(k)
        /\ call'[p].key = k /\ call'[p].agg = call[p].agg
        /\ \A q \in Calls \ {p} : call'[q] = call[q]
    BY <1>3 DEF ClassifyOwn, CallStates, CallSteps
  <2>2. k \in Keys /\ call[p].agg \in Aggregates
    BY <1>3 DEF ClassifyOwn
  <2>3. /\ stream[k] # << >>
        /\ Top(k).agg = call[p].agg
        /\ Top(k).name # "Released"
    BY <1>3, <2>2, ReservationConstants DEF ClassifyOwn, Owner
  <2>4. Version(k) \in 1..Version(k)
    BY <2>2, <2>3, EventTypes DEF Version, SafeInv
  <2>5. CallClaim(p)'
    BY <1>3, <2>1, <2>2, <2>3, <2>4 DEF CallClaim, ClassifyOwn, Version, Top
  <2> QED
    BY <1>3, <2>1, <2>5, QuietCallStep DEF ClassifyOwn, SafeInv, TypeOK
<1>4. CASE ClassifyReleased(p)
  <2> DEFINE k == call[p].key
  <2>1. CASE call[p].tries < RetryBudget
    <3>1. /\ call' \in [Calls -> CallStates]
          /\ call'[p].pc = "reserve"
          /\ call'[p].expected = Version(k)
          /\ call'[p].key = k /\ call'[p].agg = call[p].agg
          /\ \A q \in Calls \ {p} : call'[q] = call[q]
      BY <1>4, <2>1, ReservationConstants DEF ClassifyReleased, CallStates, CallSteps
    <3>2. k \in Keys /\ call[p].agg \in Aggregates
      BY <1>4 DEF ClassifyReleased
    <3>3. Version(k) # 0 => Top(k).name = "Released" /\ Version(k) \in 1..Version(k)
      <4>1. Owner(k) = None
        BY <1>4 DEF ClassifyReleased
      <4>2. /\ Version(k) \in Nat
            /\ Version(k) # 0 => stream[k] # << >> /\ Top(k).agg # None
        BY <3>2, EventTypes, ReservationConstants DEF SafeInv, Version, Top
      <4> QED
        BY <4>1, <4>2 DEF Owner
    <3>4. CallClaim(p)'
      BY <1>4, <3>1, <3>2, <3>3 DEF CallClaim, ClassifyReleased, Version, Top
    <3> QED
      BY <1>4, <3>1, <3>4, QuietCallStep DEF ClassifyReleased, SafeInv, TypeOK
  <2>2. CASE ~(call[p].tries < RetryBudget)
    BY <1>4, <2>2, EndCallKeepsSafeInv DEF ClassifyReleased
  <2> QED
    BY <2>1, <2>2
<1>5. CASE ClassifyTaken(p)
  BY <1>5, EndCallKeepsSafeInv DEF ClassifyTaken
<1>6. CASE ExecuteWrongVersion(p)
  BY <1>6, EndCallKeepsSafeInv DEF ExecuteWrongVersion
<1>7. CASE ExecuteRejected(p)
  <2>1. /\ call' \in [Calls -> CallStates]
        /\ call'[p].pc = "release"
        /\ call'[p].claim = call[p].claim
        /\ call'[p].key = call[p].key /\ call'[p].agg = call[p].agg
        /\ \A q \in Calls \ {p} : call'[q] = call[q]
    BY <1>7 DEF ExecuteRejected, CallStates, CallSteps
  <2>2. CallClaim(p)
    BY DEF SafeInv, CallClaims
  <2>3. CallClaim(p)'
    BY <1>7, <2>1, <2>2 DEF CallClaim, ExecuteRejected, Version
  <2> QED
    BY <1>7, <2>1, <2>3, QuietCallStep DEF ExecuteRejected, SafeInv, TypeOK
<1>8. CASE Abandon(p)
  BY <1>8, EndCallKeepsSafeInv DEF Abandon
<1> QED
  BY <1>1, <1>2, <1>3, <1>4, <1>5, <1>6, <1>7, <1>8

(* An append leaves the consumed claims realized and the cursors in place. *)
LEMMA AppendKeeps ==
  ASSUME SafeInv, NEW k \in Keys, NEW a \in Aggregates, NEW name \in EventNames,
         AppendLifecycle(k, name, a), UNCHANGED <<created, cursor>>,
         name = "Consumed" => created[a] = k
  PROVE  /\ ConsumedIsRealized' /\ CursorInStream'
         /\ Grows /\ stream' \in [Keys -> Seq(LifecycleEvents)]
PROOF
<1>1. /\ Grows /\ stream' \in [Keys -> Seq(LifecycleEvents)]
      /\ Len(stream'[k]) = Len(stream[k]) + 1
      /\ stream'[k][Len(stream[k]) + 1] = [name |-> name, agg |-> a, age |-> 0]
      /\ \A j \in Keys \ {k} : stream'[j] = stream[j]
  BY AppendGrows DEF SafeInv
<1>2. Top(k)'.name = name /\ Top(k)'.agg = a
  BY <1>1 DEF Top
<1>3. ConsumedIsRealized'
  BY <1>1, <1>2 DEF SafeInv, ConsumedIsRealized, Top
<1>4. CursorInStream'
  <2>1. \A j \in Keys : cursor[j] \in Nat /\ Len(stream[j]) \in Nat
                         /\ Len(stream'[j]) \in Nat
    BY <1>1, EventTypes DEF SafeInv, TypeOK
  <2> QED
    BY <1>1, <2>1 DEF SafeInv, CursorInStream, Version, Grows
<1> QED
  BY <1>1, <1>3, <1>4

(* A call's append of a claim or of a release. *)
LEMMA AppendCallStep ==
  ASSUME SafeInv, NEW p \in Calls, NEW k \in Keys, NEW a \in Aggregates,
         NEW name \in {"Reserved", "Released"},
         AppendLifecycle(k, name, a),
         UNCHANGED <<created, starts, row, cursor, reaper, faults>>,
         call' \in [Calls -> CallStates],
         \A q \in Calls \ {p} : call'[q] = call[q],
         CallClaim(p)'
  PROVE  SafeInv'
PROOF
<1>1. /\ ConsumedIsRealized' /\ CursorInStream'
      /\ Grows /\ stream' \in [Keys -> Seq(LifecycleEvents)]
  BY AppendKeeps DEF EventNames
<1>2. TypeOK'
  BY <1>1 DEF SafeInv, TypeOK
<1>3. CallClaims'
  BY <1>1, CallClaimKept DEF SafeInv, CallClaims
<1>4. ReaperClaims'
  BY <1>1, ReaperClaimsKept DEF SafeInv
<1>5. RejectedIsAbsent'
  BY DEF SafeInv, RejectedIsAbsent
<1> QED
  BY <1>1, <1>2, <1>3, <1>4, <1>5 DEF SafeInv

LEMMA AppendCallActions ==
  ASSUME SafeInv, NEW p \in Calls,
         ReserveAppend(p) \/ CompensateRelease(p)
  PROVE  SafeInv'
PROOF
<1> DEFINE k == call[p].key
           a == call[p].agg
<1>1. CASE ReserveAppend(p)
  <2>1. k \in Keys /\ a \in Aggregates /\ Version(k) \in Nat
    BY <1>1, CallTypes DEF ReserveAppend
  <2>2. AppendLifecycle(k, "Reserved", a)
    BY <1>1 DEF ReserveAppend
  <2>3. /\ call' \in [Calls -> CallStates]
        /\ call'[p].pc = "execute"
        /\ call'[p].claim = Version(k) + 1
        /\ call'[p].key = k /\ call'[p].agg = a
        /\ \A q \in Calls \ {p} : call'[q] = call[q]
    BY <1>1, <2>1, CallTypes DEF ReserveAppend, CallStates, CallSteps
  <2>4. /\ Len(stream'[k]) = Version(k) + 1
        /\ stream'[k][Version(k) + 1].agg = a
        /\ stream'[k][Version(k) + 1].name = "Reserved"
    <3>1. TypeOK /\ "Reserved" \in EventNames
      BY DEF SafeInv, EventNames
    <3>2. /\ Len(stream'[k]) = Len(stream[k]) + 1
          /\ stream'[k][Len(stream[k]) + 1]
               = [name |-> "Reserved", agg |-> a, age |-> 0]
      BY <2>1, <2>2, <3>1, AppendGrows
    <3> QED
      BY <3>2 DEF Version
  <2>5. CallClaim(p)'
    BY <2>1, <2>3, <2>4 DEF CallClaim, Version
  <2> QED
    BY <1>1, <2>1, <2>2, <2>3, <2>5, AppendCallStep DEF ReserveAppend
<1>2. CASE CompensateRelease(p)
  <2>1. k \in Keys /\ a \in Aggregates
    BY <1>2, CallTypes DEF CompensateRelease
  <2>2. CASE Version(k) = call[p].claim
    <3>1. AppendLifecycle(k, "Released", a)
      BY <1>2, <2>2 DEF CompensateRelease
    <3>2. /\ call' \in [Calls -> CallStates]
          /\ call'[p].pc = "idle"
          /\ \A q \in Calls \ {p} : call'[q] = call[q]
      BY <1>2, CallTypes DEF CompensateRelease, EndCall, IdleCall
    <3>3. CallClaim(p)'
      BY <3>2 DEF CallClaim
    <3> QED
      BY <1>2, <2>1, <3>1, <3>2, <3>3, AppendCallStep DEF CompensateRelease
  <2>3. CASE Version(k) # call[p].claim
    BY <1>2, <2>3, EndCallKeepsSafeInv DEF CompensateRelease
  <2> QED
    BY <2>2, <2>3
<1> QED
  BY <1>1, <1>2

LEMMA CreateKeepsSafeInv ==
  ASSUME SafeInv, NEW p \in Calls, ExecuteCreate(p)
  PROVE  SafeInv'
PROOF
<1> DEFINE k == call[p].key
           a == call[p].agg
<1>1. k \in Keys /\ a \in Aggregates /\ a \notin Rejected /\ created[a] = None
  BY CallTypes DEF ExecuteCreate
<1>2. created' = [created EXCEPT ![a] = k] /\ created \in [Aggregates -> Keys \cup {None}]
  BY DEF ExecuteCreate, SafeInv, TypeOK
<1>3. \A b \in Aggregates : created[b] # None => created'[b] = created[b]
  BY <1>1, <1>2
<1>4. Grows /\ stream' \in [Keys -> Seq(LifecycleEvents)]
  BY UnchangedGrows DEF SafeInv, ExecuteCreate
<1>5. /\ call' \in [Calls -> CallStates]
      /\ call'[p].pc = "idle"
      /\ \A q \in Calls \ {p} : call'[q] = call[q]
  BY CallTypes DEF ExecuteCreate, EndCall, IdleCall
<1>6. TypeOK'
  BY <1>1, <1>2, <1>5 DEF SafeInv, TypeOK, ExecuteCreate
<1>7. CallClaims'
  <2>1. CallClaim(p)'
    BY <1>5 DEF CallClaim
  <2>2. \A q \in Calls \ {p} : CallClaim(q)'
    BY <1>4, <1>5, CallClaimKept DEF SafeInv, CallClaims
  <2> QED
    BY <2>1, <2>2 DEF CallClaims
<1>8. ReaperClaims'
  BY <1>3, <1>4, ReaperClaimsKept DEF SafeInv, ExecuteCreate
<1>9. RejectedIsAbsent'
  BY <1>1, <1>2, ReservationConstants DEF SafeInv, RejectedIsAbsent
<1>10. ConsumedIsRealized'
  BY <1>3, <1>4, ConsumedKept DEF SafeInv, ExecuteCreate
<1>11. CursorInStream'
  BY DEF SafeInv, CursorInStream, Version, ExecuteCreate
<1> QED
  BY <1>6, <1>7, <1>8, <1>9, <1>10, <1>11 DEF SafeInv

(* A step of the reaper that appends nothing. *)
LEMMA QuietReaperStep ==
  ASSUME SafeInv,
         UNCHANGED <<stream, created, call, starts, row, cursor>>,
         faults' \in 0..MaxFaults,
         reaper' \in ReaperStates,
         ReaperClaims'
  PROVE  SafeInv'
PROOF
<1>1. Grows /\ stream' \in [Keys -> Seq(LifecycleEvents)]
  BY UnchangedGrows DEF SafeInv
<1>2. TypeOK'
  BY DEF SafeInv, TypeOK
<1>3. CallClaims'
  BY <1>1, CallClaimKept DEF SafeInv, CallClaims
<1>4. RejectedIsAbsent'
  BY DEF SafeInv, RejectedIsAbsent
<1>5. ConsumedIsRealized'
  BY <1>1, ConsumedKept DEF SafeInv
<1>6. CursorInStream'
  BY DEF SafeInv, CursorInStream, Version
<1> QED
  BY <1>2, <1>3, <1>4, <1>5, <1>6 DEF SafeInv

LEMMA ReaperTypes ==
  ASSUME SafeInv
  PROVE  /\ reaper \in ReaperStates
         /\ reaper.todo \subseteq Candidates
         /\ IdleReaper \in ReaperStates
         /\ [IdleReaper EXCEPT !.todo = reaper.todo] \in ReaperStates
         /\ reaper.pc # "next" => reaper.key \in Keys /\ reaper.agg \in Aggregates
         /\ \A c \in Candidates : /\ c.key \in Keys /\ c.agg \in Aggregates
                                 /\ Version(c.key) \in Nat
PROOF
<1>1. reaper \in ReaperStates
  BY DEF SafeInv, TypeOK
<1>2. \A c \in Candidates : c.key \in Keys /\ c.agg \in Aggregates
  BY DEF Candidates
<1> QED
  BY <1>1, <1>2, EventTypes
  DEF ReaperStates, ReaperSteps, IdleReaper, SafeInv, ReaperClaims, Version

LEMMA QuietReaperActions ==
  ASSUME SafeInv,
         \/ StartPass \/ (\E c \in Candidates : ReapRead(c)) \/ ReapProbe
         \/ ReapFault \/ ReapCrash
  PROVE  SafeInv'
PROOF
<1> USE ReaperTypes
<1>0. faults' \in 0..MaxFaults
  <2>1. faults \in 0..MaxFaults
    BY DEF SafeInv, TypeOK
  <2> QED
    BY <2>1, ReservationConstants DEF StartPass, ReapRead, ReapProbe, ReapFault, ReapCrash
<1>1. CASE StartPass
  <2>1. ExpiredRows \subseteq Candidates
    BY DEF ExpiredRows
  <2>2. reaper' \in ReaperStates /\ reaper'.pc = "next"
    BY <1>1, <2>1 DEF StartPass, ReaperStates, IdleReaper
  <2> QED
    BY <1>0, <1>1, <2>2, QuietReaperStep DEF StartPass, ReaperClaims
<1>2. CASE \E c \in Candidates : ReapRead(c)
  <2> PICK c \in Candidates : ReapRead(c)
    BY <1>2
  <2>1. CASE Reserves(c.key, c.agg) /\ Top(c.key).age = ClaimTtl
    <3>1. reaper' = [pc |-> "probe", todo |-> reaper.todo \ {c}, key |-> c.key,
                     agg |-> c.agg, version |-> Version(c.key)]
      BY <2>1 DEF ReapRead
    <3>2. reaper' \in ReaperStates
      BY <3>1 DEF ReaperStates, ReaperSteps
    <3>3. Version(c.key) \in 1..Version(c.key)
      BY <2>1, EventTypes DEF Reserves, SafeInv, Version
    <3>4. ReaperClaims'
      BY <2>1, <3>1, <3>3 DEF ReaperClaims, Reserves, ReapRead, Version, Top
    <3> QED
      BY <1>0, <3>2, <3>4, QuietReaperStep DEF ReapRead
  <2>2. CASE ~(Reserves(c.key, c.agg) /\ Top(c.key).age = ClaimTtl)
    <3>1. reaper' = [reaper EXCEPT !.todo = @ \ {c}] /\ reaper.pc = "next"
      BY <2>2 DEF ReapRead
    <3>2. reaper' \in ReaperStates /\ reaper'.pc = "next"
      BY <3>1 DEF ReaperStates
    <3> QED
      BY <1>0, <3>2, QuietReaperStep DEF ReapRead, ReaperClaims
  <2> QED
    BY <2>1, <2>2
<1>3. CASE ReapProbe
  <2>1. /\ reaper' \in ReaperStates
        /\ reaper'.key = reaper.key /\ reaper'.agg = reaper.agg
        /\ reaper'.version = reaper.version
        /\ reaper'.pc = "consume" => created[reaper.agg] = reaper.key
    BY <1>3 DEF ReapProbe, ReaperStates, ReaperSteps
  <2>2. ReaperClaims'
    BY <1>3, <2>1 DEF ReapProbe, ReaperClaims, SafeInv, Version
  <2> QED
    BY <1>0, <1>3, <2>1, <2>2, QuietReaperStep DEF ReapProbe
<1>4. CASE ReapFault
  <2>1. reaper' \in ReaperStates /\ reaper'.pc = "next"
    BY <1>4 DEF ReapFault, Disposed, IdleReaper
  <2> QED
    BY <1>0, <1>4, <2>1, QuietReaperStep DEF ReapFault, ReaperClaims
<1>5. CASE ReapCrash
  <2>1. reaper' \in ReaperStates /\ reaper'.pc = "next"
    BY <1>5 DEF ReapCrash, IdleReaper
  <2> QED
    BY <1>0, <1>5, <2>1, QuietReaperStep DEF ReapCrash, ReaperClaims
<1> QED
  BY <1>1, <1>2, <1>3, <1>4, <1>5

LEMMA ReapAppendKeepsSafeInv ==
  ASSUME SafeInv, ReapRelease \/ ReapConsume
  PROVE  SafeInv'
PROOF
<1> DEFINE k == reaper.key
           a == reaper.agg
<1>1. /\ k \in Keys /\ a \in Aggregates /\ reaper' \in ReaperStates
      /\ reaper'.pc = "next"
  BY ReaperTypes DEF ReapRelease, ReapConsume, ReapAppend, Disposed, IdleReaper
<1>2. UNCHANGED <<created, call, starts, row, cursor, faults>>
  BY DEF ReapRelease, ReapConsume, ReapAppend
<1>3. PICK name \in {"Released", "Consumed"} :
        /\ ReapAppend(name)
        /\ name = "Consumed" => created[a] = k
  BY DEF ReapRelease, ReapConsume, SafeInv, ReaperClaims
<1>4. CASE Version(k) = reaper.version
  <2>1. AppendLifecycle(k, name, a)
    BY <1>3, <1>4 DEF ReapAppend
  <2>2. /\ ConsumedIsRealized' /\ CursorInStream'
        /\ Grows /\ stream' \in [Keys -> Seq(LifecycleEvents)]
    BY <1>1, <1>2, <1>3, <2>1, AppendKeeps DEF EventNames
  <2>3. TypeOK'
    BY <1>1, <1>2, <2>2 DEF SafeInv, TypeOK
  <2>4. CallClaims'
    BY <1>2, <2>2, CallClaimKept DEF SafeInv, CallClaims
  <2>5. ReaperClaims' /\ RejectedIsAbsent'
    BY <1>1, <1>2 DEF SafeInv, ReaperClaims, RejectedIsAbsent
  <2> QED
    BY <2>2, <2>3, <2>4, <2>5 DEF SafeInv
<1>5. CASE Version(k) # reaper.version
  <2>1. UNCHANGED stream
    BY <1>3, <1>5 DEF ReapAppend
  <2>2. ReaperClaims' /\ faults' \in 0..MaxFaults
    BY <1>1, <1>2 DEF ReaperClaims, SafeInv, TypeOK
  <2> QED
    BY <1>1, <1>2, <2>1, <2>2, QuietReaperStep
<1> QED
  BY <1>4, <1>5

(* The projector's steps touch neither streams nor calls. *)
LEMMA ProjectKeepsSafeInv ==
  ASSUME SafeInv, NEW k \in Keys,
         Project(k) \/ (\E i \in 1..cursor[k] : Redeliver(k, i))
  PROVE  SafeInv'
PROOF
<1>1. UNCHANGED <<stream, created, call, starts, reaper, faults>>
  BY DEF Project, Redeliver
<1>2. cursor \in [Keys -> Nat] /\ row \in [Keys -> Rows] /\ Version(k) \in Nat
      /\ cursor[k] <= Version(k)
  BY EventTypes DEF SafeInv, TypeOK, CursorInStream, Version
<1>3. PICK i \in 1..Version(k) : row' = [row EXCEPT ![k] = Projected(k, i)]
  BY <1>2 DEF Project, Redeliver
<1>4. Projected(k, i) \in Rows
  <2>1. row[k] \in Rows /\ i \in Nat /\ stream[k][i].name \in EventNames
        /\ stream[k][i].agg \in Aggregates
    BY <1>2, <1>3, EventTypes DEF SafeInv, Version
  <2> QED
    BY <2>1 DEF Projected, Rows, EventNames
<1>5. row' \in [Keys -> Rows]
  BY <1>2, <1>3, <1>4
<1>6. cursor' \in [Keys -> Nat] /\ CursorInStream'
  <2>1. CASE Project(k)
    BY <1>1, <1>2, <2>1, EventTypes DEF Project, SafeInv, CursorInStream, Version
  <2>2. CASE UNCHANGED cursor
    BY <1>1, <1>2, <2>2 DEF SafeInv, CursorInStream, Version
  <2> QED
    BY <2>1, <2>2 DEF Redeliver
<1>7. Grows /\ stream' \in [Keys -> Seq(LifecycleEvents)]
  BY <1>1, UnchangedGrows DEF SafeInv
<1>8. TypeOK'
  BY <1>1, <1>5, <1>6 DEF SafeInv, TypeOK
<1>9. CallClaims' /\ ReaperClaims' /\ RejectedIsAbsent' /\ ConsumedIsRealized'
  BY <1>1, <1>7, CallClaimKept, ReaperClaimsKept, ConsumedKept
  DEF SafeInv, CallClaims, RejectedIsAbsent
<1> QED
  BY <1>6, <1>8, <1>9 DEF SafeInv

LEMMA TickKeepsSafeInv ==
  ASSUME SafeInv, Tick
  PROVE  SafeInv'
PROOF
<1>1. /\ Grows /\ stream' \in [Keys -> Seq(LifecycleEvents)]
      /\ \A k \in Keys : Len(stream'[k]) = Len(stream[k])
  BY TickGrows DEF SafeInv
<1>2. UNCHANGED <<created, starts, row, cursor, reaper, faults>>
  BY DEF Tick
<1>3. ASSUME NEW p \in Calls
      PROVE  /\ call'[p] \in CallStates
             /\ call'[p].pc = call[p].pc /\ call'[p].key = call[p].key
             /\ call'[p].agg = call[p].agg /\ call'[p].expected = call[p].expected
             /\ call'[p].claim = call[p].claim
  <2>1. call[p] \in CallStates
    BY DEF SafeInv, TypeOK
  <2>2. call[p].pc # "idle" => call[p].elapsed < MaxCreate
    BY DEF Tick
  <2>3. call'[p] = IF call[p].pc = "idle" THEN call[p]
                   ELSE [call[p] EXCEPT !.elapsed = @ + 1]
    BY DEF Tick
  <2> QED
    BY <2>1, <2>2, <2>3, ReservationConstants DEF CallStates
<1>4. call' \in [Calls -> CallStates]
  BY <1>3 DEF Tick
<1>5. TypeOK'
  BY <1>1, <1>2, <1>4 DEF SafeInv, TypeOK
<1>6. CallClaims'
  BY <1>1, <1>3, CallClaimKept DEF SafeInv, CallClaims
<1>7. ReaperClaims' /\ RejectedIsAbsent' /\ ConsumedIsRealized'
  BY <1>1, <1>2, ReaperClaimsKept, ConsumedKept DEF SafeInv, RejectedIsAbsent
<1>8. CursorInStream'
  BY <1>1, <1>2 DEF SafeInv, CursorInStream, Version
<1> QED
  BY <1>5, <1>6, <1>7, <1>8 DEF SafeInv

LEMMA SafeInvInit == Init => SafeInv
PROOF
<1> SUFFICES ASSUME Init PROVE SafeInv
  OBVIOUS
<1>1. /\ IdleCall \in CallStates /\ IdleCall.pc = "idle"
      /\ AbsentRow \in Rows
      /\ IdleReaper \in ReaperStates /\ IdleReaper.pc = "next"
  BY ReservationConstants DEF IdleCall, CallStates, CallSteps, AbsentRow, Rows,
     IdleReaper, ReaperStates, ReaperSteps
<1>2. TypeOK
  BY <1>1, ReservationConstants DEF Init, TypeOK
<1>3. CallClaims /\ ReaperClaims
  BY <1>1 DEF Init, CallClaims, CallClaim, ReaperClaims
<1>4. RejectedIsAbsent /\ ConsumedIsRealized /\ CursorInStream
  BY ReservationConstants
  DEF Init, RejectedIsAbsent, ConsumedIsRealized, CursorInStream, Version
<1> QED
  BY <1>2, <1>3, <1>4 DEF SafeInv

LEMMA SafeInvNext == SafeInv /\ [Next]_vars => SafeInv'
PROOF
<1> SUFFICES ASSUME SafeInv, [Next]_vars PROVE SafeInv'
  OBVIOUS
<1>1. ASSUME NEW p \in Calls, CallStep(p) \/ Abandon(p)
      PROVE  SafeInv'
  BY <1>1, QuietCallActions, AppendCallActions, CreateKeepsSafeInv DEF CallStep
<1>2. ASSUME NEW p \in Calls, NEW k \in Keys, NEW a \in Aggregates, Start(p, k, a)
      PROVE  SafeInv'
  BY <1>2, QuietCallActions
<1>3. CASE ReapStep \/ ReapFault \/ ReapCrash
  BY <1>3, QuietReaperActions, ReapAppendKeepsSafeInv DEF ReapStep
<1>4. CASE UNCHANGED vars
  <2>1. starts' \in 0..MaxStarts /\ faults' \in 0..MaxFaults /\ reaper' \in ReaperStates
    BY <1>4 DEF SafeInv, TypeOK, vars
  <2>2. ReaperClaims'
    BY <1>4 DEF SafeInv, ReaperClaims, Version, vars
  <2> QED
    BY <1>4, <2>1, <2>2, QuietReaperStep DEF vars
<1> QED
  BY <1>1, <1>2, <1>3, <1>4, ProjectKeepsSafeInv, TickKeepsSafeInv DEF Next

(* Type correctness of the reservation store, its callers, the projection  *)
(* and the reaper.                                                         *)
THEOREM TypeCorrect == Spec => []TypeOK
PROOF
<1>1. SafeInv => TypeOK
  BY DEF SafeInv
<1> QED
  BY <1>1, SafeInvInit, SafeInvNext, PTL DEF Spec

(* Whatever is re-driven and however late, nothing follows a consumed      *)
(* claim on its stream.                                                    *)
THEOREM ConsumedFinality == Spec => ConsumedIsFinal
PROOF
<1>1. ASSUME SafeInv, [Next]_vars, NEW k \in Keys,
             stream[k] # << >>, Top(k).name = "Consumed"
      PROVE  Len(stream'[k]) = Len(stream[k])
  <2>1. /\ created[Top(k).agg] = k /\ Top(k).agg \in Aggregates
        /\ Len(stream[k]) \in Nat \ {0}
    BY <1>1, EventTypes DEF SafeInv, ConsumedIsRealized, Top
  <2>2. ASSUME NEW p \in Calls, ReserveAppend(p)
        PROVE  call[p].key # k
    <3>1. CallClaim(p) /\ call[p].pc = "reserve" /\ Version(call[p].key) = call[p].expected
      BY <1>1, <2>2 DEF SafeInv, CallClaims, ReserveAppend
    <3> QED
      BY <1>1, <2>1, <3>1 DEF CallClaim, Version, Top
  <2>3. ASSUME NEW p \in Calls, CompensateRelease(p), Version(call[p].key) = call[p].claim
        PROVE  call[p].key # k
    <3>1. CallClaim(p) /\ call[p].pc = "release"
      BY <1>1, <2>3 DEF SafeInv, CallClaims, CompensateRelease
    <3>2. SUFFICES ASSUME call[p].key = k PROVE FALSE
      OBVIOUS
    <3>3. Top(k).agg \in Rejected
      BY <2>3, <3>1, <3>2 DEF CallClaim, Version, Top
    <3> QED
      BY <1>1, <2>1, <3>3, ReservationConstants DEF SafeInv, RejectedIsAbsent
  <2>4. ASSUME ReapRelease \/ ReapConsume, Version(reaper.key) = reaper.version
        PROVE  reaper.key # k
    <3>1. ReaperClaims /\ reaper.pc # "next"
      BY <1>1, <2>4 DEF SafeInv, ReapRelease, ReapConsume
    <3> QED
      BY <1>1, <2>4, <3>1 DEF ReaperClaims, Version, Top
  <2>5. ASSUME NEW j, NEW a, NEW name, AppendLifecycle(j, name, a), j # k
        PROVE  stream'[k] = stream[k]
    BY <1>1, <2>5 DEF SafeInv, TypeOK, AppendLifecycle
  <2>6. ASSUME NEW p \in Calls, CallStep(p) \/ Abandon(p)
        PROVE  stream'[k] = stream[k]
    <3>1. CASE ReserveAppend(p)
      BY <3>1, <2>2, <2>5 DEF ReserveAppend
    <3>2. CASE CompensateRelease(p)
      BY <3>2, <2>3, <2>5 DEF CompensateRelease
    <3>3. CASE ~ReserveAppend(p) /\ ~CompensateRelease(p)
      BY <3>3, <2>6 DEF CallStep, Abandon, ReserveWrongVersion, ClassifyOwn,
         ClassifyReleased, ClassifyTaken, ExecuteCreate, ExecuteWrongVersion,
         ExecuteRejected
    <3> QED
      BY <3>1, <3>2, <3>3
  <2>7. CASE ReapStep \/ ReapFault \/ ReapCrash
    <3>1. CASE ReapRelease \/ ReapConsume
      BY <3>1, <2>4, <2>5 DEF ReapRelease, ReapConsume, ReapAppend
    <3>2. CASE ~(ReapRelease \/ ReapConsume)
      BY <3>2, <2>7 DEF ReapStep, ReapFault, ReapCrash, StartPass, ReapRead, ReapProbe
    <3> QED
      BY <3>1, <3>2
  <2>8. CASE Tick
    BY <1>1, <2>8, TickGrows DEF SafeInv
  <2>9. CASE UNCHANGED vars
    BY <2>9 DEF vars
  <2> QED
    BY <1>1, <2>6, <2>7, <2>8, <2>9 DEF Next, Start, Project, Redeliver
<1>2. SafeInv /\ [Next]_vars
        => [\A k \in Keys : stream[k] # << >> /\ Top(k).name = "Consumed"
                               => Version(k)' = Version(k)]_vars
  BY <1>1 DEF Version
<1> QED
  BY <1>2, SafeInvInit, SafeInvNext, PTL DEF Spec, ConsumedIsFinal

-----------------------------------------------------------------------------
(* TimedInv *)

(* What an append needs to know of the top it replaces. *)
LEMMA ReserveOnFreeKey ==
  ASSUME SafeInv, NEW p \in Calls, ReserveAppend(p)
  PROVE  /\ Owner(call[p].key) = None
         /\ \A a \in Aggregates : ~Reserves(call[p].key, a)
PROOF
<1> DEFINE k == call[p].key
<1>1. /\ CallClaim(p) /\ call[p].pc = "reserve" /\ Version(k) = call[p].expected
      /\ k \in Keys /\ Version(k) \in Nat
  BY CallTypes DEF SafeInv, CallClaims, ReserveAppend
<1>2. stream[k] # << >> => Top(k).name = "Released"
  BY <1>1, EventTypes DEF CallClaim, Version, Top, SafeInv
<1> QED
  BY <1>2 DEF Owner, Reserves

LEMMA CompensateOwnClaim ==
  ASSUME SafeInv, NEW p \in Calls, call[p].pc = "release",
         Version(call[p].key) = call[p].claim
  PROVE  /\ Owner(call[p].key) = call[p].agg
         /\ call[p].agg \in Rejected
         /\ created[call[p].agg] = None
PROOF
<1> DEFINE k == call[p].key
<1>1. CallClaim(p) /\ k \in Keys
  BY CallTypes DEF SafeInv, CallClaims
<1>2. /\ call[p].claim \in 1..Len(stream[k])
      /\ Top(k).agg = call[p].agg /\ Top(k).name # "Released"
      /\ call[p].agg \in Rejected
  BY <1>1 DEF CallClaim, Version, Top
<1>3. stream[k] # << >>
  BY <1>1, <1>2, EventTypes DEF SafeInv
<1> QED
  BY <1>2, <1>3 DEF Owner, SafeInv, RejectedIsAbsent

LEMMA ReapsExpiredClaim ==
  ASSUME SafeInv, reaper.pc # "next", Version(reaper.key) = reaper.version
  PROVE  /\ reaper.key \in Keys /\ reaper.agg \in Aggregates
         /\ Reserves(reaper.key, reaper.agg)
         /\ Owner(reaper.key) = reaper.agg
         /\ Top(reaper.key).age = ClaimTtl
PROOF
<1>1. ReaperClaims
  BY DEF SafeInv
<1>2. reaper.key \in Keys /\ reaper.agg \in Aggregates
      /\ reaper.version \in 1..Len(stream[reaper.key])
  BY <1>1 DEF ReaperClaims, Version
<1>3. stream[reaper.key] # << >>
  BY <1>2, EventTypes DEF SafeInv
<1> QED
  BY <1>1, <1>2, <1>3 DEF ReaperClaims, Version, Top, Reserves, Owner

(* The top of a stream after an append, and of the others. *)
LEMMA AppendTop ==
  ASSUME SafeInv, NEW k \in Keys, NEW a \in Aggregates, NEW name \in EventNames,
         AppendLifecycle(k, name, a)
  PROVE  /\ \A b : Reserves(k, b)' <=> name = "Reserved" /\ a = b
         /\ Owner(k)' = IF name = "Released" THEN None ELSE a
         /\ Top(k)'.age = 0
         /\ Version(k)' = Version(k) + 1
         /\ \A j \in Keys \ {k} : /\ Owner(j)' = Owner(j)
                                 /\ Top(j)' = Top(j)
                                 /\ Version(j)' = Version(j)
                                 /\ \A b : Reserves(j, b)' <=> Reserves(j, b)
PROOF
<1>1. /\ stream' \in [Keys -> Seq(LifecycleEvents)]
      /\ Len(stream'[k]) = Len(stream[k]) + 1
      /\ stream'[k][Len(stream[k]) + 1] = [name |-> name, agg |-> a, age |-> 0]
      /\ \A j \in Keys \ {k} : stream'[j] = stream[j]
  BY AppendGrows DEF SafeInv
<1>2. stream'[k] # << >>
  <2>1. Len(stream[k]) \in Nat
    BY EventTypes DEF SafeInv
  <2> QED
    BY <1>1, <2>1
<1>3. Top(k)' = [name |-> name, agg |-> a, age |-> 0]
  BY <1>1 DEF Top
<1> QED
  BY <1>1, <1>2, <1>3 DEF Top, Owner, Reserves, Version

(* A step that leaves streams, aggregates and the reaper alone. *)
LEMMA QuietTimed ==
  ASSUME TimedInv, UNCHANGED <<stream, created>>,
         \A q \in Calls : call'[q] = call[q] \/ (EndsInTime(q)' /\ HasClaim(q)'),
         ReleaseIsSafe'
  PROVE  TimedInv'
PROOF
<1>1. ASSUME NEW q \in Calls
      PROVE  EndsInTime(q)' /\ HasClaim(q)'
  <2>1. CASE call'[q] = call[q]
    BY <2>1 DEF TimedInv, Punctual, ExecutesOnClaim, EndsInTime, HasClaim, Reserves, Top
  <2> QED
    BY <2>1
<1>2. RealizedClaimIsHeld'
  BY DEF TimedInv, RealizedClaimIsHeld, Owner, Top
<1> QED
  BY <1>1, <1>2 DEF TimedInv, Punctual, ExecutesOnClaim

LEMMA QuietReleaseIsSafe ==
  ASSUME TimedInv, UNCHANGED <<stream, created, reaper>>
  PROVE  ReleaseIsSafe'
PROOF
  BY DEF TimedInv, ReleaseIsSafe, Version

LEMMA QuietCallTimed ==
  ASSUME LateRedrive = FALSE, SafeInv, TimedInv, NEW p \in Calls,
         \/ \E k \in Keys, a \in Aggregates : Start(p, k, a)
         \/ ReserveWrongVersion(p) \/ ClassifyOwn(p) \/ ClassifyReleased(p)
         \/ ClassifyTaken(p) \/ ExecuteWrongVersion(p) \/ ExecuteRejected(p)
         \/ (CompensateRelease(p) /\ UNCHANGED stream)
         \/ Abandon(p)
  PROVE  TimedInv'
PROOF
<1>1. UNCHANGED <<stream, created, reaper>>
  BY DEF Start, ReserveWrongVersion, ClassifyOwn, ClassifyReleased, ClassifyTaken,
     ExecuteWrongVersion, ExecuteRejected, CompensateRelease, Abandon
<1>2. \A q \in Calls \ {p} : call'[q] = call[q]
  BY CallTypes DEF Start, ReserveWrongVersion, ClassifyOwn, ClassifyReleased, ClassifyTaken,
     ExecuteWrongVersion, ExecuteRejected, CompensateRelease, Abandon, EndCall
<1>3. EndsInTime(p) /\ HasClaim(p)
  BY DEF TimedInv, Punctual, ExecutesOnClaim
<1> SUFFICES EndsInTime(p)' /\ HasClaim(p)'
  BY <1>1, <1>2, QuietReleaseIsSafe, QuietTimed
<1>4. CASE EndCall(p)
  <2>1. call'[p].pc = "idle"
    BY <1>4, CallTypes DEF EndCall, IdleCall
  <2> QED
    BY <2>1 DEF EndsInTime, HasClaim
<1>5. ASSUME call'[p].pc # "execute", call[p].pc # "idle",
             call'[p].key = call[p].key, call'[p].agg = call[p].agg,
             call'[p].elapsed = call[p].elapsed
      PROVE  EndsInTime(p)' /\ HasClaim(p)'
  BY <1>1, <1>3, <1>5 DEF EndsInTime, HasClaim, Reserves, Top
<1>6. CASE \E k \in Keys, a \in Aggregates : Start(p, k, a)
  <2> PICK k \in Keys, a \in Aggregates : Start(p, k, a)
    BY <1>6
  <2>1. /\ call'[p].pc = "reserve" /\ call'[p].key = k /\ call'[p].agg = a
        /\ call'[p].elapsed = 0
    BY CallTypes DEF Start, IdleCall
  <2>2. RedriveInTime(k, a)
    BY DEF Start
  <2>3. Reserves(k, a) => Top(k).age + MaxCreate < ClaimTtl
    BY <2>2 DEF RedriveInTime
  <2>4. ClaimTtl + 0 = ClaimTtl
    BY ReservationConstants
  <2>5. EndsInTime(p)'
    BY <1>1, <2>1, <2>3, <2>4 DEF EndsInTime, Reserves, Top
  <2>6. HasClaim(p)'
    BY <2>1 DEF HasClaim
  <2> QED
    BY <2>5, <2>6
<1>7. CASE ReserveWrongVersion(p)
  BY <1>5, <1>7, CallTypes DEF ReserveWrongVersion
<1>8. CASE ClassifyOwn(p)
  <2>1. /\ call'[p].pc = "execute" /\ call'[p].key = call[p].key
        /\ call'[p].agg = call[p].agg /\ call'[p].elapsed = call[p].elapsed
    BY <1>8, CallTypes DEF ClassifyOwn
  <2>2. /\ call[p].pc = "classify" /\ Owner(call[p].key) = call[p].agg
        /\ call[p].key \in Keys /\ call[p].agg \in Aggregates
    BY <1>8, CallTypes DEF ClassifyOwn
  <2>3. /\ stream[call[p].key] # << >> /\ Top(call[p].key).agg = call[p].agg
        /\ Top(call[p].key).name \in {"Reserved", "Consumed"}
    BY <2>2, EventTypes, ReservationConstants DEF Owner, SafeInv, Top, EventNames
  <2>4. Reserves(call[p].key, call[p].agg) \/ created[call[p].agg] # None
    BY <2>2, <2>3, ReservationConstants DEF Reserves, SafeInv, ConsumedIsRealized
  <2> QED
    BY <1>1, <1>3, <2>1, <2>2, <2>4 DEF EndsInTime, HasClaim, Reserves, Top
<1>9. CASE ClassifyReleased(p)
  <2>1. CASE call[p].tries < RetryBudget
    <3>1. call' = [call EXCEPT ![p].pc = "reserve", ![p].tries = @ + 1,
                               ![p].expected = Version(call[p].key)]
      BY <1>9, <2>1 DEF ClassifyReleased
    <3>2. /\ call'[p].pc = "reserve" /\ call'[p].key = call[p].key
          /\ call'[p].agg = call[p].agg /\ call'[p].elapsed = call[p].elapsed
      BY <3>1, CallTypes
    <3>3. call[p].pc # "idle"
      BY <1>9 DEF ClassifyReleased
    <3> QED
      BY <1>5, <3>2, <3>3
  <2>2. CASE ~(call[p].tries < RetryBudget)
    BY <1>4, <1>9, <2>2 DEF ClassifyReleased
  <2> QED
    BY <2>1, <2>2
<1>10. CASE ExecuteRejected(p)
  BY <1>5, <1>10, CallTypes DEF ExecuteRejected
<1> QED
  BY <1>4, <1>6, <1>7, <1>8, <1>9, <1>10
  DEF ClassifyTaken, ExecuteWrongVersion, CompensateRelease, Abandon

(* An append by a call leaves the reaper's version behind the stream. *)
LEMMA AppendDisarmsReaper ==
  ASSUME SafeInv, TimedInv, NEW k \in Keys, NEW a \in Aggregates, NEW name \in EventNames,
         AppendLifecycle(k, name, a), UNCHANGED <<created, reaper>>
  PROVE  ReleaseIsSafe'
PROOF
<1> SUFFICES ASSUME reaper.pc = "release", Version(reaper.key)' = reaper.version
             PROVE  created[reaper.agg] # reaper.key
  BY DEF ReleaseIsSafe, Version
<1>1. reaper.key \in Keys /\ reaper.version \in 1..Version(reaper.key)
  BY DEF SafeInv, ReaperClaims
<1>2. reaper.key # k
  <2>1. Version(k)' = Version(k) + 1 /\ Version(k) \in Nat
    BY AppendTop, EventTypes DEF SafeInv, Version
  <2> QED
    BY <1>1, <2>1 DEF Version
<1>3. Version(reaper.key) = reaper.version
  <2>1. stream'[reaper.key] = stream[reaper.key]
    BY <1>1, <1>2 DEF AppendLifecycle, SafeInv, TypeOK
  <2> QED
    BY <2>1 DEF Version
<1> QED
  BY <1>3 DEF TimedInv, ReleaseIsSafe

(* The events of the streams after an append on k. *)
LEMMA AppendRaw ==
  ASSUME SafeInv, NEW k \in Keys, NEW a \in Aggregates, NEW name \in EventNames,
         AppendLifecycle(k, name, a)
  PROVE  /\ stream'[k] # << >>
         /\ stream'[k][Len(stream'[k])] = [name |-> name, agg |-> a, age |-> 0]
         /\ \A j \in Keys \ {k} : stream'[j] = stream[j]
PROOF
<1>1. /\ stream' \in [Keys -> Seq(LifecycleEvents)]
      /\ Len(stream'[k]) = Len(stream[k]) + 1
      /\ stream'[k][Len(stream[k]) + 1] = [name |-> name, agg |-> a, age |-> 0]
      /\ \A j \in Keys \ {k} : stream'[j] = stream[j]
  BY AppendGrows DEF SafeInv
<1>2. Len(stream[k]) \in Nat
  BY EventTypes DEF SafeInv
<1> QED
  BY <1>1, <1>2

(* An append on k leaves the calls for other keys as they are. *)
LEMMA OtherKeysTimed ==
  ASSUME TimedInv, NEW k \in Keys, \A j \in Keys \ {k} : stream'[j] = stream[j],
         NEW q \in Calls, call'[q] = call[q], call[q].key \in Keys \ {k},
         UNCHANGED created
  PROVE  EndsInTime(q)' /\ HasClaim(q)'
PROOF
<1>1. EndsInTime(q) /\ HasClaim(q)
  BY DEF TimedInv, Punctual, ExecutesOnClaim
<1>2. stream'[call[q].key] = stream[call[q].key]
  OBVIOUS
<1> QED
  BY <1>1, <1>2 DEF EndsInTime, HasClaim, Reserves, Top

(* The owners after an append on k that gives up no realized key. *)
LEMMA AppendHeld ==
  ASSUME SafeInv, TimedInv, NEW k \in Keys, NEW a \in Aggregates, NEW name \in EventNames,
         AppendLifecycle(k, name, a), UNCHANGED created,
         \A b \in Aggregates : created[b] = k => name # "Released" /\ a = b
  PROVE  RealizedClaimIsHeld'
PROOF
<1>1. /\ stream'[k] # << >>
      /\ stream'[k][Len(stream'[k])] = [name |-> name, agg |-> a, age |-> 0]
      /\ \A j \in Keys \ {k} : stream'[j] = stream[j]
  BY AppendRaw
<1>2. SUFFICES ASSUME NEW b \in Aggregates, created[b] # None
               PROVE  Owner(created[b])' = b
  BY DEF RealizedClaimIsHeld
<1>3. created[b] \in Keys /\ Owner(created[b]) = b
  BY <1>2 DEF SafeInv, TypeOK, TimedInv, RealizedClaimIsHeld
<1>4. CASE created[b] = k
  <2>1. name # "Released" /\ a = b
    BY <1>4
  <2>2. stream'[created[b]][Len(stream'[created[b]])].name # "Released"
        /\ stream'[created[b]][Len(stream'[created[b]])].agg = b
        /\ stream'[created[b]] # << >>
    BY <1>1, <1>4, <2>1
  <2> QED
    BY <2>2 DEF Owner, Top
<1>5. CASE created[b] # k
  <2>1. stream'[created[b]] = stream[created[b]]
    BY <1>1, <1>3, <1>5
  <2> QED
    BY <1>3, <2>1 DEF Owner, Top
<1> QED
  BY <1>4, <1>5

LEMMA ReserveTimed ==
  ASSUME SafeInv, TimedInv, NEW p \in Calls, ReserveAppend(p)
  PROVE  TimedInv'
PROOF
<1> SUFFICES ASSUME NEW k, k = call[p].key, NEW a, a = call[p].agg
             PROVE  TimedInv'
  OBVIOUS
<1>1. /\ k \in Keys /\ a \in Aggregates /\ AppendLifecycle(k, "Reserved", a)
      /\ "Reserved" \in EventNames /\ UNCHANGED <<created, reaper>>
  BY CallTypes DEF ReserveAppend, EventNames
<1>2. Owner(k) = None /\ \A b \in Aggregates : ~Reserves(k, b)
  BY ReserveOnFreeKey
<1>3. /\ stream'[k] # << >>
      /\ stream'[k][Len(stream'[k])] = [name |-> "Reserved", agg |-> a, age |-> 0]
      /\ \A j \in Keys \ {k} : stream'[j] = stream[j]
  BY <1>1, AppendRaw
<1>4. /\ call'[p].pc = "execute" /\ call'[p].key = k /\ call'[p].agg = a
      /\ call'[p].elapsed = call[p].elapsed
      /\ \A q \in Calls \ {p} : call'[q] = call[q]
  BY CallTypes DEF ReserveAppend
<1>5. ASSUME NEW q \in Calls PROVE EndsInTime(q)' /\ HasClaim(q)'
  <2>1. call[q].elapsed \in 0..MaxCreate
    BY DEF SafeInv, TypeOK, CallStates
  <2>2. 0 + MaxCreate < ClaimTtl + call[q].elapsed
    BY <2>1, ReservationConstants
  <2>3. CASE q = p
    <3>1. call'[q].key = k /\ call'[q].agg = a /\ call'[q].elapsed = call[q].elapsed
      BY <1>4, <2>3
    <3>2. EndsInTime(q)'
      BY <1>3, <3>1, <2>2 DEF EndsInTime, Reserves, Top
    <3>3. HasClaim(q)'
      BY <1>3, <3>1 DEF HasClaim, Reserves, Top
    <3> QED
      BY <3>2, <3>3
  <2>4. CASE q # p /\ call[q].key = k
    <3>1. call'[q] = call[q] /\ HasClaim(q)
      BY <1>4, <2>4 DEF TimedInv, ExecutesOnClaim
    <3>2. EndsInTime(q)'
      BY <1>3, <2>2, <2>4, <3>1 DEF EndsInTime, Reserves, Top
    <3>3. call[q].pc = "execute" => call[q].agg \in Rejected \/ created[call[q].agg] # None
      <4>1. call[q].pc = "execute" => call[q].agg \in Aggregates
        BY CallTypes
      <4> QED
        BY <1>2, <2>4, <3>1, <4>1 DEF HasClaim
    <3>4. HasClaim(q)'
      BY <1>1, <3>1, <3>3 DEF HasClaim
    <3> QED
      BY <3>2, <3>4
  <2>5. CASE q # p /\ call[q].key # k
    <3>1. CASE call[q].pc = "idle"
      BY <1>4, <2>5, <3>1 DEF EndsInTime, HasClaim
    <3>2. CASE call[q].pc # "idle"
      <4>1. call[q].key \in Keys \ {k} /\ call'[q] = call[q]
        BY <1>4, <2>5, <3>2, CallTypes
      <4> QED
        BY <1>1, <1>3, <4>1, OtherKeysTimed
    <3> QED
      BY <3>1, <3>2
  <2> QED
    BY <2>3, <2>4, <2>5
<1>6. ReleaseIsSafe'
  BY <1>1, AppendDisarmsReaper
<1>7. RealizedClaimIsHeld'
  <2>1. \A b \in Aggregates : created[b] # k
    BY <1>1, <1>2, ReservationConstants DEF TimedInv, RealizedClaimIsHeld
  <2> QED
    BY <1>1, <2>1, AppendHeld
<1> QED
  BY <1>5, <1>6, <1>7 DEF TimedInv, Punctual, ExecutesOnClaim

(* An append on k that ends with no claim on k, when every call about to    *)
(* execute on k could append nothing.                                       *)
LEMMA EndClaimTimed ==
  ASSUME SafeInv, TimedInv, NEW k \in Keys, NEW a \in Aggregates,
         NEW name \in {"Released", "Consumed"}, AppendLifecycle(k, name, a),
         UNCHANGED created,
         NEW q \in Calls, call'[q] = call[q],
         call[q].pc = "execute" /\ call[q].key = k
           => call[q].agg \in Rejected \/ created[call[q].agg] # None
  PROVE  EndsInTime(q)' /\ HasClaim(q)'
PROOF
<1>1. /\ stream'[k] # << >>
      /\ stream'[k][Len(stream'[k])] = [name |-> name, agg |-> a, age |-> 0]
      /\ \A j \in Keys \ {k} : stream'[j] = stream[j]
  BY AppendRaw DEF EventNames
<1>2. CASE call[q].pc = "idle"
  BY <1>2 DEF EndsInTime, HasClaim
<1>3. CASE call[q].pc # "idle" /\ call[q].key = k
  <2>1. EndsInTime(q)'
    BY <1>1, <1>3 DEF EndsInTime, Reserves, Top
  <2>2. HasClaim(q)'
    BY <1>3 DEF HasClaim
  <2> QED
    BY <2>1, <2>2
<1>4. CASE call[q].pc # "idle" /\ call[q].key # k
  <2>1. call[q].key \in Keys \ {k}
    BY <1>4, CallTypes
  <2> QED
    BY <1>1, <2>1, OtherKeysTimed
<1> QED
  BY <1>2, <1>3, <1>4

(* Compensation releases the claim of an aggregate that was rejected. *)
LEMMA CompensateTimed ==
  ASSUME SafeInv, TimedInv, NEW p \in Calls, CompensateRelease(p),
         Version(call[p].key) = call[p].claim
  PROVE  TimedInv'
PROOF
<1> SUFFICES ASSUME NEW k, k = call[p].key, NEW a, a = call[p].agg
             PROVE  TimedInv'
  OBVIOUS
<1>1. /\ k \in Keys /\ a \in Aggregates /\ AppendLifecycle(k, "Released", a)
      /\ "Released" \in EventNames /\ UNCHANGED <<created, reaper>>
      /\ call[p].pc = "release" /\ EndCall(p)
  BY CallTypes DEF CompensateRelease, EventNames
<1>2. Owner(k) = a /\ a \in Rejected /\ created[a] = None
  BY <1>1, CompensateOwnClaim
<1>3. call'[p].pc = "idle" /\ \A q \in Calls \ {p} : call'[q] = call[q]
  BY <1>1, CallTypes DEF EndCall, IdleCall
<1>4. ASSUME NEW q \in Calls PROVE EndsInTime(q)' /\ HasClaim(q)'
  <2>1. CASE q = p
    BY <1>3, <2>1 DEF EndsInTime, HasClaim
  <2>2. CASE q # p
    <3>1. call'[q] = call[q] /\ HasClaim(q)
      BY <1>3, <2>2 DEF TimedInv, ExecutesOnClaim
    <3>2. \A b : Reserves(k, b) => b = a
      BY <1>2 DEF Owner, Reserves
    <3>3. call[q].pc = "execute" /\ call[q].key = k
            => call[q].agg \in Rejected \/ created[call[q].agg] # None
      BY <1>2, <3>1, <3>2 DEF HasClaim
    <3> QED
      BY <1>1, <3>1, <3>3, EndClaimTimed
  <2> QED
    BY <2>1, <2>2
<1>5. ReleaseIsSafe'
  BY <1>1, AppendDisarmsReaper
<1>6. RealizedClaimIsHeld'
  <2>1. \A b \in Aggregates : created[b] # k
    BY <1>1, <1>2, ReservationConstants DEF TimedInv, RealizedClaimIsHeld
  <2> QED
    BY <1>1, <2>1, AppendHeld
<1> QED
  BY <1>4, <1>5, <1>6 DEF TimedInv, Punctual, ExecutesOnClaim

(* The create happens on a claim that no reaper is about to release. *)
LEMMA CreateTimed ==
  ASSUME SafeInv, TimedInv, NEW p \in Calls, ExecuteCreate(p)
  PROVE  TimedInv'
PROOF
<1> SUFFICES ASSUME NEW k, k = call[p].key, NEW a, a = call[p].agg
             PROVE  TimedInv'
  OBVIOUS
<1>1. /\ k \in Keys /\ a \in Aggregates /\ UNCHANGED <<stream, reaper>>
      /\ call[p].pc = "execute" /\ created[a] = None /\ a \notin Rejected
      /\ created' = [created EXCEPT ![a] = k] /\ EndCall(p)
  BY CallTypes DEF ExecuteCreate
<1>2. /\ created'[a] = k
      /\ \A b \in Aggregates \ {a} : created'[b] = created[b]
  BY <1>1 DEF SafeInv, TypeOK
<1>3. call'[p].pc = "idle" /\ \A q \in Calls \ {p} : call'[q] = call[q]
  BY <1>1, CallTypes DEF EndCall, IdleCall
<1>4. Reserves(k, a)
  BY <1>1 DEF TimedInv, ExecutesOnClaim, HasClaim
<1>5. ASSUME NEW q \in Calls PROVE EndsInTime(q)' /\ HasClaim(q)'
  <2>1. CASE q = p
    BY <1>3, <2>1 DEF EndsInTime, HasClaim
  <2>2. CASE q # p
    <3>1. call'[q] = call[q] /\ HasClaim(q) /\ EndsInTime(q)
      BY <1>3, <2>2 DEF TimedInv, ExecutesOnClaim, Punctual
    <3>2. EndsInTime(q)'
      BY <1>1, <3>1 DEF EndsInTime, Reserves, Top
    <3>3. call[q].pc = "execute" => created'[call[q].agg] # None \/ created'[call[q].agg] = created[call[q].agg]
      <4>1. call[q].pc = "execute" => call[q].agg \in Aggregates
        BY CallTypes
      <4> QED
        BY <1>1, <1>2, <4>1, ReservationConstants
    <3>4. HasClaim(q)'
      BY <1>1, <3>1, <3>3 DEF HasClaim, Reserves, Top
    <3> QED
      BY <3>2, <3>4
  <2> QED
    BY <2>1, <2>2
<1>6. ReleaseIsSafe'
  <2> SUFFICES ASSUME reaper.pc = "release", Version(reaper.key) = reaper.version
               PROVE  created'[reaper.agg] # reaper.key
    BY <1>1 DEF ReleaseIsSafe, Version
  <2>1. /\ reaper.key \in Keys /\ reaper.agg \in Aggregates
        /\ Reserves(reaper.key, reaper.agg) /\ Top(reaper.key).age = ClaimTtl
    BY ReapsExpiredClaim
  <2>2. ASSUME reaper.agg = a PROVE reaper.key # k
    <3>1. Top(k).age + MaxCreate < ClaimTtl + call[p].elapsed
      BY <1>1, <1>4 DEF TimedInv, Punctual, EndsInTime
    <3>2. call[p].elapsed \in 0..MaxCreate
      BY CallTypes
    <3> QED
      BY <2>1, <3>1, <3>2, ReservationConstants
  <2>3. ASSUME reaper.agg # a PROVE created'[reaper.agg] # reaper.key
    <3>1. created'[reaper.agg] = created[reaper.agg]
      BY <1>2, <2>1, <2>3
    <3> QED
      BY <3>1 DEF TimedInv, ReleaseIsSafe
  <2> QED
    BY <1>2, <2>2, <2>3
<1>7. RealizedClaimIsHeld'
  <2> SUFFICES ASSUME NEW b \in Aggregates, created'[b] # None
               PROVE  Owner(created[b])' = b
    BY DEF RealizedClaimIsHeld
  <2>1. CASE b = a
    <3>1. Owner(k) = a
      BY <1>4 DEF Reserves, Owner
    <3> QED
      BY <1>1, <1>2, <2>1, <3>1 DEF Owner, Top
  <2>2. CASE b # a
    <3>1. created'[b] = created[b] /\ Owner(created[b]) = b
      BY <1>2, <2>2 DEF TimedInv, RealizedClaimIsHeld
    <3> QED
      BY <1>1, <3>1 DEF Owner, Top
  <2> QED
    BY <2>1, <2>2
<1> QED
  BY <1>5, <1>6, <1>7 DEF TimedInv, Punctual, ExecutesOnClaim

(* The reaper consumes realized claims and releases only claims no call     *)
(* will still realize.                                                      *)
LEMMA ReapAppendTimed ==
  ASSUME SafeInv, TimedInv, ReapRelease \/ ReapConsume,
         Version(reaper.key) = reaper.version
  PROVE  TimedInv'
PROOF
<1> SUFFICES ASSUME NEW k, k = reaper.key, NEW a, a = reaper.agg
             PROVE  TimedInv'
  OBVIOUS
<1>1. /\ k \in Keys /\ a \in Aggregates /\ Reserves(k, a) /\ Owner(k) = a
      /\ Top(k).age = ClaimTtl
  BY ReapsExpiredClaim DEF ReapRelease, ReapConsume
<1>2. PICK name \in {"Released", "Consumed"} :
        /\ ReapAppend(name)
        /\ name = "Consumed" => created[a] = k
        /\ name = "Released" => created[a] # k
  BY DEF ReapRelease, ReapConsume, SafeInv, ReaperClaims, TimedInv, ReleaseIsSafe
<1>3. AppendLifecycle(k, name, a) /\ UNCHANGED <<created, call>> /\ reaper'.pc = "next"
  BY <1>2 DEF ReapAppend, Disposed, IdleReaper
<1>4. ASSUME NEW q \in Calls PROVE EndsInTime(q)' /\ HasClaim(q)'
  <2>1. ASSUME call[q].pc = "execute", call[q].key = k
        PROVE  call[q].agg \in Rejected \/ created[call[q].agg] # None
    <3>1. \/ call[q].agg \in Rejected \/ created[call[q].agg] # None
          \/ Reserves(k, call[q].agg)
      BY <2>1 DEF TimedInv, ExecutesOnClaim, HasClaim
    <3>2. Reserves(k, call[q].agg)
            => Top(k).age + MaxCreate < ClaimTtl + call[q].elapsed
      BY <2>1 DEF TimedInv, Punctual, EndsInTime
    <3>3. call[q].elapsed \in 0..MaxCreate
      BY CallTypes
    <3> QED
      BY <1>1, <3>1, <3>2, <3>3, ReservationConstants
  <2> QED
    BY <1>1, <1>3, <2>1, EndClaimTimed
<1>5. RealizedClaimIsHeld'
  <2>1. \A b \in Aggregates : created[b] = k => b = a
    BY <1>1, ReservationConstants DEF TimedInv, RealizedClaimIsHeld
  <2>2. \A b \in Aggregates : created[b] = k => name # "Released" /\ a = b
    BY <1>2, <2>1
  <2> QED
    BY <1>1, <1>3, <2>2, AppendHeld DEF EventNames
<1> QED
  BY <1>3, <1>4, <1>5 DEF TimedInv, Punctual, ExecutesOnClaim, ReleaseIsSafe

LEMMA QuietReaperTimed ==
  ASSUME SafeInv, TimedInv,
         \/ StartPass \/ (\E c \in Candidates : ReapRead(c)) \/ ReapProbe
         \/ ReapFault \/ ReapCrash
         \/ ((ReapRelease \/ ReapConsume) /\ Version(reaper.key) # reaper.version)
  PROVE  TimedInv'
PROOF
<1>1. UNCHANGED <<stream, created, call>>
  BY DEF StartPass, ReapRead, ReapProbe, ReapFault, ReapCrash, ReapRelease,
     ReapConsume, ReapAppend
<1>2. reaper'.pc = "release" => created[reaper'.agg] # reaper'.key
  <2>1. CASE ReapProbe
    <3>1. reaper' = [reaper EXCEPT !.pc = IF created[reaper.agg] = reaper.key
                                          THEN "consume" ELSE "release"]
      BY <2>1 DEF ReapProbe
    <3>2. reaper'.agg = reaper.agg /\ reaper'.key = reaper.key
      BY <3>1, ReaperTypes DEF ReaperStates
    <3>3. reaper'.pc = "release" => created[reaper.agg] # reaper.key
      BY <3>1, ReaperTypes DEF ReaperStates
    <3> QED
      BY <3>2, <3>3
  <2>2. CASE \E c \in Candidates : ReapRead(c)
    <3>1. PICK c \in Candidates : ReapRead(c)
      BY <2>2
    <3>2. reaper'.pc \in {"probe", "next"}
      BY <3>1, ReaperTypes DEF ReapRead, ReaperStates
    <3> QED
      BY <3>2
  <2>3. CASE StartPass \/ ReapFault \/ ReapCrash \/ ReapRelease \/ ReapConsume
    <3>1. reaper'.pc = "next"
      BY <2>3 DEF StartPass, ReapFault, ReapCrash, ReapRelease, ReapConsume, ReapAppend,
         Disposed, IdleReaper
    <3> QED
      BY <3>1
  <2> QED
    BY <2>1, <2>2, <2>3
<1>3. ReleaseIsSafe'
  BY <1>1, <1>2 DEF ReleaseIsSafe
<1> QED
  BY <1>1, <1>3, QuietTimed

(* A tick ages a claim and every call that runs for it by the same amount. *)
LEMMA TickTimed ==
  ASSUME SafeInv, TimedInv, Tick
  PROVE  TimedInv'
PROOF
<1>1. \A k \in Keys :
        /\ Len(stream[k]) \in Nat /\ Len(stream'[k]) = Len(stream[k])
        /\ stream'[k] # << >> <=> stream[k] # << >>
        /\ stream[k] # << >> => Len(stream[k]) \in 1..Len(stream[k])
        /\ \A i \in 1..Len(stream[k]) : stream'[k][i] = Older(stream[k][i])
  <2>1. /\ stream' \in [Keys -> Seq(LifecycleEvents)]
        /\ \A k \in Keys :
             /\ Len(stream'[k]) = Len(stream[k])
             /\ \A i \in 1..Len(stream[k]) : stream'[k][i] = Older(stream[k][i])
    BY TickGrows DEF SafeInv
  <2>2. ASSUME NEW k \in Keys
        PROVE  /\ stream'[k] \in Seq(LifecycleEvents) /\ stream[k] \in Seq(LifecycleEvents)
               /\ Len(stream'[k]) = Len(stream[k]) /\ Len(stream[k]) \in Nat
    BY <2>1, EventTypes DEF SafeInv
  <2> QED
    BY <2>1, <2>2
<1>2. \A e \in LifecycleEvents : /\ Older(e).name = e.name /\ Older(e).agg = e.agg
                                /\ Older(e).age \in Nat /\ Older(e).age <= e.age + 1
  BY ReservationConstants DEF LifecycleEvents, Older
<1>3. ASSUME NEW k \in Keys, stream[k] # << >>
      PROVE  /\ stream'[k][Len(stream'[k])].name = stream[k][Len(stream[k])].name
             /\ stream'[k][Len(stream'[k])].agg = stream[k][Len(stream[k])].agg
             /\ stream[k][Len(stream[k])].age \in Nat
             /\ stream'[k][Len(stream'[k])].age \in Nat
             /\ stream'[k][Len(stream'[k])].age <= stream[k][Len(stream[k])].age + 1
  <2>1. stream[k][Len(stream[k])] \in LifecycleEvents
    BY <1>1, <1>3, EventTypes DEF SafeInv
  <2>2. stream'[k][Len(stream'[k])] = Older(stream[k][Len(stream[k])])
    BY <1>1, <1>3
  <2>3. stream[k][Len(stream[k])].age \in Nat
    BY <1>1, <1>3, EventTypes, ReservationConstants DEF SafeInv
  <2> QED
    BY <1>2, <2>1, <2>2, <2>3
<1>4. UNCHANGED <<created, reaper>>
  BY DEF Tick
<1>5. ASSUME NEW q \in Calls PROVE EndsInTime(q)' /\ HasClaim(q)'
  <2>1. call'[q] = IF call[q].pc = "idle" THEN call[q]
                   ELSE [call[q] EXCEPT !.elapsed = @ + 1]
    BY DEF Tick
  <2>2. CASE call[q].pc = "idle"
    BY <2>1, <2>2 DEF EndsInTime, HasClaim
  <2>3. CASE call[q].pc # "idle"
    <3>1. call[q] \in CallStates /\ call[q].key \in Keys /\ call[q].elapsed \in 0..MaxCreate
      BY <2>3, CallTypes DEF SafeInv, TypeOK
    <3>2. /\ call'[q].pc = call[q].pc /\ call'[q].key = call[q].key
          /\ call'[q].agg = call[q].agg /\ call'[q].elapsed = call[q].elapsed + 1
      BY <2>1, <2>3, <3>1 DEF CallStates
    <3>3. EndsInTime(q) /\ HasClaim(q)
      BY DEF TimedInv, Punctual, ExecutesOnClaim
    <3> SUFFICES ASSUME NEW k \in Keys, k = call[q].key
                 PROVE  EndsInTime(q)' /\ HasClaim(q)'
      BY <3>1
    <3>4. Reserves(call[q].key, call[q].agg)' <=> Reserves(k, call[q].agg)
      BY <1>1, <1>3, <3>2 DEF Reserves, Top
    <3>5. HasClaim(q)'
      BY <1>4, <3>2, <3>3, <3>4 DEF HasClaim
    <3>6. ASSUME Reserves(k, call[q].agg)
          PROVE  stream'[k][Len(stream'[k])].age + MaxCreate < ClaimTtl + (call[q].elapsed + 1)
      <4>1. stream[k][Len(stream[k])].age + MaxCreate < ClaimTtl + call[q].elapsed
        BY <2>3, <3>3, <3>6 DEF EndsInTime, Top
      <4>2. stream[k] # << >>
        BY <3>6 DEF Reserves
      <4>3. /\ stream[k][Len(stream[k])].age \in Nat
            /\ stream'[k][Len(stream'[k])].age \in Nat
            /\ stream'[k][Len(stream'[k])].age <= stream[k][Len(stream[k])].age + 1
        BY <1>3, <4>2
      <4>4. \A m, n, e \in Nat : n <= m + 1 /\ m + MaxCreate < ClaimTtl + e
                                 => n + MaxCreate < ClaimTtl + (e + 1)
        BY ReservationConstants
      <4>5. call[q].elapsed \in Nat
        BY <3>1, ReservationConstants
      <4> QED
        BY <4>1, <4>3, <4>4, <4>5
    <3>7. EndsInTime(q)'
      BY <3>2, <3>4, <3>6 DEF EndsInTime, Top
    <3> QED
      BY <3>5, <3>7
  <2> QED
    BY <2>2, <2>3
<1>6. ReleaseIsSafe'
  <2>1. reaper.pc = "release" => reaper.key \in Keys
    BY ReaperTypes
  <2> QED
    BY <1>1, <1>4, <2>1 DEF TimedInv, ReleaseIsSafe, Version
<1>7. RealizedClaimIsHeld'
  <2> SUFFICES ASSUME NEW b \in Aggregates, created[b] # None
               PROVE  Owner(created[b])' = b
    BY <1>4 DEF RealizedClaimIsHeld
  <2>1. created[b] \in Keys /\ Owner(created[b]) = b /\ b # None
    BY ReservationConstants DEF SafeInv, TypeOK, TimedInv, RealizedClaimIsHeld
  <2> QED
    BY <1>1, <1>3, <1>4, <2>1 DEF Owner, Top
<1> QED
  BY <1>5, <1>6, <1>7 DEF TimedInv, Punctual, ExecutesOnClaim

LEMMA TimedInvInit == Init => TimedInv
PROOF
<1> SUFFICES ASSUME Init PROVE TimedInv
  OBVIOUS
<1>1. Punctual /\ ExecutesOnClaim
  BY DEF Init, Punctual, ExecutesOnClaim, EndsInTime, HasClaim, IdleCall
<1>2. ReleaseIsSafe /\ RealizedClaimIsHeld
  BY DEF Init, ReleaseIsSafe, RealizedClaimIsHeld, IdleReaper
<1> QED
  BY <1>1, <1>2 DEF TimedInv

LEMMA TimedInvNext ==
  ASSUME LateRedrive = FALSE
  PROVE  SafeInv /\ TimedInv /\ [Next]_vars => TimedInv'
PROOF
<1> SUFFICES ASSUME SafeInv, TimedInv, [Next]_vars PROVE TimedInv'
  OBVIOUS
<1>1. ASSUME NEW p \in Calls, CallStep(p) \/ Abandon(p)
      PROVE  TimedInv'
  <2>1. CASE CompensateRelease(p)
    <3>1. CASE Version(call[p].key) = call[p].claim
      BY <2>1, <3>1, CompensateTimed
    <3>2. CASE Version(call[p].key) # call[p].claim
      <4>1. UNCHANGED stream
        BY <2>1, <3>2 DEF CompensateRelease
      <4> QED
        BY <2>1, <4>1, QuietCallTimed
    <3> QED
      BY <3>1, <3>2
  <2> QED
    BY <1>1, <2>1, QuietCallTimed, ReserveTimed, CreateTimed DEF CallStep
<1>2. ASSUME NEW p \in Calls, NEW k \in Keys, NEW a \in Aggregates, Start(p, k, a)
      PROVE  TimedInv'
  BY <1>2, QuietCallTimed
<1>3. CASE ReapStep \/ ReapFault \/ ReapCrash
  BY <1>3, QuietReaperTimed, ReapAppendTimed DEF ReapStep
<1>4. ASSUME UNCHANGED <<stream, created, call, reaper>>
      PROVE  TimedInv'
  BY <1>4, QuietReleaseIsSafe, QuietTimed
<1>5. ASSUME NEW k \in Keys, Project(k) \/ \E i \in 1..cursor[k] : Redeliver(k, i)
      PROVE  TimedInv'
  BY <1>4, <1>5 DEF Project, Redeliver
<1>6. CASE UNCHANGED vars
  BY <1>4, <1>6 DEF vars
<1> QED
  BY <1>1, <1>2, <1>3, <1>5, <1>6, TickTimed DEF Next

(* When calls end before the claims they use reach the TTL, neither the    *)
(* compensation nor the reaper ever releases the claim of an aggregate     *)
(* that was created.                                                       *)
THEOREM RealizedClaimsHeld ==
  ASSUME LateRedrive = FALSE
  PROVE  Spec => []RealizedClaimIsHeld
PROOF
<1>1. TimedInv => RealizedClaimIsHeld
  BY DEF TimedInv
<1>2. SafeInv /\ TimedInv /\ [Next]_vars => TimedInv'
  BY TimedInvNext
<1> QED
  BY <1>1, <1>2, SafeInvInit, SafeInvNext, TimedInvInit, PTL DEF Spec

(* ADR-036: no two aggregates are created with one key, for any number of  *)
(* keys, aggregates and concurrent calls, any TTL longer than a call, any  *)
(* retry budget and any crashes and redeliveries.                          *)
THEOREM Uniqueness ==
  ASSUME LateRedrive = FALSE
  PROVE  Spec => []UniqueKeys
PROOF
<1>1. RealizedClaimIsHeld => UniqueKeys
  BY DEF RealizedClaimIsHeld, UniqueKeys
<1> QED
  BY <1>1, RealizedClaimsHeld, PTL
-----------------------------------------------------------------------------
(* The claim projection.  RowMirrorsStream needs two facts to be inductive: *)
(* a stream begins with a claim, so the first event inserts the row, and    *)
(* the reserved_at of a row is that of an event already handled.            *)

FirstIsClaim == \A k \in Keys : Len(stream[k]) > 0 => stream[k][1].name = "Reserved"

(* What the row of k says of the first n events of its stream. *)
Mirrors(k, n) ==
  /\ row[k].version = n
  /\ n = 0 => row[k].state = "absent"
  /\ n > 0 =>
       /\ row[k].state = stream[k][n].name
       /\ row[k].agg = stream[k][n].agg
       /\ row[k].reserved \in 1..n
       /\ stream[k][row[k].reserved].name = "Reserved"
       /\ \A i \in row[k].reserved + 1 .. n : stream[k][i].name # "Reserved"

RowInv == FirstIsClaim /\ \A k \in Keys : Mirrors(k, cursor[k])

(* Streams that only grow keep what the rows say of the events handled. *)
LEMMA RowsKept ==
  ASSUME SafeInv, RowInv, Grows, FirstIsClaim', UNCHANGED <<row, cursor>>
  PROVE  RowInv'
PROOF
<1>1. ASSUME NEW k \in Keys PROVE Mirrors(k, cursor[k])'
  <2>1. /\ cursor[k] \in Nat /\ Len(stream[k]) \in Nat /\ cursor[k] <= Len(stream[k])
    BY EventTypes DEF SafeInv, TypeOK, CursorInStream, Version
  <2>2. \A i \in 1..cursor[k] : /\ stream'[k][i].name = stream[k][i].name
                                /\ stream'[k][i].agg = stream[k][i].agg
    BY <2>1 DEF Grows
  <2>3. CASE cursor[k] = 0
    BY <2>3 DEF RowInv, Mirrors
  <2>4. CASE cursor[k] > 0
    <3>1. Mirrors(k, cursor[k])
      BY DEF RowInv
    <3>2. row[k].reserved \in 1..cursor[k] /\ cursor[k] \in 1..cursor[k]
      BY <2>1, <2>4, <3>1 DEF Mirrors
    <3>3. \A i \in row[k].reserved + 1 .. cursor[k] : i \in 1..cursor[k]
      BY <2>1, <3>2
    <3> QED
      BY <2>2, <2>4, <3>1, <3>2, <3>3 DEF Mirrors
  <2> QED
    BY <2>1, <2>3, <2>4
<1> QED
  BY <1>1 DEF RowInv

(* Only a claim is ever the first event of a stream. *)
LEMMA AppendFirst ==
  ASSUME SafeInv, FirstIsClaim, NEW k \in Keys, NEW a \in Aggregates,
         NEW name \in EventNames, AppendLifecycle(k, name, a),
         name = "Reserved" \/ Len(stream[k]) > 0
  PROVE  Grows /\ FirstIsClaim'
PROOF
<1>1. /\ Grows
      /\ Len(stream'[k]) = Len(stream[k]) + 1
      /\ stream'[k][Len(stream[k]) + 1] = [name |-> name, agg |-> a, age |-> 0]
      /\ \A i \in 1..Len(stream[k]) : stream'[k][i] = stream[k][i]
      /\ \A j \in Keys \ {k} : stream'[j] = stream[j]
  BY AppendGrows DEF SafeInv
<1>2. Len(stream[k]) \in Nat
  BY EventTypes DEF SafeInv
<1>3. stream'[k][1].name = "Reserved"
  <2>1. CASE Len(stream[k]) = 0
    <3>1. stream'[k][1] = [name |-> name, agg |-> a, age |-> 0]
      BY <1>1, <2>1
    <3> QED
      BY <2>1, <3>1
  <2>2. CASE Len(stream[k]) > 0
    BY <1>1, <1>2, <2>2 DEF FirstIsClaim
  <2> QED
    BY <1>2, <2>1, <2>2
<1> QED
  BY <1>1, <1>3 DEF FirstIsClaim

(* The next event of k is handled: it is newer than the row. *)
LEMMA ProjectRow ==
  ASSUME SafeInv, RowInv, NEW k \in Keys, Project(k)
  PROVE  RowInv'
PROOF
<1> DEFINE n == cursor[k] + 1
           e == stream[k][n]
<1>1. /\ cursor[k] \in Nat /\ Len(stream[k]) \in Nat /\ n \in 1..Len(stream[k])
      /\ cursor \in [Keys -> Nat] /\ row \in [Keys -> Rows]
      /\ UNCHANGED stream
  BY EventTypes DEF SafeInv, TypeOK, Project, Version
<1>2. /\ row'[k] = Projected(k, n) /\ cursor'[k] = n
      /\ \A j \in Keys \ {k} : row'[j] = row[j] /\ cursor'[j] = cursor[j]
  BY <1>1 DEF Project
<1>3. Mirrors(k, cursor[k]) /\ FirstIsClaim
  BY DEF RowInv
<1>4. row[k].version < n
  BY <1>1, <1>3 DEF Mirrors
<1>5. row[k].state # "absent" \/ e.name = "Reserved"
  <2>1. CASE cursor[k] = 0
    BY <1>1, <1>3, <2>1 DEF FirstIsClaim
  <2>2. CASE cursor[k] > 0
    <3>1. row[k].state = stream[k][cursor[k]].name
      BY <1>3, <2>2 DEF Mirrors
    <3>2. stream[k][cursor[k]].name \in EventNames
      BY <1>1, <2>2, EventTypes DEF SafeInv
    <3> QED
      BY <3>1, <3>2 DEF EventNames
  <2> QED
    BY <1>1, <2>1, <2>2
<1>6. row'[k] = [state |-> e.name, agg |-> e.agg, version |-> n,
                 reserved |-> IF e.name = "Reserved" THEN n ELSE row[k].reserved]
  BY <1>2, <1>4, <1>5 DEF Projected
<1>7. Mirrors(k, cursor[k])'
  <2>1. CASE e.name = "Reserved"
    <3>1. row'[k].reserved = n
      BY <1>6, <2>1
    <3> QED
      BY <1>1, <1>2, <1>6, <2>1, <3>1 DEF Mirrors
  <2>2. CASE e.name # "Reserved"
    <3>1. cursor[k] > 0 /\ row'[k].reserved = row[k].reserved
      BY <1>1, <1>3, <1>5, <1>6, <2>2 DEF Mirrors
    <3>2. \A i \in row[k].reserved + 1 .. n : i \in row[k].reserved + 1 .. cursor[k] \/ i = n
      BY <1>1, <1>3, <3>1 DEF Mirrors
    <3> QED
      BY <1>1, <1>2, <1>3, <1>6, <2>2, <3>1, <3>2 DEF Mirrors
  <2> QED
    BY <2>1, <2>2
<1>8. ASSUME NEW j \in Keys \ {k} PROVE Mirrors(j, cursor[j])'
  BY <1>1, <1>2 DEF RowInv, Mirrors
<1> QED
  BY <1>1, <1>7, <1>8 DEF RowInv, FirstIsClaim

(* An event that is delivered again is not newer than the row. *)
LEMMA RedeliverRow ==
  ASSUME SafeInv, RowInv, NEW k \in Keys, NEW i \in 1..cursor[k], Redeliver(k, i)
  PROVE  RowInv'
PROOF
<1>1. /\ cursor[k] \in Nat /\ row \in [Keys -> Rows] /\ UNCHANGED <<stream, cursor>>
      /\ row' = [row EXCEPT ![k] = Projected(k, i)]
  BY DEF SafeInv, TypeOK, Redeliver
<1>2. Projected(k, i) = row[k]
  BY <1>1 DEF RowInv, Mirrors, Projected
<1>3. row' = row
  BY <1>1, <1>2
<1> QED
  BY <1>1, <1>3 DEF RowInv, Mirrors, FirstIsClaim

LEMMA RowInvInit == Init => RowInv
PROOF
<1> SUFFICES ASSUME Init PROVE RowInv
  OBVIOUS
<1>1. FirstIsClaim
  BY DEF Init, FirstIsClaim
<1>2. ASSUME NEW k \in Keys PROVE Mirrors(k, cursor[k])
  <2>1. cursor[k] = 0 /\ row[k] = AbsentRow
    BY DEF Init
  <2>2. row[k].version = 0 /\ row[k].state = "absent"
    BY <2>1 DEF AbsentRow
  <2> QED
    BY <2>1, <2>2 DEF Mirrors
<1> QED
  BY <1>1, <1>2 DEF RowInv

LEMMA RowInvNext == SafeInv /\ RowInv /\ [Next]_vars => RowInv'
PROOF
<1> SUFFICES ASSUME SafeInv, RowInv, [Next]_vars PROVE RowInv'
  OBVIOUS
<1>1. ASSUME UNCHANGED <<stream, row, cursor>>
      PROVE  RowInv'
  BY <1>1 DEF RowInv, Mirrors, FirstIsClaim
<1>2. ASSUME NEW k \in Keys, NEW a \in Aggregates, NEW name \in EventNames,
             AppendLifecycle(k, name, a), UNCHANGED <<row, cursor>>,
             name = "Reserved" \/ Len(stream[k]) > 0
      PROVE  RowInv'
  BY <1>2, AppendFirst, RowsKept DEF RowInv
<1>3. ASSUME NEW p \in Calls, CallStep(p)
      PROVE  RowInv'
  <2>1. CASE ReserveAppend(p)
    BY <1>2, <2>1, CallTypes DEF ReserveAppend, EventNames
  <2>2. CASE CompensateRelease(p)
    <3>1. CASE Version(call[p].key) = call[p].claim
      <4>1. Len(stream[call[p].key]) > 0
        <5>1. call[p].claim \in 1..Version(call[p].key) /\ Version(call[p].key) \in Nat
          BY <2>2, CallTypes DEF SafeInv, CallClaims, CallClaim, CompensateRelease
        <5> QED
          BY <5>1 DEF Version
      <4> QED
        BY <1>2, <2>2, <3>1, <4>1, CallTypes DEF CompensateRelease, EventNames
    <3>2. CASE Version(call[p].key) # call[p].claim
      BY <1>1, <2>2, <3>2 DEF CompensateRelease
    <3> QED
      BY <3>1, <3>2
  <2> QED
    BY <1>1, <1>3, <2>1, <2>2 DEF CallStep, ReserveWrongVersion, ClassifyOwn,
       ClassifyReleased, ClassifyTaken, ExecuteCreate, ExecuteWrongVersion, ExecuteRejected
<1>4. CASE ReapRelease \/ ReapConsume
  <2>1. CASE Version(reaper.key) = reaper.version
    <3>1. reaper.pc # "next"
      BY <1>4 DEF ReapRelease, ReapConsume
    <3>2. /\ reaper.key \in Keys /\ reaper.agg \in Aggregates
          /\ Len(stream[reaper.key]) > 0
      <4>1. reaper.version \in 1..Version(reaper.key) /\ reaper.key \in Keys
        BY <3>1 DEF SafeInv, ReaperClaims
      <4>2. Version(reaper.key) \in Nat
        BY <4>1, EventTypes DEF SafeInv, Version
      <4> QED
        BY <3>1, <4>1, <4>2 DEF SafeInv, ReaperClaims, Version
    <3> QED
      BY <1>2, <1>4, <2>1, <3>2 DEF ReapRelease, ReapConsume, ReapAppend, EventNames
  <2>2. CASE Version(reaper.key) # reaper.version
    BY <1>1, <1>4, <2>2 DEF ReapRelease, ReapConsume, ReapAppend
  <2> QED
    BY <2>1, <2>2
<1>5. CASE Tick
  <2>1. /\ Grows
        /\ \A k \in Keys : Len(stream'[k]) = Len(stream[k])
    BY <1>5, TickGrows DEF SafeInv
  <2>2. FirstIsClaim'
    <3> SUFFICES ASSUME NEW k \in Keys, Len(stream'[k]) > 0
                 PROVE  stream'[k][1].name = "Reserved"
      BY DEF FirstIsClaim
    <3>1. Len(stream[k]) \in Nat
      BY EventTypes DEF SafeInv
    <3> QED
      BY <2>1, <3>1 DEF Grows, RowInv, FirstIsClaim
  <2> QED
    BY <1>5, <2>1, <2>2, RowsKept DEF Tick
<1>6. CASE UNCHANGED vars
  BY <1>1, <1>6 DEF vars
<1>7. ASSUME NEW p \in Calls,
             Abandon(p) \/ \E k \in Keys, a \in Aggregates : Start(p, k, a)
      PROVE  RowInv'
  BY <1>1, <1>7 DEF Abandon, Start
<1>8. CASE \/ StartPass \/ ReapProbe \/ ReapFault \/ ReapCrash
           \/ \E c \in Candidates : ReapRead(c)
  BY <1>1, <1>8 DEF StartPass, ReapProbe, ReapFault, ReapCrash, ReapRead
<1> QED
  BY <1>3, <1>4, <1>5, <1>6, <1>7, <1>8, ProjectRow, RedeliverRow DEF Next, ReapStep

(* The claim projection is the stream up to its checkpoint, however late   *)
(* the projector runs and whatever is delivered again: the reaper's        *)
(* candidates come from rows that were true of their streams.              *)
THEOREM RowsMirrorStreams == Spec => []RowMirrorsStream
PROOF
<1>1. RowInv => RowMirrorsStream
  BY DEF RowInv, Mirrors, RowMirrorsStream
<1> QED
  BY <1>1, SafeInvInit, SafeInvNext, RowInvInit, RowInvNext, PTL DEF Spec
-----------------------------------------------------------------------------
(* The streams implement the registry.  Under the mapping owner[k] =        *)
(* Owner(k), a claim acquires, a create creates, a release gives up, and    *)
(* everything else (reads, retries, the projector, consumption, time) is a  *)
(* step the registry does not see.                                          *)

(* A step that keeps every owner and every create event. *)
LEMMA RegistryStutters ==
  ASSUME UNCHANGED created, \A k \in Keys : Owner(k)' = Owner(k)
  PROVE  [Registry!Next]_(Registry!registryVars)
PROOF
<1>1. [k \in Keys |-> Owner(k)]' = [k \in Keys |-> Owner(k)]
  OBVIOUS
<1> QED
  BY <1>1 DEF Registry!registryVars

(* The owners after an append. *)
LEMMA AppendOwners ==
  ASSUME SafeInv, NEW k \in Keys, NEW a \in Aggregates, NEW name \in EventNames,
         AppendLifecycle(k, name, a)
  PROVE  [j \in Keys |-> Owner(j)]'
           = [[j \in Keys |-> Owner(j)] EXCEPT ![k] = IF name = "Released" THEN None ELSE a]
PROOF
<1>1. /\ Owner(k)' = IF name = "Released" THEN None ELSE a
      /\ \A j \in Keys \ {k} : Owner(j)' = Owner(j)
  BY AppendTop
<1> QED
  BY <1>1

(* The claim is on top of a stream that was empty or ended in a release. *)
LEMMA ReserveAcquires ==
  ASSUME SafeInv, NEW p \in Calls, ReserveAppend(p)
  PROVE  Registry!Next
PROOF
<1>1. /\ call[p].key \in Keys /\ call[p].agg \in Aggregates
      /\ AppendLifecycle(call[p].key, "Reserved", call[p].agg)
      /\ UNCHANGED created
  BY CallTypes DEF ReserveAppend
<1>2. Owner(call[p].key) = None
  BY ReserveOnFreeKey
<1>3. [j \in Keys |-> Owner(j)]'
        = [[j \in Keys |-> Owner(j)] EXCEPT ![call[p].key] = call[p].agg]
  BY <1>1, AppendOwners DEF EventNames
<1>4. Registry!Acquire(call[p].key, call[p].agg)
  BY <1>1, <1>2, <1>3 DEF Registry!Acquire
<1> QED
  BY <1>1, <1>4 DEF Registry!Next

(* A create event is appended only on a claim that still holds its key. *)
LEMMA ExecuteCreates ==
  ASSUME SafeInv, TimedInv, NEW p \in Calls, ExecuteCreate(p)
  PROVE  Registry!Next
PROOF
<1>1. /\ call[p].key \in Keys /\ call[p].agg \in Aggregates
      /\ created[call[p].agg] = None /\ call[p].agg \notin Rejected
      /\ created' = [created EXCEPT ![call[p].agg] = call[p].key]
      /\ UNCHANGED stream
  BY CallTypes DEF ExecuteCreate
<1>2. Owner(call[p].key) = call[p].agg
  <2>1. Reserves(call[p].key, call[p].agg)
    BY <1>1 DEF ExecuteCreate, TimedInv, ExecutesOnClaim, HasClaim
  <2> QED
    BY <2>1 DEF Reserves, Owner
<1>3. [j \in Keys |-> Owner(j)]' = [j \in Keys |-> Owner(j)]
  BY <1>1 DEF Owner, Top
<1>4. Registry!Create(call[p].key, call[p].agg)
  BY <1>1, <1>2, <1>3 DEF Registry!Create
<1> QED
  BY <1>1, <1>4 DEF Registry!Next

(* A release, by compensation or by the reaper, gives up a key that its    *)
(* owner was not created with.                                             *)
LEMMA ReleaseGivesUp ==
  ASSUME SafeInv, NEW k \in Keys, NEW a \in Aggregates, Owner(k) = a,
         created[a] # k, AppendLifecycle(k, "Released", a), UNCHANGED created
  PROVE  Registry!Next
PROOF
<1>1. [j \in Keys |-> Owner(j)]' = [[j \in Keys |-> Owner(j)] EXCEPT ![k] = None]
  BY AppendOwners DEF EventNames
<1>2. Owner(k) # None
  BY ReservationConstants
<1>3. Registry!GiveUp(k)
  BY <1>1, <1>2 DEF Registry!GiveUp
<1> QED
  BY <1>3 DEF Registry!Next

LEMMA TickKeepsOwners ==
  ASSUME SafeInv, Tick
  PROVE  \A k \in Keys : Owner(k)' = Owner(k)
PROOF
<1> SUFFICES ASSUME NEW k \in Keys PROVE Owner(k)' = Owner(k)
  OBVIOUS
<1>1. /\ stream'[k] \in Seq(LifecycleEvents) /\ stream[k] \in Seq(LifecycleEvents)
      /\ Grows /\ Len(stream'[k]) = Len(stream[k])
  BY TickGrows, EventTypes DEF SafeInv
<1>2. /\ stream'[k] # << >> <=> stream[k] # << >>
      /\ stream[k] # << >> => Len(stream[k]) \in 1..Len(stream[k])
  BY <1>1
<1>3. ASSUME stream[k] # << >>
      PROVE  /\ stream'[k][Len(stream'[k])].name = stream[k][Len(stream[k])].name
             /\ stream'[k][Len(stream'[k])].agg = stream[k][Len(stream[k])].agg
  BY <1>1, <1>2, <1>3 DEF Grows
<1> QED
  BY <1>2, <1>3 DEF Owner, Top

LEMMA RegistryStep ==
  ASSUME SafeInv, TimedInv, [Next]_vars
  PROVE  [Registry!Next]_(Registry!registryVars)
PROOF
<1>1. ASSUME UNCHANGED <<stream, created>>
      PROVE  [Registry!Next]_(Registry!registryVars)
  <2>1. \A k \in Keys : Owner(k)' = Owner(k)
    BY <1>1 DEF Owner, Top
  <2> QED
    BY <1>1, <2>1, RegistryStutters
<1>2. ASSUME NEW p \in Calls, CallStep(p)
      PROVE  [Registry!Next]_(Registry!registryVars)
  <2>1. CASE ReserveAppend(p)
    BY <2>1, ReserveAcquires
  <2>2. CASE ExecuteCreate(p)
    BY <2>2, ExecuteCreates
  <2>3. CASE CompensateRelease(p)
    <3>1. CASE Version(call[p].key) = call[p].claim
      <4>1. /\ call[p].pc = "release" /\ UNCHANGED created
            /\ AppendLifecycle(call[p].key, "Released", call[p].agg)
        BY <2>3, <3>1 DEF CompensateRelease
      <4>2. /\ call[p].key \in Keys /\ call[p].agg \in Aggregates
            /\ Owner(call[p].key) = call[p].agg
            /\ created[call[p].agg] = None
        BY <3>1, <4>1, CallTypes, CompensateOwnClaim
      <4>3. created[call[p].agg] # call[p].key
        BY <4>2, ReservationConstants
      <4> QED
        BY <4>1, <4>2, <4>3, ReleaseGivesUp
    <3>2. CASE Version(call[p].key) # call[p].claim
      BY <1>1, <2>3, <3>2 DEF CompensateRelease
    <3> QED
      BY <3>1, <3>2
  <2> QED
    BY <1>1, <1>2, <2>1, <2>2, <2>3 DEF CallStep, ReserveWrongVersion, ClassifyOwn,
       ClassifyReleased, ClassifyTaken, ExecuteWrongVersion, ExecuteRejected
<1>3. CASE ReapRelease \/ ReapConsume
  <2>1. CASE Version(reaper.key) = reaper.version
    <3>1. /\ reaper.key \in Keys /\ reaper.agg \in Aggregates
          /\ Owner(reaper.key) = reaper.agg
      BY <1>3, <2>1, ReapsExpiredClaim DEF ReapRelease, ReapConsume
    <3>2. CASE ReapRelease
      <4>1. created[reaper.agg] # reaper.key
        BY <2>1, <3>2 DEF TimedInv, ReleaseIsSafe, ReapRelease
      <4>2. AppendLifecycle(reaper.key, "Released", reaper.agg) /\ UNCHANGED created
        BY <2>1, <3>2 DEF ReapRelease, ReapAppend
      <4> QED
        BY <3>1, <4>1, <4>2, ReleaseGivesUp
    <3>3. CASE ReapConsume
      <4>1. AppendLifecycle(reaper.key, "Consumed", reaper.agg) /\ UNCHANGED created
        BY <2>1, <3>3 DEF ReapConsume, ReapAppend
      <4>2. \A j \in Keys : Owner(j)' = Owner(j)
        BY <3>1, <4>1, AppendTop DEF EventNames
      <4> QED
        BY <4>1, <4>2, RegistryStutters
    <3> QED
      BY <1>3, <3>2, <3>3
  <2>2. CASE Version(reaper.key) # reaper.version
    BY <1>1, <1>3, <2>2 DEF ReapRelease, ReapConsume, ReapAppend
  <2> QED
    BY <2>1, <2>2
<1>4. CASE Tick
  BY <1>4, TickKeepsOwners, RegistryStutters DEF Tick
<1>5. CASE UNCHANGED vars
  BY <1>1, <1>5 DEF vars
<1>6. ASSUME NEW p \in Calls,
             Abandon(p) \/ \E k \in Keys, a \in Aggregates : Start(p, k, a)
      PROVE  [Registry!Next]_(Registry!registryVars)
  BY <1>1, <1>6 DEF Abandon, Start
<1>7. CASE \/ StartPass \/ ReapProbe \/ ReapFault \/ ReapCrash
           \/ \E c \in Candidates : ReapRead(c)
           \/ \E k \in Keys : Project(k) \/ \E i \in 1..cursor[k] : Redeliver(k, i)
  BY <1>1, <1>7 DEF StartPass, ReapProbe, ReapFault, ReapCrash, ReapRead, Project, Redeliver
<1> QED
  BY <1>2, <1>3, <1>4, <1>5, <1>6, <1>7 DEF Next, ReapStep

(* The reservation streams, with their retries, clocks, crashes, lagging   *)
(* projector and reaper, behave as a registry in which a key has one owner *)
(* and is never taken from the aggregate created with it.                  *)
THEOREM StreamsImplementRegistry ==
  ASSUME LateRedrive = FALSE
  PROVE  Spec => ImplementsRegistry
PROOF
<1>1. Init => Registry!Init
  BY DEF Init, Registry!Init, Owner
<1>2. SafeInv /\ TimedInv /\ [Next]_vars => TimedInv'
  BY TimedInvNext
<1>3. SafeInv /\ TimedInv /\ [Next]_vars => [Registry!Next]_(Registry!registryVars)
  BY RegistryStep
<1> QED
  BY <1>1, <1>2, <1>3, SafeInvInit, SafeInvNext, TimedInvInit, PTL
     DEF Spec, ImplementsRegistry, Registry!Spec
=============================================================================
