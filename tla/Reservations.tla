---------------------------- MODULE Reservations ----------------------------
(***************************************************************************)
(* Cross-aggregate uniqueness by reservation streams (ADR-036).            *)
(*                                                                         *)
(* A create command (season, block or episode number, scene-shoot pair)    *)
(* first claims its key on the key's own event stream and then appends the *)
(* aggregate's create event to another stream.  The two appends are not    *)
(* atomic: a call may end between them, and the reaper resolves the claims *)
(* that such calls leave behind.                                           *)
(*                                                                         *)
(* A stream is the sequence of its lifecycle events; a stream version is   *)
(* modelled by the number of events up to it, so that the store's          *)
(* ExpectedVersion::Empty is 0 and Exact(v) is v + 1.  Clock time is       *)
(* modelled by ages: an event's age counts the ticks since it was          *)
(* appended, up to ClaimTtl, which is all the reaper's TTL test looks at.  *)
(***************************************************************************)
EXTENDS Integers, Sequences

CONSTANTS
  Keys,          \* reservation keys
  Aggregates,    \* aggregate ids
  Calls,         \* concurrent create calls of the command adapters
  None,
  RetryBudget,   \* RESERVE_RETRY_BUDGET
  ClaimTtl,      \* claim_ttl_secs, in ticks
  MaxCreate,     \* ticks within which a create call, or its append, has ended
  MaxStarts,     \* bound: create calls ever started
  MaxFaults,     \* bound: candidates the reaper fails on
  Rejected,      \* aggregates whose create command the aggregate rejects
  LateRedrive    \* may a call start for a claim of its own that nears the TTL?

ASSUME ReservationConstants ==
  /\ None \notin Aggregates /\ None \notin Keys
  /\ RetryBudget \in Nat /\ MaxStarts \in Nat /\ MaxFaults \in Nat
  /\ ClaimTtl \in Nat /\ MaxCreate \in Nat /\ MaxCreate < ClaimTtl
  /\ Rejected \subseteq Aggregates
  /\ LateRedrive \in BOOLEAN

VARIABLES
  stream,    \* stream[k]: the lifecycle events of key k
  created,   \* created[a]: the key in a's create event, None if a has no stream
  call,      \* call[p]: the local state of create call p
  starts,    \* number of calls started
  row,       \* row[k]: projection_number_reservation
  cursor,    \* cursor[k]: events of k the projector has committed
  reaper,    \* the reaper's local state
  faults     \* number of candidates the reaper has failed on

vars == <<stream, created, call, starts, row, cursor, reaper, faults>>

-----------------------------------------------------------------------------
(* Streams *)

EventNames == {"Reserved", "Released", "Consumed"}

LifecycleEvents == [name : EventNames, agg : Aggregates, age : 0..ClaimTtl]

Version(k) == Len(stream[k])

Top(k) == stream[k][Len(stream[k])]

(* The aggregate whose claim tops the stream of k. *)
Owner(k) == IF stream[k] # << >> /\ Top(k).name # "Released" THEN Top(k).agg
            ELSE None

(* Is the top of k a claim of a that the reaper has not marked consumed? *)
Reserves(k, a) == /\ stream[k] # << >>
                  /\ Top(k).name = "Reserved"
                  /\ Top(k).agg = a

(* The append when the expected version matches. *)
AppendLifecycle(k, name, a) ==
  stream' = [stream EXCEPT ![k] = Append(@, [name |-> name, agg |-> a, age |-> 0])]

-----------------------------------------------------------------------------
(* The create call: reserve, execute, compensate *)

CallSteps == {"idle", "reserve", "classify", "execute", "release"}

CallStates == [pc : CallSteps, key : Keys \cup {None}, agg : Aggregates \cup {None},
               expected : Nat, tries : 0..RetryBudget, claim : Nat,
               elapsed : 0..MaxCreate]

IdleCall == [pc |-> "idle", key |-> None, agg |-> None, expected |-> 0,
             tries |-> 0, claim |-> 0, elapsed |-> 0]

EndCall(p) == call' = [call EXCEPT ![p] = IdleCall]

(* The environment's side of the TTL argument: unless LateRedrive, a call   *)
(* for an aggregate that already claims the key starts early enough to end  *)
(* before the claim reaches the TTL.                                        *)
RedriveInTime(k, a) ==
  ~LateRedrive /\ Reserves(k, a) => Top(k).age + MaxCreate < ClaimTtl

Start(p, k, a) ==
  /\ call[p].pc = "idle"
  /\ starts < MaxStarts
  /\ RedriveInTime(k, a)
  /\ call' = [call EXCEPT ![p] = [IdleCall EXCEPT !.pc = "reserve", !.key = k, !.agg = a]]
  /\ starts' = starts + 1
  /\ UNCHANGED <<stream, created, row, cursor, reaper, faults>>

(* Mutant: the append does not name an expected version. *)
ReserveAppendAnyVersion(p) ==
  /\ call[p].pc = "reserve"
  /\ AppendLifecycle(call[p].key, "Reserved", call[p].agg)
  /\ call' = [call EXCEPT ![p].pc = "execute", ![p].claim = Version(call[p].key) + 1]
  /\ UNCHANGED <<created, starts, row, cursor, reaper, faults>>

(* reserve: the append of ReservationReserved at the expected version. *)
ReserveAppend(p) ==
  /\ call[p].pc = "reserve"
  /\ Version(call[p].key) = call[p].expected
  /\ AppendLifecycle(call[p].key, "Reserved", call[p].agg)
  /\ call' = [call EXCEPT ![p].pc = "execute", ![p].claim = call[p].expected + 1]
  /\ UNCHANGED <<created, starts, row, cursor, reaper, faults>>

ReserveWrongVersion(p) ==
  /\ call[p].pc = "reserve"
  /\ Version(call[p].key) # call[p].expected
  /\ call' = [call EXCEPT ![p].pc = "classify"]
  /\ UNCHANGED <<stream, created, starts, row, cursor, reaper, faults>>

(* claim_obstacle, OwnedBySelf: the top is this aggregate's own claim. *)
ClassifyOwn(p) ==
  /\ call[p].pc = "classify"
  /\ Owner(call[p].key) = call[p].agg
  /\ call' = [call EXCEPT ![p].pc = "execute", ![p].claim = Version(call[p].key)]
  /\ UNCHANGED <<stream, created, starts, row, cursor, reaper, faults>>

(* Mutant: a consumed stream is taken for a released one. *)
ClassifyReleasedOrConsumed(p) ==
  /\ call[p].pc = "classify"
  /\ Top(call[p].key).name # "Reserved"
  /\ IF call[p].tries < RetryBudget
     THEN call' = [call EXCEPT ![p].pc = "reserve", ![p].tries = @ + 1,
                               ![p].expected = Version(call[p].key)]
     ELSE EndCall(p)
  /\ UNCHANGED <<stream, created, starts, row, cursor, reaper, faults>>

(* Claimable: the top is a release; append again at its version while the  *)
(* retry budget lasts.                                                     *)
ClassifyReleased(p) ==
  /\ call[p].pc = "classify"
  /\ Owner(call[p].key) = None
  /\ IF call[p].tries < RetryBudget
     THEN call' = [call EXCEPT ![p].pc = "reserve", ![p].tries = @ + 1,
                               ![p].expected = Version(call[p].key)]
     ELSE EndCall(p)
  /\ UNCHANGED <<stream, created, starts, row, cursor, reaper, faults>>

(* Permanent: another aggregate holds or consumed the key, 409. *)
ClassifyTaken(p) ==
  /\ call[p].pc = "classify"
  /\ Owner(call[p].key) \notin {None, call[p].agg}
  /\ EndCall(p)
  /\ UNCHANGED <<stream, created, starts, row, cursor, reaper, faults>>

(* The aggregate's create, with ExpectedVersion::Empty. *)
ExecuteCreate(p) ==
  /\ call[p].pc = "execute"
  /\ created[call[p].agg] = None
  /\ call[p].agg \notin Rejected
  /\ created' = [created EXCEPT ![call[p].agg] = call[p].key]
  /\ EndCall(p)
  /\ UNCHANGED <<stream, starts, row, cursor, reaper, faults>>

(* Mutant: every failed create releases its claim. *)
ExecuteWrongVersionReleases(p) ==
  /\ call[p].pc = "execute"
  /\ created[call[p].agg] # None
  /\ call' = [call EXCEPT ![p].pc = "release"]
  /\ UNCHANGED <<stream, created, starts, row, cursor, reaper, faults>>

(* IncorrectExpectedVersion: the claim stays, the reaper resolves it. *)
ExecuteWrongVersion(p) ==
  /\ call[p].pc = "execute"
  /\ created[call[p].agg] # None
  /\ EndCall(p)
  /\ UNCHANGED <<stream, created, starts, row, cursor, reaper, faults>>

(* ExecuteError::Handle: nothing was appended, compensate. *)
ExecuteRejected(p) ==
  /\ call[p].pc = "execute"
  /\ created[call[p].agg] = None
  /\ call[p].agg \in Rejected
  /\ call' = [call EXCEPT ![p].pc = "release"]
  /\ UNCHANGED <<stream, created, starts, row, cursor, reaper, faults>>

(* The compensating release, at the version of the claim; a lost race is   *)
(* no error.                                                               *)
CompensateRelease(p) ==
  /\ call[p].pc = "release"
  /\ IF Version(call[p].key) = call[p].claim
     THEN AppendLifecycle(call[p].key, "Released", call[p].agg)
     ELSE UNCHANGED stream
  /\ EndCall(p)
  /\ UNCHANGED <<created, starts, row, cursor, reaper, faults>>

(* The call ends early: a crash, a cancelled request, or an error of the   *)
(* store.  An append whose answer is lost is the append followed by this.  *)
Abandon(p) ==
  /\ call[p].pc # "idle"
  /\ EndCall(p)
  /\ UNCHANGED <<stream, created, starts, row, cursor, reaper, faults>>

CallStep(p) == \/ ReserveAppend(p) \/ ReserveWrongVersion(p)
               \/ ClassifyOwn(p) \/ ClassifyReleased(p) \/ ClassifyTaken(p)
               \/ ExecuteCreate(p) \/ ExecuteWrongVersion(p) \/ ExecuteRejected(p)
               \/ CompensateRelease(p)

-----------------------------------------------------------------------------
(* The claim projector *)

(* version: the last event applied; reserved: the Reserved event whose      *)
(* timestamp is reserved_at.                                                *)
Rows == [state : {"absent", "Reserved", "Released", "Consumed"},
         agg : Aggregates \cup {None}, version : Nat, reserved : Nat]

AbsentRow == [state |-> "absent", agg |-> None, version |-> 0, reserved |-> 0]

(* Mutant: no version guard. *)
ProjectedUnguarded(k, i) ==
  LET e == stream[k][i]
      r == row[k]
  IN IF r.state # "absent" \/ e.name = "Reserved"
     THEN [state |-> e.name, agg |-> e.agg, version |-> i,
           reserved |-> IF e.name = "Reserved" THEN i ELSE r.reserved]
     ELSE r

(* The row after event i of key k is handled: the version guard ignores an *)
(* event that is not newer than the row, and only a Reserved event inserts.*)
Projected(k, i) ==
  LET e == stream[k][i]
      r == row[k]
  IN IF r.version < i /\ (r.state # "absent" \/ e.name = "Reserved")
     THEN [state |-> e.name, agg |-> e.agg, version |-> i,
           reserved |-> IF e.name = "Reserved" THEN i ELSE r.reserved]
     ELSE r

(* The next event of k is handled and the checkpoint moves past it. *)
Project(k) ==
  /\ cursor[k] < Version(k)
  /\ row' = [row EXCEPT ![k] = Projected(k, cursor[k] + 1)]
  /\ cursor' = [cursor EXCEPT ![k] = @ + 1]
  /\ UNCHANGED <<stream, created, call, starts, reaper, faults>>

(* An event that was handled before is delivered again. *)
Redeliver(k, i) ==
  /\ i <= cursor[k]
  /\ row' = [row EXCEPT ![k] = Projected(k, i)]
  /\ UNCHANGED <<stream, created, call, starts, cursor, reaper, faults>>

-----------------------------------------------------------------------------
(* The reaper *)

ReaperSteps == {"next", "probe", "release", "consume"}

Candidates == [key : Keys, agg : Aggregates]

(* todo: the candidates of the running pass; version: the stream version    *)
(* read for the candidate in hand.                                          *)
ReaperStates == [pc : ReaperSteps, todo : SUBSET Candidates,
                 key : Keys \cup {None}, agg : Aggregates \cup {None}, version : Nat]

IdleReaper == [pc |-> "next", todo |-> {}, key |-> None, agg |-> None, version |-> 0]

(* The rows a pass selects: reserved, and reserved_at older than the TTL. *)
ExpiredRows ==
  {c \in Candidates : /\ row[c.key].state = "Reserved"
                      /\ row[c.key].agg = c.agg
                      /\ stream[c.key][row[c.key].reserved].age = ClaimTtl}

(* A pass begins: the advisory lock is free, the candidates are selected. *)
StartPass ==
  /\ reaper = IdleReaper
  /\ ExpiredRows # {}
  /\ reaper' = [IdleReaper EXCEPT !.todo = ExpiredRows]
  /\ UNCHANGED <<stream, created, call, starts, row, cursor, faults>>

(* The candidate in hand is resolved, or given up for this pass. *)
Disposed == reaper' = [IdleReaper EXCEPT !.todo = reaper.todo]

(* Mutant: the TTL is not checked again on the stream's own timestamp. *)
ReapReadTrustsRow(c) ==
  /\ reaper.pc = "next"
  /\ c \in reaper.todo
  /\ reaper' = IF Reserves(c.key, c.agg)
               THEN [pc |-> "probe", todo |-> reaper.todo \ {c}, key |-> c.key,
                     agg |-> c.agg, version |-> Version(c.key)]
               ELSE [reaper EXCEPT !.todo = @ \ {c}]
  /\ UNCHANGED <<stream, created, call, starts, row, cursor, faults>>

(* reap_claim: the authoritative read of the reservation stream. *)
ReapRead(c) ==
  /\ reaper.pc = "next"
  /\ c \in reaper.todo
  /\ reaper' = IF Reserves(c.key, c.agg) /\ Top(c.key).age = ClaimTtl
               THEN [pc |-> "probe", todo |-> reaper.todo \ {c}, key |-> c.key,
                     agg |-> c.agg, version |-> Version(c.key)]
               ELSE [reaper EXCEPT !.todo = @ \ {c}]
  /\ UNCHANGED <<stream, created, call, starts, row, cursor, faults>>

(* Mutant: a claim its aggregate did not realize is skipped. *)
ReapProbeSkipsPhantom ==
  /\ reaper.pc = "probe"
  /\ IF created[reaper.agg] \in {None, reaper.key}
     THEN reaper' = [reaper EXCEPT !.pc = IF created[reaper.agg] = reaper.key
                                          THEN "consume" ELSE "release"]
     ELSE Disposed
  /\ UNCHANGED <<stream, created, call, starts, row, cursor, faults>>

(* The probe of the aggregate stream, and the key in its first event. *)
ReapProbe ==
  /\ reaper.pc = "probe"
  /\ reaper' = [reaper EXCEPT !.pc = IF created[reaper.agg] = reaper.key
                                     THEN "consume" ELSE "release"]
  /\ UNCHANGED <<stream, created, call, starts, row, cursor, faults>>

(* The release or the consume, at the version that was read. *)
ReapAppend(name) ==
  /\ IF Version(reaper.key) = reaper.version
     THEN AppendLifecycle(reaper.key, name, reaper.agg)
     ELSE UNCHANGED stream
  /\ Disposed
  /\ UNCHANGED <<created, call, starts, row, cursor, faults>>

ReapRelease == reaper.pc = "release" /\ ReapAppend("Released")

ReapConsume == reaper.pc = "consume" /\ ReapAppend("Consumed")

(* One candidate fails; the pass goes on with the others. *)
ReapFault ==
  /\ reaper.pc # "next"
  /\ faults < MaxFaults
  /\ faults' = faults + 1
  /\ Disposed
  /\ UNCHANGED <<stream, created, call, starts, row, cursor>>

(* The process dies in the middle of a pass; the session's lock is freed. *)
ReapCrash ==
  /\ reaper # IdleReaper
  /\ faults < MaxFaults
  /\ faults' = faults + 1
  /\ reaper' = IdleReaper
  /\ UNCHANGED <<stream, created, call, starts, row, cursor>>

ReapStep == \/ StartPass
            \/ \E c \in Candidates : ReapRead(c)
            \/ ReapProbe \/ ReapRelease \/ ReapConsume

-----------------------------------------------------------------------------
(* Time *)

(* Mutant: a claim is expired only when it is exactly as old as the TTL. *)
OlderThanTtl(e) == [e EXCEPT !.age = @ + 1]

(* Ages count up to the TTL: a claim that old is not too young any more. *)
Older(e) == [e EXCEPT !.age = IF @ < ClaimTtl THEN @ + 1 ELSE @]

(* MaxCreate is a bound on the calls: time passes only while every running *)
(* call is still below it.                                                 *)
Tick ==
  /\ \A p \in Calls : call[p].pc # "idle" => call[p].elapsed < MaxCreate
  /\ stream' = [k \in Keys |-> [i \in DOMAIN stream[k] |-> Older(stream[k][i])]]
  /\ call' = [p \in Calls |-> IF call[p].pc = "idle" THEN call[p]
                              ELSE [call[p] EXCEPT !.elapsed = @ + 1]]
  /\ UNCHANGED <<created, starts, row, cursor, reaper, faults>>

-----------------------------------------------------------------------------
Init ==
  /\ stream = [k \in Keys |-> << >>]
  /\ created = [a \in Aggregates |-> None]
  /\ call = [p \in Calls |-> IdleCall]
  /\ starts = 0
  /\ row = [k \in Keys |-> AbsentRow]
  /\ cursor = [k \in Keys |-> 0]
  /\ reaper = IdleReaper
  /\ faults = 0

Next ==
  \/ \E p \in Calls, k \in Keys, a \in Aggregates : Start(p, k, a)
  \/ \E p \in Calls : CallStep(p) \/ Abandon(p)
  \/ \E k \in Keys : Project(k) \/ \E i \in 1..cursor[k] : Redeliver(k, i)
  \/ ReapStep \/ ReapFault \/ ReapCrash
  \/ Tick

Spec == Init /\ [][Next]_vars

(* A started call runs to its end; the projector and the reaper loop are   *)
(* spawned at start-up and never stop; time passes.                        *)
Fairness ==
  /\ \A p \in Calls : WF_vars(CallStep(p))
  /\ \A k \in Keys : WF_vars(Project(k))
  /\ WF_vars(ReapStep)
  /\ WF_vars(Tick)

FairSpec == Spec /\ Fairness

-----------------------------------------------------------------------------
(* Properties *)

(* The variables have their types: the stores, the local state of create   *)
(* calls and the reaper, and the claim projection.                         *)
TypeOK ==
  /\ stream \in [Keys -> Seq(LifecycleEvents)]
  /\ created \in [Aggregates -> Keys \cup {None}]
  /\ call \in [Calls -> CallStates]
  /\ starts \in 0..MaxStarts
  /\ row \in [Keys -> Rows]
  /\ cursor \in [Keys -> Nat]
  /\ reaper \in ReaperStates
  /\ faults \in 0..MaxFaults

(* ADR-036's promise: no two aggregates are ever created with one key (the *)
(* number of a season, block or episode, or a scene-shoot pair), whatever  *)
(* the interleaving of calls, crashes, projector lag and reaper passes.    *)
UniqueKeys ==
  \A a, b \in Aggregates : created[a] = created[b] /\ created[a] # None => a = b

(* The claim of an aggregate that was created with a key still tops the    *)
(* key's stream: neither compensation nor the reaper has released it.      *)
RealizedClaimIsHeld ==
  \A a \in Aggregates : created[a] # None => Owner(created[a]) = a

(* A consumed claim is the end of its stream: no later reserve, release or *)
(* consume is appended to it, re-drives and concurrent passes included.    *)
ConsumedIsFinal ==
  [][\A k \in Keys : stream[k] # << >> /\ Top(k).name = "Consumed"
                       => Version(k)' = Version(k)]_vars

(* The reservation streams implement the abstract registry. *)
Registry == INSTANCE KeyRegistry WITH owner <- [k \in Keys |-> Owner(k)]

ImplementsRegistry == Registry!Spec

(* The claim projection mirrors the stream up to its checkpoint, whatever  *)
(* is redelivered: the row is what the last committed event says, and      *)
(* reserved_at is that of the latest claim up to there.                    *)
RowMirrorsStream ==
  \A k \in Keys :
    LET r == row[k] IN
    /\ r.version = cursor[k]
    /\ cursor[k] > 0 =>
         /\ r.state = stream[k][cursor[k]].name
         /\ r.agg = stream[k][cursor[k]].agg
         /\ stream[k][r.reserved].name = "Reserved"
         /\ \A i \in r.reserved + 1 .. cursor[k] : stream[k][i].name # "Reserved"

(* No claim blocks its key for ever undecided: whoever left a claim behind,*)
(* it ends consumed or released (compensation or reaper).                  *)
ClaimsAreResolved ==
  \A k \in Keys, a \in Aggregates : Reserves(k, a) ~> ~Reserves(k, a)
=============================================================================
