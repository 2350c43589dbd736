----------------------------- MODULE Aggregate -----------------------------
(***************************************************************************)
(* What the event-sourced aggregates, their command adapters and their     *)
(* projectors have in common.                                              *)
(*                                                                         *)
(* A command is [type, version, arg] and an event [type, arg, version]; a  *)
(* command is decided by the aggregate's state alone, into a rejection or  *)
(* a sequence of events.  Names, notes and other payloads are members of   *)
(* small sets.  Versions of the domain count from 1; a stream of n events  *)
(* has stream version n - 1.                                               *)
(***************************************************************************)
EXTENDS Naturals, Sequences

Reject == [ok |-> FALSE, events |-> << >>]

Accept(events) == [ok |-> TRUE, events |-> events]

NoOp == Accept(<< >>)

Event(type, arg, version) == [type |-> type, arg |-> arg, version |-> version]

Emit(s, type, arg) == Accept(<<Event(type, arg, s.version + 1)>>)

Created(type, arg) == Accept(<<Event(type, arg, 1)>>)

Given(guard, decision) == IF guard THEN decision ELSE Reject

(* The two checks most commands begin with. *)
Fresh(s, c) == ~s.deleted /\ c.version = s.version

(* Deleting is idempotent and asks for no version. *)
Delete(s, type) == IF s.deleted THEN NoOp ELSE Given(s.created, Emit(s, type, "none"))

-----------------------------------------------------------------------------
(* Adapters: the expected version the command service is given for a       *)
(* stream of n events.                                                     *)

ExpectAny(n) == TRUE

ExpectEmpty(n) == n = 0

(* check_nonzero_version and domain_to_stream_checked *)
ExpectExact(c, n) == c.version # 0 /\ n > 0 /\ c.version - 1 = n - 1

(* Mutant: the stream version is taken for one that counts from 0. *)
AnsweredTwiceShifted(n, events) == n + Len(events) + 1

(* map_executed_result: the domain version of the last event. *)
Answered(n, events) == n + Len(events)

-----------------------------------------------------------------------------
(* Projectors: a statement on a row, conditional or not on its version *)

Touch(r, e) == [r EXCEPT !.version = e.version]

Newer(r, e) == r.present /\ r.version < e.version

(* UPDATE ... WHERE id = $1 AND version < $v *)
IfNewer(r, e, s) == IF Newer(r, e) THEN Touch(s, e) ELSE r

(* touch_parent of the guarded projectors: the children change anyway. *)
TouchIfNewer(r, e, s) == IF Newer(r, e) THEN Touch(s, e) ELSE s

(* UPDATE ... WHERE id = $1 *)
IfPresent(r, e, s) == IF r.present THEN Touch(s, e) ELSE r

(* A request for a row the read model does not have is a 404. *)
Found(r, commands) == IF r.present THEN commands ELSE {}

Cmd(type, version, arg) == [type |-> type, version |-> version, arg |-> arg]
=============================================================================
