---------------------------- MODULE KeyRegistry ----------------------------
(***************************************************************************)
(* What the reservation streams of ADR-036 promise to the rest of the      *)
(* backend, without streams, versions, retries, clocks or the reaper: a    *)
(* registry in which a key has at most one owner, only the owner of a key  *)
(* is created with it, and a key that some aggregate was created with is   *)
(* never given up.  Reservations.tla is shown to implement this module.    *)
(***************************************************************************)
CONSTANTS Keys, Aggregates, None

VARIABLES owner,    \* owner[k]: the aggregate that holds key k, or None
          created   \* created[a]: the key aggregate a was created with, or None

registryVars == <<owner, created>>

Init == /\ owner = [k \in Keys |-> None]
        /\ created = [a \in Aggregates |-> None]

(* A free key is given to an aggregate. *)
Acquire(k, a) == /\ owner[k] = None
                 /\ owner' = [owner EXCEPT ![k] = a]
                 /\ UNCHANGED created

(* The owner of a key, not created yet, is created with it. *)
Create(k, a) == /\ owner[k] = a
                /\ created[a] = None
                /\ created' = [created EXCEPT ![a] = k]
                /\ UNCHANGED owner

(* A key is given up by an owner that was not created with it. *)
GiveUp(k) == /\ owner[k] # None
             /\ created[owner[k]] # k
             /\ owner' = [owner EXCEPT ![k] = None]
             /\ UNCHANGED created

Next == \/ \E k \in Keys, a \in Aggregates : Acquire(k, a) \/ Create(k, a)
        \/ \E k \in Keys : GiveUp(k)

Spec == Init /\ [][Next]_registryVars
=============================================================================
