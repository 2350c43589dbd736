---------------------------- MODULE MCCatalogue ----------------------------
(* Small catalogues. *)
EXTENDS Catalogue, TLC

MCBodies ==
  LET base == [provider |-> "p", key |-> "k1", model |-> "m", cost |-> "USD",
               dprovider |-> "none", dmodel |-> "none", dkey |-> "none"]
      scored == [base EXCEPT !.dprovider = "p", !.dmodel = "d", !.dkey = "k1"]
  IN  {base, scored,
       [base EXCEPT !.model = "blank"],
       [scored EXCEPT !.dmodel = "old"],
       [base EXCEPT !.provider = "q", !.key = "k2", !.cost = "keep"],
       [scored EXCEPT !.cost = "keep", !.dprovider = "keep", !.dmodel = "keep", !.dkey = "keep"],
       [scored EXCEPT !.dkey = "k2"]}

MCCurated == {<<"p", "d">>}

MCLength == [k \in EntityKinds |->
  CASE k \in {"scene", "season", "episode", "day"} -> 5
    [] k \in {"block", "settings", "membership"} -> 4
    [] OTHER -> 3]

MCSteps == [k \in EntityKinds |-> IF k = "scene" THEN 5 ELSE MCLength[k] + 1]

Symmetry == Permutations(Texts) \cup Permutations(Pieces)
=============================================================================
