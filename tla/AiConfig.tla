------------------------------ MODULE AiConfig ------------------------------
(***************************************************************************)
(* AI configurations: aggregate, adapter, projector and handlers.          *)
(*                                                                         *)
(* A body is the input of a request: provider, key (the vault key), model  *)
(* (assistant model, image model and prompts as one value, "blank" when one *)
(* is blank), cost (the display preference) and the three decision fields     *)
(* dprovider, dmodel and dkey.  "keep" stands for a field an update leaves *)
(* out, "none" for null.                                                   *)
(***************************************************************************)
EXTENDS Aggregate

CONSTANTS
  Bodies,           \* the bodies of creates and updates
  Capable,          \* decision-capable providers
  Curated           \* pairs of a provider and a curated decision model

Fields == {"provider", "key", "model", "cost", "dprovider", "dmodel", "dkey"}

Unset == [f \in Fields |-> IF f \in {"key", "model"} THEN "blank" ELSE "none"]

States == [config : [Fields -> {b[f] : b \in Bodies \cup {Unset}, f \in Fields}],
           revoked : BOOLEAN, version : Nat]

Blank == [config |-> Unset, revoked |-> FALSE, version |-> 0]

(* The event of an update carries the merged decision fields; a cost        *)
(* preference left out keeps the old one.                                   *)
Merge(old, new) == [f \in Fields |-> IF new[f] = "keep" THEN old[f] ELSE new[f]]

Apply(s, e) ==
  CASE e.type = "Created" -> [config |-> e.arg, revoked |-> FALSE, version |-> e.version]
    [] e.type = "Updated" -> [config |-> Merge(s.config, e.arg), revoked |-> FALSE,
                              version |-> e.version]
    [] e.type = "Revoked" -> [s EXCEPT !.revoked = TRUE, !.version = e.version]

ValidFields(b) == b.model # "blank" /\ b.key # "blank"

ValidDecision(b, unchanged) ==
  \/ b.dprovider = "none" /\ b.dmodel = "none" /\ b.dkey = "none"
  \/ /\ b.dprovider \in Capable
     /\ b.dmodel \notin {"none", "blank"}
     /\ unchanged \/ <<b.dprovider, b.dmodel>> \in Curated
     /\ b.dkey \notin {"none", "blank"}

CreateAiConfig(s, c) ==
  Given(ValidFields(c.arg) /\ ValidDecision(c.arg, FALSE), Created("Created", c.arg))

DecisionFields == {"dprovider", "dmodel", "dkey"}

UpdateAiConfig(s, c) ==
  LET b == [f \in Fields |-> IF f \in DecisionFields THEN Merge(s.config, c.arg)[f] ELSE c.arg[f]]
      unchanged == b.dprovider = s.config.dprovider /\ b.dmodel = s.config.dmodel
  IN  Given(/\ s.config.provider # "none" /\ ~s.revoked
            /\ c.arg.provider = s.config.provider \/ c.arg.key # s.config.key
            /\ c.version = s.version
            /\ ValidFields(c.arg) /\ ValidDecision(b, unchanged),
            Emit(s, "Updated", b))

RevokeAiConfig(s, c) ==
  Given(s.config.provider # "none" /\ ~s.revoked /\ c.version = s.version,
        Emit(s, "Revoked", "none"))

Handle(s, c) ==
  CASE c.type = "CreateAiConfig" -> CreateAiConfig(s, c)
    [] c.type = "UpdateAiConfig" -> UpdateAiConfig(s, c)
    [] c.type = "RevokeAiConfig" -> RevokeAiConfig(s, c)

Expected(c, n) == IF c.type = "CreateAiConfig" THEN ExpectEmpty(n) ELSE ExpectExact(c, n)

NoOpAnswers == {}

NoRow == [present |-> FALSE, config |-> Unset, revoked |-> FALSE, version |-> 0]

ProjectCreated(r, e) ==
  IF r.present THEN IfNewer(r, e, [r EXCEPT !.config = e.arg, !.revoked = FALSE])
  ELSE [present |-> TRUE, config |-> e.arg, revoked |-> FALSE, version |-> e.version]

(* COALESCE of the cost preference *)
ProjectUpdated(r, e) ==
  IfNewer(r, e, [r EXCEPT !.config = Merge(@, e.arg), !.revoked = FALSE])

Project(r, e) ==
  CASE e.type = "Created" -> ProjectCreated(r, e)
    [] e.type = "Updated" -> ProjectUpdated(r, e)
    [] e.type = "Revoked" -> IfNewer(r, e, [r EXCEPT !.revoked = TRUE])

View(s) ==
  IF s.version = 0 THEN NoRow
  ELSE [present |-> TRUE, config |-> s.config, revoked |-> s.revoked, version |-> s.version]

(* Whether the keys are the caller's active credentials is the business of  *)
(* the settings rows; here the answer is either.                            *)
(* A decision key shared with the extraction key goes with one provider. *)
SharedKeyAgrees(b) ==
  b.dkey # "none" /\ b.dprovider # "none" /\ b.dkey = b.key => b.dprovider = b.provider

CreateRequests ==
  {Cmd("CreateAiConfig", 0, b) :
     b \in {x \in Bodies : SharedKeyAgrees(x) /\ \A f \in Fields : x[f] # "keep"}}

(* Asked again only when the update changes a provider or a key. *)
BindingChanged(r, b) ==
  \E f \in {"provider", "key", "dprovider", "dkey"} : Merge(r.config, b)[f] # r.config[f]

UpdateRequests(r, v) ==
  Found(r, {Cmd("UpdateAiConfig", v, b) :
              b \in {x \in Bodies : BindingChanged(r, x) => SharedKeyAgrees(Merge(r.config, x))}})

RevokeRequests(r, v) == Found(r, {Cmd("RevokeAiConfig", v, "none")})

Requests(r, v) == CreateRequests \cup UpdateRequests(r, v) \cup RevokeRequests(r, v)

Deletions == {}
=============================================================================
