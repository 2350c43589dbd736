------------------------------ MODULE Settings ------------------------------
(***************************************************************************)
(* Credential bindings: aggregate, adapter and projector, and the commands *)
(* of the handlers.  What the handlers do with the secrets is not          *)
(* modelled.  A binding is [provider, key]; key stands for the vault key   *)
(* and its version.                                                        *)
(***************************************************************************)
EXTENDS Aggregate

CONSTANTS Providers, Keys

Bindings == [provider : Providers \cup {"blank"}, key : Keys]

NoBinding == [provider |-> "blank", key |-> "none"]

States == [binding : Bindings \cup {NoBinding}, state : {"none", "active", "revoked"},
           version : Nat]

Blank == [binding |-> NoBinding, state |-> "none", version |-> 0]

Apply(s, e) ==
  CASE e.type \in {"CredentialBound", "CredentialRotated"} ->
         [binding |-> e.arg, state |-> "active", version |-> e.version]
    [] e.type = "CredentialRevoked" -> [s EXCEPT !.state = "revoked", !.version = e.version]

CreateCredentialBinding(s, c) ==
  Given(c.arg.provider # "blank", Created("CredentialBound", c.arg))

RotateCredentialBinding(s, c) ==
  Given(/\ s.state = "active"
        /\ c.arg.provider # "blank" /\ c.arg.provider = s.binding.provider
        /\ c.version = s.version,
        Emit(s, "CredentialRotated", c.arg))

RevokeCredential(s, c) ==
  Given(s.state = "active" /\ c.version = s.version, Emit(s, "CredentialRevoked", "none"))

Handle(s, c) ==
  CASE c.type = "CreateCredentialBinding" -> CreateCredentialBinding(s, c)
    [] c.type = "RotateCredentialBinding" -> RotateCredentialBinding(s, c)
    [] c.type = "RevokeCredential"        -> RevokeCredential(s, c)

Expected(c, n) ==
  IF c.type = "CreateCredentialBinding" THEN ExpectEmpty(n) ELSE ExpectExact(c, n)

NoOpAnswers == {}

NoRow == [present |-> FALSE, binding |-> NoBinding, state |-> "none", version |-> 0]

Project(r, e) ==
  CASE e.type = "CredentialBound"   ->
         IF r.present THEN IfNewer(r, e, [r EXCEPT !.binding = e.arg, !.state = "active"])
         ELSE [present |-> TRUE, binding |-> e.arg, state |-> "active", version |-> e.version]
    [] e.type = "CredentialRotated" -> IfNewer(r, e, [r EXCEPT !.binding = e.arg, !.state = "active"])
    [] e.type = "CredentialRevoked" -> IfNewer(r, e, [r EXCEPT !.state = "revoked"])

View(s) ==
  IF s.version = 0 THEN NoRow
  ELSE [present |-> TRUE, binding |-> s.binding, state |-> s.state, version |-> s.version]

BindRequests == {Cmd("CreateCredentialBinding", 0, b) : b \in Bindings}

(* rotate_gdrive_credential asks the row first whether it may be rotated. *)
RotateRequests(r, v) ==
  IF r.state = "revoked" THEN {}
  ELSE Found(r, {Cmd("RotateCredentialBinding", v, b) : b \in Bindings})

RevokeRequests(r, v) == Found(r, {Cmd("RevokeCredential", v, "none")})

Requests(r, v) == BindRequests \cup RotateRequests(r, v) \cup RevokeRequests(r, v)

Deletions == {}
=============================================================================
