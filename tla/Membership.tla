----------------------------- MODULE Membership -----------------------------
(***************************************************************************)
(* The members of a block: aggregate, adapter, projector, the role queries *)
(* and the handlers with the gates that ask them.  A member is             *)
(* [state, role]; commands carry no version.  The argument of a command    *)
(* and of an event names the user who sent it, its metadata.               *)
(***************************************************************************)
EXTENDS Aggregate

CONSTANTS
  Users,
  Roles,      \* with "ops_admin" and "costume_assistant" among them
  OpsAdmins   \* the users configured as operators

Absent == [state |-> "absent", role |-> "none"]

Members == [state : {"pending", "active"}, role : Roles] \cup {Absent}

States == [Users -> Members]

Blank == [u \in Users |-> Absent]

Apply(s, e) ==
  LET u == e.arg.user
  IN CASE e.type = "MemberInvited"      -> [s EXCEPT ![u] = [state |-> "pending", role |-> e.arg.role]]
       [] e.type \in {"InvitationAccepted", "OwnerBootstrapped"} ->
            [s EXCEPT ![u] = [state |-> "active", role |-> e.arg.role]]
       [] e.type = "RoleGranted"        ->
            IF s[u].state = "active" THEN [s EXCEPT ![u].role = e.arg.role] ELSE s
       [] e.type = "MemberRemoved"      -> [s EXCEPT ![u] = Absent]

One(type, arg) == Accept(<<Event(type, arg, 0)>>)

InviteMember(s, c) == Given(s[c.arg.user] = Absent, One("MemberInvited", c.arg))

AcceptInvitation(s, c) ==
  Given(s[c.arg.user].state = "pending",
        One("InvitationAccepted", [c.arg EXCEPT !.role = s[c.arg.user].role]))

GrantRole(s, c) == Given(s[c.arg.user].state = "active", One("RoleGranted", c.arg))

RemoveMember(s, c) == Given(s[c.arg.user].state = "active", One("MemberRemoved", c.arg))

(* The user is the actor of the metadata. *)
LeaveBlock(s, c) == Given(s[c.arg.by].state = "active", One("MemberRemoved", c.arg))

BootstrapOwner(s, c) ==
  Given(\A u \in Users : s[u] = Absent, One("OwnerBootstrapped", c.arg))

Handle(s, c) ==
  CASE c.type = "InviteMember"     -> InviteMember(s, c)
    [] c.type = "AcceptInvitation" -> AcceptInvitation(s, c)
    [] c.type = "GrantRole"        -> GrantRole(s, c)
    [] c.type = "RemoveMember"     -> RemoveMember(s, c)
    [] c.type = "LeaveBlock"       -> LeaveBlock(s, c)
    [] c.type = "BootstrapOwner"   -> BootstrapOwner(s, c)

Expected(c, n) == ExpectAny(n)

NoOpAnswers == {}

NoRow == Blank

(* Invitations and owners are upserts; an update of a missing row is none. *)
Project(r, e) ==
  LET u == e.arg.user
      row == [state |-> IF e.type = "MemberInvited" THEN "pending" ELSE "active",
              role |-> e.arg.role]
  IN CASE e.type \in {"MemberInvited", "OwnerBootstrapped"} -> [r EXCEPT ![u] = row]
       [] e.type = "InvitationAccepted" -> IF r[u] = Absent THEN r ELSE [r EXCEPT ![u] = row]
       [] e.type = "RoleGranted"   -> IF r[u] = Absent THEN r ELSE [r EXCEPT ![u].role = e.arg.role]
       [] e.type = "MemberRemoved" -> [r EXCEPT ![u] = Absent]

View(s) == s

-----------------------------------------------------------------------------
(* Queries *)

CostumeRoles == {"costume_designer", "wardrobe_supervisor", "costume_assistant"}

IsActiveMember(r, u) == r[u].state = "active"

HasActiveOpsRole(r, u) == r[u] = [state |-> "active", role |-> "ops_admin"]

AuthorizeOps(r, u) == u \in OpsAdmins \/ HasActiveOpsRole(r, u)

-----------------------------------------------------------------------------
(* Handlers.  authorize_middleware lets active members of the block pass,   *)
(* and anyone who accepts an invitation or creates a block.                 *)

Send(type, u, role, by) == Cmd(type, 0, [user |-> u, role |-> role, by |-> by])

Callers(r) == {u \in Users : IsActiveMember(r, u)}

InviteRequests(r) ==
  {c \in {Send("InviteMember", u, role, by) : u \in Users, role \in Roles, by \in Callers(r)} :
     c.arg.role = "ops_admin" => AuthorizeOps(r, c.arg.by)}

AcceptRequests == {Send("AcceptInvitation", u, "none", u) : u \in Users}

(* The target's present role is read from its row. *)
GrantRequests(r) ==
  {c \in {Send("GrantRole", u, role, by) : u \in Users, role \in Roles, by \in Callers(r)} :
     "ops_admin" \in {c.arg.role, r[c.arg.user].role} => AuthorizeOps(r, c.arg.by)}

RemoveRequests(r) ==
  {c \in {Send("RemoveMember", u, "none", by) : u \in Users, by \in Callers(r)} :
     r[c.arg.user].role = "ops_admin" => AuthorizeOps(r, c.arg.by)}

LeaveRequests(r) == {Send("LeaveBlock", u, "none", u) : u \in Callers(r)}

(* create_block bootstraps its owner. *)
BootstrapRequests == {Send("BootstrapOwner", u, "costume_assistant", u) : u \in Users}

Requests(r, v) ==
  InviteRequests(r) \cup AcceptRequests \cup GrantRequests(r) \cup RemoveRequests(r)
  \cup LeaveRequests(r) \cup BootstrapRequests

Deletions == {}
=============================================================================
