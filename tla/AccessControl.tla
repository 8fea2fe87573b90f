--------------------------- MODULE AccessControl ---------------------------
(***************************************************************************)
(* Who holds which role: UsersService and RolesService over the tables     *)
(* users, roles and user_roles, behind the guards of their routes.         *)
(*                                                                         *)
(* No handler opens a transaction: each awaited query is a step, and       *)
(* between two of them any other request may run.  A request is made by a  *)
(* user, and works with the roles JwtStrategy read for him at its start.   *)
(*                                                                         *)
(* Which permissions a role carries is left out, so whether the requester  *)
(* may use a route (PermissionsGuard) is a free choice.  Ids are UUIDs the *)
(* database makes up: a request names rows that exist, and an id that      *)
(* never existed is a query that fails.                                    *)
(***************************************************************************)
EXTENDS Naturals, FiniteSets

CONSTANTS
  Users, Roles,  \* the rows there may ever be
  Requests,      \* HTTP requests; each is served at most once
  Operations,    \* the operations that occur
  MaxRoleIds,    \* bound: how many ids dto.roleIds has
  InitialType,   \* type of the roles there are at first
  InitialRoles,  \* roles of the users there are at first
  NULL

(***************************************************************************)
(* A role type is its index in ROLE_HIERARCHY: the lower the index, the    *)
(* higher the rank.                                                        *)
(***************************************************************************)
Types == 0..3
SUPER_ADMIN == 0
NOTARIO == 1

ASSUME InitialRows ==
  /\ DOMAIN InitialType \subseteq Roles /\ \A x \in DOMAIN InitialType : InitialType[x] \in Types
  /\ DOMAIN InitialRoles \subseteq Users
  /\ \A u \in DOMAIN InitialRoles : InitialRoles[u] \subseteq DOMAIN InitialType

VARIABLES
  user,       \* the user rows: absent, present or (soft) deleted
  role,       \* the role rows
  type,       \* type of each role
  userRoles,  \* the rows of user_roles, by user
  req,        \* the requests: program counter and local variables
  changed,    \* history: how often the roles of a user were written
  joined,     \* history: how often a role was given to somebody
  retyped,    \* history: the roles whose type was changed
  bare        \* history: users created without roles, or who had one revoked

accessVars == <<user, role, type, userRoles, req, changed, joined, retyped, bare>>
roleRows == <<role, type, retyped>>
holdings == <<userRoles, changed, joined, bare>>

(***************************************************************************)
(* by is the requester and types his roles; target, wanted (dto.roleIds, or*)
(* the role of the route) and newType are the parameters.  before is       *)
(* history: the count changed of the target, or joined of the role, when   *)
(* the request last read or wrote them; torn is a failure between the two  *)
(* writes of an update.                                                    *)
(***************************************************************************)
RequestState ==
  [ pc: { "new", "done", "protect", "restrict", "find", "rank", "clear", "fill",
          "write", "delete", "insert", "findRole", "findUser", "upsert", "findHeld",
          "revoke", "findRetyped", "retype", "findRemoved", "count", "remove" },
    op: Operations \cup {"none"}, result: { "none", "served", "refused", "failed", "torn" },
    by: Users \cup {NULL}, types: SUBSET Types, target: Users \cup {NULL},
    wanted: SUBSET Roles, newType: Types, before: Nat ]

NewRequest ==
  [ pc |-> "new", op |-> "none", result |-> "none", by |-> NULL, types |-> {},
    target |-> NULL, wanted |-> {}, newType |-> 0, before |-> 0 ]

Status == { "absent", "present", "deleted" }

TypeOK ==
  /\ user \in [Users -> Status] /\ role \in [Roles -> Status]
  /\ type \in [Roles -> Types]
  /\ userRoles \in [Users -> SUBSET Roles]
  /\ req \in [Requests -> RequestState]
  /\ changed \in [Users -> Nat] /\ joined \in [Roles -> Nat]
  /\ retyped \subseteq Roles /\ bare \subseteq Users

Init ==
  /\ user = [u \in Users |-> IF u \in DOMAIN InitialRoles THEN "present" ELSE "absent"]
  /\ role = [x \in Roles |-> IF x \in DOMAIN InitialType THEN "present" ELSE "absent"]
  /\ type = [x \in Roles |-> IF x \in DOMAIN InitialType THEN InitialType[x] ELSE 0]
  /\ userRoles = [u \in Users |-> IF u \in DOMAIN InitialRoles THEN InitialRoles[u] ELSE {}]
  /\ req = [r \in Requests |-> NewRequest]
  /\ changed = [u \in Users |-> 0] /\ joined = [x \in Roles |-> 0]
  /\ retyped = {} /\ bare = {u \in Users : userRoles[u] = {}}

----------------------------------------------------------------------------
At(r, pc) == req[r].pc = pc

Become(r, x) == req' = [req EXCEPT ![r] = x]

Goto(r, pc) == Become(r, [req[r] EXCEPT !.pc = pc])

Finish(r, result) == Become(r, [req[r] EXCEPT !.pc = "done", !.result = result])

\* The types of the roles user u holds, of deleted roles as well.
TypesOf(u) == {type[x] : x \in userRoles[u]}

\* Some role of the requester ranks strictly above type t.
Outranks(types, t) == \E own \in types : own < t

\* User u is given the roles xs.
Give(u, xs) ==
  /\ userRoles' = [userRoles EXCEPT ![u] = @ \cup xs]
  /\ changed' = [changed EXCEPT ![u] = @ + 1]
  /\ joined' = [x \in Roles |-> IF x \in xs THEN joined[x] + 1 ELSE joined[x]]

----------------------------------------------------------------------------
(***************************************************************************)
(* A request comes in, made by a user JwtStrategy accepts, for any rows    *)
(* that exist.                                                             *)
(***************************************************************************)
Known(rows) == {x \in DOMAIN rows : rows[x] # "absent"}

Begin(r, by, op, pc, target, wanted, newType) ==
  /\ op \in Operations /\ At(r, "new") /\ user[by] = "present"
  /\ Become(r, [req[r] EXCEPT !.pc = pc, !.op = op, !.by = by, !.types = TypesOf(by),
                   !.target = target, !.wanted = wanted, !.newType = newType])
  /\ UNCHANGED <<user, roleRows, holdings>>

\* The ids a dto may hold.
RoleIds == {xs \in SUBSET Known(role) : Cardinality(xs) <= MaxRoleIds}

\* A super administrator's roleIds are not validated.
BeginCreate(r, by) ==
  \E u \in Users, xs \in RoleIds :
    /\ user[u] = "absent"
    /\ Begin(r, by, "create",
             IF SUPER_ADMIN \in TypesOf(by) \/ xs = {} THEN "insert" ELSE "rank", u, xs, 0)

BeginUpdate(r, by) ==
  \E u \in Known(user), xs \in RoleIds : Begin(r, by, "update", "restrict", u, xs, 0)

BeginRemove(r, by) ==
  \E u \in Known(user) : Begin(r, by, "remove", "protect", u, {}, 0)

BeginAssign(r, by) ==
  \E u \in Known(user), x \in Known(role) : Begin(r, by, "assign", "findRole", u, {x}, 0)

BeginRevoke(r, by) ==
  \E u \in Known(user), x \in Known(role) : Begin(r, by, "revoke", "findHeld", u, {x}, 0)

BeginUpdateRole(r, by) ==
  \E x \in Known(role), t \in Types :
    Begin(r, by, "updateRole", "findRetyped", NULL, {x}, t)

BeginRemoveRole(r, by) ==
  \E x \in Known(role) : Begin(r, by, "removeRole", "findRemoved", NULL, {x}, 0)

----------------------------------------------------------------------------
(***************************************************************************)
(* The guards: nobody deletes a super administrator, and a NOTARIO does    *)
(* not touch one.  A row that is not found is left to the handler.         *)
(***************************************************************************)
IsSuperAdmin(u) == SUPER_ADMIN \in TypesOf(u)

FoundSuperAdmin(u) == user[u] = "present" /\ IsSuperAdmin(u)

\* The guard lets r pass to pc; what it read of the target is remembered.
Pass(r, pc) ==
  Become(r, [req[r] EXCEPT !.pc = pc, !.before = changed[req[r].target]])

\* Mutant: only a NOTARIO is stopped.
ProtectSuperAdminFromNotario(r) ==
  /\ At(r, "protect")
  /\ IF FoundSuperAdmin(req[r].target) /\ NOTARIO \in req[r].types
     THEN Finish(r, "refused") ELSE Pass(r, "restrict")
  /\ UNCHANGED <<user, roleRows, holdings>>

ProtectSuperAdmin(r) ==
  /\ At(r, "protect")
  /\ \/ FoundSuperAdmin(req[r].target) /\ Finish(r, "refused")
     \/ ~FoundSuperAdmin(req[r].target) /\ Pass(r, "restrict")
  /\ UNCHANGED <<user, roleRows, holdings>>

NotarioRestriction(r) ==
  LET blocked == NOTARIO \in req[r].types /\ FoundSuperAdmin(req[r].target)
  IN  /\ At(r, "restrict")
      /\ \/ blocked /\ Finish(r, "refused")
         \/ ~blocked /\ req[r].op = "update" /\ Pass(r, "find")
         \/ ~blocked /\ req[r].op = "remove" /\ Goto(r, "find")
      /\ UNCHANGED <<user, roleRows, holdings>>

----------------------------------------------------------------------------
\* The look-up of the user that update and remove begin with.
FindUser(r) ==
  LET missing == user[req[r].target] # "present"
      self == req[r].op = "remove" /\ req[r].target = req[r].by
  IN  /\ At(r, "find")
      /\ \/ (missing \/ self) /\ Finish(r, "refused")
         \/ /\ ~missing /\ ~self
            /\ \/ req[r].op = "remove" /\ Goto(r, "delete")
               \/ req[r].op = "update" /\ req[r].wanted = {} /\ Goto(r, "write")
               \/ /\ req[r].op = "update" /\ req[r].wanted # {}
                  /\ Goto(r, IF SUPER_ADMIN \in req[r].types THEN "clear" ELSE "rank")
      /\ UNCHANGED <<user, roleRows, holdings>>

\* Mutant: a role of the requester's own rank passes.
RankCheckEqual(r) ==
  /\ At(r, "rank")
  /\ IF \A x \in req[r].wanted : \E own \in req[r].types : own <= type[x]
     THEN Goto(r, IF req[r].op = "create" THEN "insert" ELSE "clear")
     ELSE Finish(r, "refused")
  /\ UNCHANGED <<user, roleRows, holdings>>

\* validateRoleCreationPermission: every role is below the requester's rank.
RankCheck(r) ==
  LET below == \A x \in req[r].wanted : Outranks(req[r].types, type[x])
  IN  /\ At(r, "rank")
      /\ \/ below /\ Goto(r, IF req[r].op = "create" THEN "insert" ELSE "clear")
         \/ ~below /\ Finish(r, "refused")
      /\ UNCHANGED <<user, roleRows, holdings>>

\* create: the user and his roles are one nested write.
InsertUser(r) ==
  LET u == req[r].target
  IN  /\ At(r, "insert") /\ user[u] = "absent"
      /\ user' = [user EXCEPT ![u] = "present"]
      /\ Give(u, req[r].wanted)
      /\ bare' = IF req[r].wanted = {} THEN bare \cup {u} ELSE bare \ {u}
      /\ Finish(r, "served")
      /\ UNCHANGED roleRows

\* Mutant: only the roles asked for are deleted first.
ClearRolesWanted(r) ==
  LET u == req[r].target
  IN  /\ At(r, "clear")
      /\ userRoles' = [userRoles EXCEPT ![u] = @ \ req[r].wanted]
      /\ changed' = [changed EXCEPT ![u] = @ + 1]
      /\ Become(r, [req[r] EXCEPT !.pc = "fill", !.before = changed[u] + 1])
      /\ UNCHANGED <<user, roleRows, joined, bare>>

\* update replaces the roles by a deleteMany and a createMany.
ClearRoles(r) ==
  LET u == req[r].target
  IN  /\ At(r, "clear")
      /\ userRoles' = [userRoles EXCEPT ![u] = {}]
      /\ changed' = [changed EXCEPT ![u] = @ + 1]
      /\ Become(r, [req[r] EXCEPT !.pc = "fill", !.before = changed[u] + 1])
      /\ UNCHANGED <<user, roleRows, joined, bare>>

\* Mutant: a role that somebody got before is skipped as a duplicate.
FillRolesSkipped(r) ==
  /\ At(r, "fill")
  /\ Give(req[r].target, {x \in req[r].wanted : joined[x] = 0})
  /\ Goto(r, "write")
  /\ UNCHANGED <<user, roleRows, bare>>

FillRoles(r) ==
  /\ At(r, "fill")
  /\ Give(req[r].target, req[r].wanted)
  /\ Goto(r, "write")
  /\ UNCHANGED <<user, roleRows, bare>>

\* The rest of the row: nothing here depends on it.
WriteUser(r) ==
  /\ At(r, "write")
  /\ Finish(r, "served")
  /\ UNCHANGED <<user, roleRows, holdings>>

\* remove: a soft delete by id, which leaves the roles alone.
DeleteUser(r) ==
  /\ At(r, "delete")
  /\ user' = [user EXCEPT ![req[r].target] = "deleted"]
  /\ Finish(r, "served")
  /\ UNCHANGED <<roleRows, holdings>>

----------------------------------------------------------------------------
(***************************************************************************)
(* assignToUser and revokeFromUser: the role is read, then written about.  *)
(***************************************************************************)
AssignFindRole(r) ==
  LET ok == \A x \in req[r].wanted : role[x] = "present" /\ Outranks(req[r].types, type[x])
  IN  /\ At(r, "findRole")
      /\ \/ ok /\ Goto(r, "findUser")
         \/ ~ok /\ Finish(r, "refused")
      /\ UNCHANGED <<user, roleRows, holdings>>

AssignFindUser(r) ==
  /\ At(r, "findUser")
  /\ \/ user[req[r].target] = "present" /\ Goto(r, "upsert")
     \/ user[req[r].target] # "present" /\ Finish(r, "refused")
  /\ UNCHANGED <<user, roleRows, holdings>>

AssignRole(r) ==
  /\ At(r, "upsert")
  /\ Give(req[r].target, req[r].wanted)
  /\ Finish(r, "served")
  /\ UNCHANGED <<user, roleRows, bare>>

RevokeFindRole(r) ==
  LET ok == \A x \in req[r].wanted : Outranks(req[r].types, type[x])
  IN  /\ At(r, "findHeld")
      /\ \/ ok /\ Goto(r, "revoke")
         \/ ~ok /\ Finish(r, "refused")
      /\ UNCHANGED <<user, roleRows, holdings>>

RevokeRole(r) ==
  LET u == req[r].target
  IN  /\ At(r, "revoke")
      /\ userRoles' = [userRoles EXCEPT ![u] = @ \ req[r].wanted]
      /\ changed' = [changed EXCEPT ![u] = @ + 1]
      /\ bare' = bare \cup {u}
      /\ Finish(r, "served")
      /\ UNCHANGED <<user, roleRows, joined>>

----------------------------------------------------------------------------
\* RolesService.create: the role row appears, of any type.
CreateRole(r, by) ==
  \E x \in Roles, t \in Types :
    /\ "createRole" \in Operations /\ At(r, "new") /\ user[by] = "present"
    /\ role[x] = "absent"
    /\ role' = [role EXCEPT ![x] = "present"]
    /\ type' = [type EXCEPT ![x] = t]
    /\ Become(r, [req[r] EXCEPT !.pc = "done", !.op = "createRole", !.result = "served",
                     !.by = by, !.types = TypesOf(by), !.wanted = {x}])
    /\ UNCHANGED <<user, retyped, holdings>>

UpdateRoleFind(r) ==
  LET ok == \A x \in req[r].wanted : role[x] = "present"
  IN  /\ At(r, "findRetyped")
      /\ \/ ok /\ Goto(r, "retype")
         \/ ~ok /\ Finish(r, "refused")
      /\ UNCHANGED <<user, roleRows, holdings>>

\* The roles whose type r changes.
Retypes(r) == {x \in req[r].wanted : type[x] # req[r].newType}

\* Mutant: a type that the dto leaves out is written as null.
UpdateRoleUntyped(r) ==
  /\ At(r, "retype")
  /\ type' = [x \in Roles |-> IF x \in req[r].wanted THEN NULL ELSE type[x]]
  /\ retyped' = retyped \cup Retypes(r)
  /\ Finish(r, "served")
  /\ UNCHANGED <<user, role, holdings>>

UpdateRole(r) ==
  /\ At(r, "retype")
  /\ type' = [x \in Roles |-> IF x \in req[r].wanted THEN req[r].newType ELSE type[x]]
  /\ retyped' = retyped \cup Retypes(r)
  /\ Finish(r, "served")
  /\ UNCHANGED <<user, role, holdings>>

RemoveRoleFind(r) ==
  LET ok == \A x \in req[r].wanted : role[x] = "present"
  IN  /\ At(r, "findRemoved")
      /\ \/ ok /\ Goto(r, "count")
         \/ ~ok /\ Finish(r, "refused")
      /\ UNCHANGED <<user, roleRows, holdings>>

\* Nobody holds the role: r goes on, and remembers when it counted.
Counted(r) ==
  \E x \in req[r].wanted :
    Become(r, [req[r] EXCEPT !.pc = "remove", !.before = joined[x]])

\* Mutant: the users that hold the role are not counted.
RemoveRoleUncounted(r) ==
  /\ At(r, "count")
  /\ Counted(r)
  /\ UNCHANGED <<user, roleRows, holdings>>

\* The rows of deleted users count as well.
RemoveRoleCount(r) ==
  LET held == \E u \in Users : userRoles[u] \cap req[r].wanted # {}
  IN  /\ At(r, "count")
      /\ \/ held /\ Finish(r, "refused")
         \/ ~held /\ Counted(r)
      /\ UNCHANGED <<user, roleRows, holdings>>

RemoveRole(r) ==
  /\ At(r, "remove")
  /\ role' = [x \in Roles |-> IF x \in req[r].wanted THEN "deleted" ELSE role[x]]
  /\ Finish(r, "served")
  /\ UNCHANGED <<user, type, retyped, holdings>>

----------------------------------------------------------------------------
\* A query fails, or the process stops: the rest of the handler never runs.
Fail(r) ==
  /\ req[r].pc \notin { "new", "done" }
  /\ Finish(r, IF At(r, "fill") THEN "torn" ELSE "failed")
  /\ UNCHANGED <<user, roleRows, holdings>>

Terminated ==
  /\ \A r \in Requests : At(r, "done")
  /\ UNCHANGED accessVars

Arrive(r, by) ==
  \/ BeginCreate(r, by) \/ BeginUpdate(r, by) \/ BeginRemove(r, by)
  \/ BeginAssign(r, by) \/ BeginRevoke(r, by)
  \/ CreateRole(r, by) \/ BeginUpdateRole(r, by) \/ BeginRemoveRole(r, by)

UserStep(r) ==
  \/ ProtectSuperAdmin(r) \/ NotarioRestriction(r) \/ FindUser(r) \/ RankCheck(r)
  \/ InsertUser(r) \/ ClearRoles(r) \/ FillRoles(r) \/ WriteUser(r) \/ DeleteUser(r)

RoleStep(r) ==
  \/ AssignFindRole(r) \/ AssignFindUser(r) \/ AssignRole(r)
  \/ RevokeFindRole(r) \/ RevokeRole(r)
  \/ UpdateRoleFind(r) \/ UpdateRole(r)
  \/ RemoveRoleFind(r) \/ RemoveRoleCount(r) \/ RemoveRole(r)

Next ==
  \/ \E r \in Requests :
       (\E by \in Users : Arrive(r, by)) \/ UserStep(r) \/ RoleStep(r) \/ Fail(r)
  \/ Terminated

Spec == Init /\ [][Next]_accessVars

----------------------------------------------------------------------------
Steps(r) == req'[r] # req[r]

(***************************************************************************)
(* Whoever is not a super administrator gives out only roles below his own *)
(* rank, however long ago the role was checked, unless the type of the role*)
(* itself was changed (users.service.ts:303-310, roles.service.ts:225-234).*)
(***************************************************************************)
NoEscalation ==
  [][\A r \in Requests, u \in Users :
       Steps(r) /\ SUPER_ADMIN \notin req[r].types =>
         \A x \in userRoles'[u] \ userRoles[u] :
           Outranks(req[r].types, type[x]) \/ x \in retyped]_accessVars

(***************************************************************************)
(* A super administrator is deleted, or has his roles replaced by a        *)
(* NOTARIO, only if his roles changed after the guard read them            *)
(* (protect-super-admin.guard.ts:11-12, notario-restriction.guard.ts:14).  *)
(***************************************************************************)
SuperAdminProtected ==
  [][\A r \in Requests, u \in Users :
       /\ Steps(r) /\ req[r].target = u /\ FoundSuperAdmin(u)
       /\ \/ user'[u] = "deleted"
          \/ req[r].op = "update" /\ NOTARIO \in req[r].types /\ userRoles'[u] # userRoles[u]
       /\ changed[u] = req[r].before
       => userRoles[u] \cap retyped # {}]_accessVars

(***************************************************************************)
(* A user is left without roles only if he was created so, or had a role   *)
(* revoked, or an update of his roles is under way or failed half way      *)
(* (users.service.ts:165-169).                                             *)
(***************************************************************************)
RolelessExplained ==
  \A u \in Users :
    user[u] # "absent" /\ userRoles[u] = {} /\ u \notin bare =>
      \E r \in Requests :
        req[r].target = u /\ (At(r, "fill") \/ req[r].result = "torn")

(***************************************************************************)
(* An update leaves the user with exactly the roles it asked for, unless   *)
(* another request changed them between its two writes; two updates that   *)
(* overlap leave the roles of both (users.service.ts:165-169).             *)
(***************************************************************************)
UpdateReplaces ==
  [][\A r \in Requests : At(r, "fill") /\ At(r, "write")' =>
       \/ userRoles'[req[r].target] = req[r].wanted
       \/ changed[req[r].target] # req[r].before]_accessVars

(***************************************************************************)
(* A deleted role is held only by users who got it after its removal had   *)
(* counted them (roles.service.ts:186-198).                                *)
(***************************************************************************)
DeletedRoleUnheld ==
  \A x \in Roles : role[x] = "deleted" /\ (\E u \in Users : x \in userRoles[u]) =>
    \E r \in Requests :
      /\ req[r].op = "removeRole" /\ x \in req[r].wanted /\ req[r].result = "served"
      /\ joined[x] # req[r].before
=============================================================================
