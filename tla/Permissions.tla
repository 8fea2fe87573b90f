---------------------------- MODULE Permissions -----------------------------
(***************************************************************************)
(* The permissions, the roles that have them, and the users who have the   *)
(* roles: what a user may do, and what the screen of his client offers     *)
(* (PermissionsService, RolesService.update, UsersService.update,          *)
(* AuthService.getMe).  After a change the service tells those concerned,  *)
(* whose clients reload.                                                   *)
(*                                                                         *)
(* A query is a step, and so is what follows the answer to the last one.   *)
(* The checks of who may change whose roles are in AccessControl; roles    *)
(* and users neither come nor go here.  Every client is connected.  Of the *)
(* permissions the seed script creates one is followed.                    *)
(***************************************************************************)
EXTENDS Naturals, FiniteSets

CONSTANTS
  Users, Roles,
  Requests,   \* requests; each also names the permission it creates
  Names,      \* names of permissions, which the guards compare
  First,      \* the permission that the first run of the seed script created
  SeedName,   \* its name in the script
  SeedRoles,  \* the roles to which the script grants it
  SuperRole,  \* the role of type SUPER_ADMIN that the script created
  NULL,
  MaxFaults   \* bound: failed queries and crashes

PermissionIds == {First} \cup Requests

ASSUME SeedOfNames ==
  SeedName \in Names /\ SeedRoles \subseteq Roles /\ SuperRole \in Roles
ASSUME NullIsNoName == NULL \notin Names
ASSUME FirstIsNoRequest == First \notin Requests
ASSUME FaultBound == MaxFaults \in Nat

VARIABLES
  name,      \* table permissions; NULL is no row
  grant,     \* table role_permissions
  member,    \* table user_roles
  supers,    \* the roles of type SUPER_ADMIN
  flag,      \* pdfDownloadDisabled of each user, "on" or "off"
  shown,     \* what the client of a user offers
  hinted,    \* the users whose clients were told to reload and have not yet
  req,       \* the requests
  due,       \* history: what role_permissions would be without partial updates
  stale,     \* history: the requests that wrote since the client of a user loaded
  promoted,  \* history: the requests that made a user a SUPER_ADMIN
  faults     \* history: how many faults there were

people == <<member, supers, flag>>
tables == <<name, grant, people>>
history == <<due, stale, promoted>>
screens == <<shown, hinted>>
permissionVars == <<tables, screens, req, history, faults>>

(***************************************************************************)
(* list are the permissions or roles a request sets, given says whether    *)
(* the dto has the list; id is the permission or the role it is about, who *)
(* the users it is to tell; type and flag are of the dto, was the flag it  *)
(* read.  cleared says that it has deleted the old list and not yet        *)
(* inserted the new one.  History: before are the requests that had made   *)
(* its user a SUPER_ADMIN when it looked, or that had ended when it began. *)
(***************************************************************************)
NewRequest ==
  [ pc |-> "new", op |-> "none", result |-> "none", id |-> NULL, name |-> NULL,
    given |-> FALSE, list |-> {}, type |-> "keep", flag |-> "keep", was |-> "off",
    who |-> {}, cleared |-> FALSE, before |-> {} ]

Holders(p) == {ro \in Roles : <<ro, p>> \in grant}

Members(ro) == {u \in Users : <<u, ro>> \in member}

SuperAdmin(u) == \E ro \in supers : u \in Members(ro)

\* What validate of JwtStrategy and getMe find of u.
Effective(u) ==
  [ may |-> {name[p] : p \in {q \in PermissionIds : \E ro \in Holders(q) : u \in Members(ro)}},
    super |-> SuperAdmin(u),
    pdfDownloadDisabled |-> flag[u] ]

\* The seed script has been run, perhaps not to its end; the users have any
\* roles, and nobody is restricted.
Init ==
  /\ name = [p \in PermissionIds |-> IF p = First THEN SeedName ELSE NULL]
  /\ grant \in SUBSET (SeedRoles \X {First})
  /\ member \in SUBSET (Users \X Roles)
  /\ supers = {SuperRole}
  /\ flag = [u \in Users |-> "off"]
  /\ shown = [u \in Users |-> Effective(u)]
  /\ hinted = {}
  /\ req = [r \in Requests |-> NewRequest]
  /\ due = grant
  /\ stale = [u \in Users |-> {}]
  /\ promoted = [u \in Users |-> {}]
  /\ faults = 0

----------------------------------------------------------------------------
At(r, pc) == req[r].pc = pc

InFlight(r) == ~At(r, "new") /\ ~At(r, "done")

Become(r, x) == req' = [req EXCEPT ![r] = x]

Go(r, pc) == Become(r, [req[r] EXCEPT !.pc = pc])

Answer(r, result) == Become(r, [req[r] EXCEPT !.pc = "done", !.result = result])

Taken(n) == \E p \in PermissionIds : name[p] = n

Touch(r, users) ==
  stale' = [u \in Users |-> IF u \in users THEN stale[u] \cup {r} ELSE stale[u]]

Quiet == UNCHANGED <<screens, faults>>

----------------------------------------------------------------------------
\* create, update and remove look for the permission before they write.
CreatePermission(r, n) ==
  /\ At(r, "new")
  /\ IF Taken(n) THEN Answer(r, "rejected")
     ELSE Become(r, [req[r] EXCEPT !.pc = "insert", !.op = "create", !.name = n])
  /\ UNCHANGED <<tables, history>> /\ Quiet

\* The names are unique: the second of two creations gets Prisma's P2002.
InsertPermission(r) ==
  /\ At(r, "insert")
  /\ IF Taken(req[r].name) THEN Answer(r, "rejected") /\ UNCHANGED name
     ELSE name' = [name EXCEPT ![r] = req[r].name] /\ Answer(r, "ok")
  /\ UNCHANGED <<grant, people, history>> /\ Quiet

UpdatePermission(r, p, n) ==
  /\ At(r, "new")
  /\ IF name[p] = NULL THEN Answer(r, "notFound")
     ELSE Become(r, [req[r] EXCEPT !.pc = "rename", !.op = "rename", !.id = p, !.name = n])
  /\ UNCHANGED <<tables, history>> /\ Quiet

\* Nobody is told of a new name, nor that a permission was removed.
Rename(r) ==
  LET p == req[r].id
      n == req[r].name
  IN  /\ At(r, "rename")
      /\ \/ name[p] = NULL /\ Answer(r, "notFound") /\ UNCHANGED <<name, stale>>
         \/ name[p] \notin {NULL, n} /\ Taken(n) /\ Answer(r, "rejected")
              /\ UNCHANGED <<name, stale>>
         \/ /\ name[p] = n \/ (name[p] # NULL /\ ~Taken(n))
            /\ name' = [name EXCEPT ![p] = n]
            /\ Touch(r, UNION {Members(ro) : ro \in Holders(p)})
            /\ Answer(r, "ok")
      /\ UNCHANGED <<grant, people, due, promoted>> /\ Quiet

RemovePermission(r, p) ==
  /\ At(r, "new")
  /\ IF name[p] = NULL THEN Answer(r, "notFound")
     ELSE Become(r, [req[r] EXCEPT !.pc = "delete", !.op = "remove", !.id = p])
  /\ UNCHANGED <<tables, history>> /\ Quiet

\* The rows of role_permissions go with it.
DeletePermission(r) ==
  LET p == req[r].id
  IN  /\ At(r, "delete")
      /\ IF name[p] = NULL THEN Answer(r, "notFound") /\ UNCHANGED <<name, grant, due, stale>>
         ELSE /\ name' = [name EXCEPT ![p] = NULL]
              /\ grant' = grant \ (Roles \X {p})
              /\ due' = due \ (Roles \X {p})
              /\ Touch(r, UNION {Members(ro) : ro \in Holders(p)})
              /\ Answer(r, "ok")
      /\ UNCHANGED <<people, promoted>> /\ Quiet

----------------------------------------------------------------------------
\* grantToRole is one upsert, which a permission that is gone makes fail.
Grant(r, ro, p) ==
  /\ At(r, "new")
  /\ IF name[p] = NULL THEN Answer(r, "rejected") /\ UNCHANGED <<grant, due, stale>>
     ELSE /\ grant' = grant \cup {<<ro, p>>}
          /\ due' = due \cup {<<ro, p>>}
          /\ Touch(r, Members(ro))
          /\ Become(r, [req[r] EXCEPT !.pc = "members", !.op = "grant", !.id = ro])
  /\ UNCHANGED <<name, people, promoted>> /\ Quiet

\* Mutant: the deletion does not ask for the permission.
RevokeAll(r, ro, p) ==
  /\ At(r, "new")
  /\ grant' = grant \ ({ro} \X PermissionIds)
  /\ due' = due \ {<<ro, p>>}
  /\ Touch(r, Members(ro))
  /\ Become(r, [req[r] EXCEPT !.pc = "members", !.op = "revoke", !.id = ro])
  /\ UNCHANGED <<name, people, promoted>> /\ Quiet

Revoke(r, ro, p) ==
  /\ At(r, "new")
  /\ grant' = grant \ {<<ro, p>>}
  /\ due' = due \ {<<ro, p>>}
  /\ Touch(r, Members(ro))
  /\ Become(r, [req[r] EXCEPT !.pc = "members", !.op = "revoke", !.id = ro])
  /\ UNCHANGED <<name, people, promoted>> /\ Quiet

(***************************************************************************)
(* update of RolesService: deleteMany and createMany of its permissions if *)
(* the dto has permissionIds, then the role itself, in no transaction.     *)
(* Nothing looks whether the permissions exist.                            *)
(***************************************************************************)
UpdateRole(r, ro, given, list, type) ==
  /\ At(r, "new")
  /\ Become(r, [req[r] EXCEPT !.pc = IF given THEN "clear" ELSE "row", !.op = "role",
                  !.id = ro, !.given = given, !.list = list, !.type = type])
  /\ UNCHANGED <<tables, history>> /\ Quiet

Clear(r) ==
  LET ro == req[r].id
      all == {ro} \X PermissionIds
  IN  /\ At(r, "clear")
      /\ grant' = grant \ all
      /\ due' = IF req[r].list = {} THEN due \ all ELSE due
      /\ Touch(r, Members(ro))
      /\ Become(r, [req[r] EXCEPT !.pc = IF req[r].list = {} THEN "row" ELSE "fill",
                      !.cleared = req[r].list # {}])
      /\ UNCHANGED <<name, people, promoted>> /\ Quiet

\* createMany with skipDuplicates inserts the whole list or, when one of the
\* permissions does not exist, nothing.
Fill(r) ==
  LET ro == req[r].id
      new == {ro} \X req[r].list
  IN  /\ At(r, "fill")
      /\ IF \E p \in req[r].list : name[p] = NULL
         THEN Answer(r, "rejected") /\ UNCHANGED <<grant, due, stale>>
         ELSE /\ grant' = grant \cup new
              /\ due' = (due \ ({ro} \X PermissionIds)) \cup new
              /\ Touch(r, Members(ro))
              /\ Become(r, [req[r] EXCEPT !.pc = "row", !.cleared = FALSE])
      /\ UNCHANGED <<name, people, promoted>> /\ Quiet

\* The step of r makes these users SUPER_ADMINs.
Promote(r) ==
  promoted' = [u \in Users |->
                 IF ~SuperAdmin(u) /\ SuperAdmin(u)' THEN promoted[u] \cup {r} ELSE promoted[u]]

\* The type of the role is written with the rest of it.
WriteRole(r) ==
  LET ro == req[r].id
  IN  /\ supers' = CASE req[r].type = "super" -> supers \cup {ro}
                     [] req[r].type = "plain" -> supers \ {ro}
                     [] req[r].type = "keep" -> supers
      /\ Touch(r, IF req[r].type = "keep" THEN {} ELSE Members(ro))
      /\ UNCHANGED <<name, grant, member, flag, due>> /\ Quiet
      /\ Promote(r)

\* Mutant: the members are told only of a list that is not empty.
RoleRowIfAny(r) ==
  /\ At(r, "row")
  /\ IF req[r].list # {} THEN Go(r, "members") ELSE Answer(r, "ok")
  /\ WriteRole(r)

\* The members are told if the dto has permissionIds.
RoleRow(r) ==
  /\ At(r, "row")
  /\ IF req[r].given THEN Go(r, "members") ELSE Answer(r, "ok")
  /\ WriteRole(r)

\* notifyRoleMembers: the members of the role are read, then told.
ReadMembers(r) ==
  /\ At(r, "members")
  /\ Become(r, [req[r] EXCEPT !.pc = "tell", !.who = Members(req[r].id)])
  /\ UNCHANGED <<tables, history>> /\ Quiet

Tell(r) ==
  /\ At(r, "tell")
  /\ hinted' = hinted \cup req[r].who
  /\ Answer(r, "ok")
  /\ UNCHANGED <<tables, shown, history, faults>>

----------------------------------------------------------------------------
(***************************************************************************)
(* assignToUser and revokeFromUser of RolesService look at the type of the *)
(* role, whose rank must be below the requester's: nobody's is above that  *)
(* of SUPER_ADMIN.  They write the row some queries later, whatever type   *)
(* the role has by then, and tell the user himself.                        *)
(***************************************************************************)
Look(r, op, pc, u, ro) ==
  /\ At(r, "new")
  /\ IF ro \in supers THEN Answer(r, "rejected")
     ELSE Become(r, [req[r] EXCEPT !.pc = pc, !.op = op, !.id = ro, !.who = {u}])
  /\ UNCHANGED <<tables, history>> /\ Quiet

Assign(r, u, ro) == Look(r, "assign", "give", u, ro)

AssignRole(r) ==
  /\ At(r, "give")
  /\ member' = member \cup (req[r].who \X {req[r].id})
  /\ Touch(r, req[r].who)
  /\ Go(r, "tell")
  /\ UNCHANGED <<name, grant, supers, flag, due>> /\ Quiet
  /\ Promote(r)

Unassign(r, u, ro) == Look(r, "unassign", "take", u, ro)

UnassignRole(r) ==
  /\ At(r, "take")
  /\ member' = member \ (req[r].who \X {req[r].id})
  /\ Touch(r, req[r].who)
  /\ Go(r, "tell")
  /\ UNCHANGED <<name, grant, supers, flag, due, promoted>> /\ Quiet

(***************************************************************************)
(* update of UsersService: the user is read, the types of his roles are    *)
(* looked at if the dto has the flag, the roles are deleted and inserted   *)
(* if it has roleIds, and the user is written.                             *)
(***************************************************************************)
AfterTypes(list) == IF list = {} THEN "user" ELSE "unassign"

UpdateUser(r, u, list, f) ==
  /\ At(r, "new")
  /\ Become(r, [req[r] EXCEPT !.op = "user", !.list = list, !.flag = f, !.was = flag[u],
                  !.who = {u}, !.pc = IF f = "keep" THEN AfterTypes(list) ELSE "types"])
  /\ UNCHANGED <<tables, history>> /\ Quiet

UserOf(r) == CHOOSE u \in Users : u \in req[r].who

\* Mutant: only the roles of the dto are looked at.
CheckTypesOfDto(r) ==
  /\ At(r, "types")
  /\ IF req[r].list \cap supers # {} THEN Answer(r, "rejected")
     ELSE Become(r, [req[r] EXCEPT !.pc = AfterTypes(req[r].list),
                       !.before = promoted[UserOf(r)]])
  /\ UNCHANGED <<tables, history>> /\ Quiet

\* assertPdfFlagChangeAllowed: the target is no SUPER_ADMIN, by the roles of
\* the dto or, without them, by those the user has.
CheckTypes(r) ==
  /\ At(r, "types")
  /\ IF (IF req[r].list = {} THEN SuperAdmin(UserOf(r)) ELSE req[r].list \cap supers # {})
     THEN Answer(r, "rejected")
     ELSE Become(r, [req[r] EXCEPT !.pc = AfterTypes(req[r].list),
                       !.before = promoted[UserOf(r)]])
  /\ UNCHANGED <<tables, history>> /\ Quiet

ClearRoles(r) ==
  /\ At(r, "unassign")
  /\ member' = member \ (req[r].who \X Roles)
  /\ Touch(r, req[r].who)
  /\ Go(r, "roles")
  /\ UNCHANGED <<name, grant, supers, flag, due, promoted>> /\ Quiet

FillRoles(r) ==
  /\ At(r, "roles")
  /\ member' = member \cup (req[r].who \X req[r].list)
  /\ Touch(r, req[r].who)
  /\ Go(r, "user")
  /\ UNCHANGED <<name, grant, supers, flag, due>> /\ Quiet
  /\ Promote(r)

\* The user is told of new roles, and of a flag other than the one that was
\* read at the beginning.
UserRow(r) ==
  /\ At(r, "user")
  /\ flag' = [u \in Users |->
                IF u \in req[r].who /\ req[r].flag # "keep" THEN req[r].flag ELSE flag[u]]
  /\ Touch(r, IF req[r].flag = "keep" THEN {} ELSE req[r].who)
  /\ IF req[r].list # {} \/ req[r].flag \notin {"keep", req[r].was}
     THEN Go(r, "tell") ELSE Answer(r, "ok")
  /\ UNCHANGED <<name, grant, member, supers, due, promoted>> /\ Quiet

----------------------------------------------------------------------------
(***************************************************************************)
(* The seed script: it creates its permissions unless there are such, then *)
(* looks each one up, skips it if it is gone, and grants it to the roles   *)
(* of its map one after the other.  It tells nobody, and may be run again. *)
(***************************************************************************)
Seed(r) ==
  /\ At(r, "new")
  /\ Become(r, [req[r] EXCEPT !.pc = "seedGrants", !.op = "seed", !.list = SeedRoles,
                  !.before = {s \in Requests : At(s, "done")}])
  /\ name' = IF Taken(SeedName) THEN name ELSE [name EXCEPT ![r] = SeedName]
  /\ UNCHANGED <<grant, people, history>> /\ Quiet

Seeded(r, left) ==
  Become(r, [req[r] EXCEPT !.list = left, !.pc = IF left = {} THEN "done" ELSE @,
               !.result = IF left = {} THEN "ok" ELSE @])

\* Mutant: only the permission that this run created is granted.
SeedGrantNew(r, ro) ==
  LET found == {p \in PermissionIds : name[p] = SeedName /\ p = r}
  IN  /\ At(r, "seedGrants")
      /\ ro \in req[r].list
      /\ grant' = grant \cup ({ro} \X found)
      /\ due' = due \cup ({ro} \X found)
      /\ Touch(r, Members(ro))
      /\ Seeded(r, req[r].list \ {ro})
      /\ UNCHANGED <<name, people, promoted>> /\ Quiet

SeedGrant(r, ro) ==
  LET found == {p \in PermissionIds : name[p] = SeedName}
  IN  /\ At(r, "seedGrants")
      /\ ro \in req[r].list
      /\ grant' = grant \cup ({ro} \X found)
      /\ due' = due \cup ({ro} \X found)
      /\ Touch(r, Members(ro))
      /\ Seeded(r, req[r].list \ {ro})
      /\ UNCHANGED <<name, people, promoted>> /\ Quiet

----------------------------------------------------------------------------
\* The client of a user who was told asks for GET /auth/me.
Reload(u) ==
  /\ u \in hinted
  /\ hinted' = hinted \ {u}
  /\ shown' = [shown EXCEPT ![u] = Effective(u)]
  /\ stale' = [stale EXCEPT ![u] = {}]
  /\ UNCHANGED <<tables, req, due, promoted, faults>>

\* A query fails or the process dies.
Fail(r) ==
  /\ InFlight(r)
  /\ faults < MaxFaults
  /\ faults' = faults + 1
  /\ Answer(r, "failed")
  /\ UNCHANGED <<tables, screens, history>>

Terminated ==
  /\ \A r \in Requests : At(r, "done")
  /\ hinted = {}
  /\ UNCHANGED permissionVars

Next ==
  \/ \E r \in Requests :
       \/ /\ At(r, "new")
          /\ \/ \E n \in Names : CreatePermission(r, n)
                               \/ \E p \in PermissionIds : UpdatePermission(r, p, n)
             \/ \E p \in PermissionIds :
                  RemovePermission(r, p) \/ \E ro \in Roles : Grant(r, ro, p) \/ Revoke(r, ro, p)
             \/ \E ro \in Roles, type \in {"keep", "super", "plain"} :
                  \/ UpdateRole(r, ro, FALSE, {}, type)
                  \/ \E list \in SUBSET PermissionIds : UpdateRole(r, ro, TRUE, list, type)
             \/ \E u \in Users :
                  \/ \E ro \in Roles : Assign(r, u, ro) \/ Unassign(r, u, ro)
                  \/ \E list \in SUBSET Roles, f \in {"keep", "on", "off"} :
                       UpdateUser(r, u, list, f)
             \/ Seed(r)
       \/ InsertPermission(r) \/ Rename(r) \/ DeletePermission(r)
       \/ Clear(r) \/ Fill(r) \/ RoleRow(r) \/ ReadMembers(r) \/ Tell(r)
       \/ AssignRole(r) \/ UnassignRole(r)
       \/ CheckTypes(r) \/ ClearRoles(r) \/ FillRoles(r) \/ UserRow(r)
       \/ (\E ro \in Roles : SeedGrant(r, ro)) \/ Fail(r)
  \/ \E u \in Users : Reload(u)
  \/ Terminated

Spec == Init /\ [][Next]_permissionVars

----------------------------------------------------------------------------
(***************************************************************************)
(* A client offers what its user may do, unless it was told to reload, or  *)
(* a request that has written since it loaded is under way, did not end    *)
(* well, or was one of those that tell nobody: a new name or a removal of  *)
(* a permission, a role's new type alone, the seed, or a flag that has     *)
(* changed since the request read it (permissions.service.ts:29-42,        *)
(* 87-105, 135, 157; roles.service.ts:173-176, 258-262;                    *)
(* users.service.ts:190-211; seed.js:129-168).                             *)
(***************************************************************************)
TellsNobody(r) ==
  \/ req[r].op \in {"rename", "remove", "seed"}
  \/ req[r].op = "role" /\ ~req[r].given
  \/ req[r].op = "user" /\ req[r].list = {} /\ req[r].flag = req[r].was

ScreensFollowGrants ==
  \A u \in Users : shown[u] # Effective(u) =>
    \/ u \in hinted
    \/ \E r \in stale[u] : InFlight(r) \/ req[r].result # "ok" \/ TellsNobody(r)

(***************************************************************************)
(* A role has lost a permission that nobody took from it only to an update *)
(* between its deleteMany and its createMany, or to one that ended there:  *)
(* because of a fault, or because its list names a permission that does    *)
(* not exist (roles.service.ts:143-155).                                   *)
(***************************************************************************)
LossExplained ==
  \A g \in due \ grant : \E r \in Requests :
    req[r].op = "role" /\ req[r].id = g[1] /\ req[r].cleared

(***************************************************************************)
(* A SUPER_ADMIN's download of PDFs is restricted only if a request made   *)
(* him one after the restricting one had looked at his roles: the check is *)
(* made of the flag and never of a new role (users.service.ts:156-177,     *)
(* 251-288).  It may have been his new roles, a new type of one he has, or *)
(* a role given to him that changed its type after its rank was looked at  *)
(* (roles.service.ts:220-246).                                             *)
(***************************************************************************)
Restricted(r, u) ==
  req[r].op = "user" /\ u \in req[r].who /\ req[r].flag = "on"
    /\ (At(r, "tell") \/ req[r].result = "ok")

RestrictionExplained ==
  \A u \in Users : SuperAdmin(u) /\ flag[u] = "on" =>
    \E s \in promoted[u] : \A r \in Requests : Restricted(r, u) => s \notin req[r].before

(***************************************************************************)
(* When the seed script has ended, every role of its map has the           *)
(* permission, whatever an earlier run that died left behind, unless a     *)
(* request that had not ended when the script began can have taken it      *)
(* (seed.js:129-168).                                                      *)
(***************************************************************************)
Takes(s) == req[s].op \in {"rename", "remove", "revoke", "role"}

SeedComplete ==
  [][\A r \in Requests : req[r].op = "seed" /\ InFlight(r) /\ req'[r].result = "ok" =>
       \/ \A ro \in SeedRoles : \E p \in PermissionIds :
            name[p] = SeedName /\ <<ro, p>> \in grant'
       \/ \E s \in Requests \ req[r].before : Takes(s)]_permissionVars
=============================================================================
