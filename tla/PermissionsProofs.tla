--------------------------- MODULE PermissionsProofs ---------------------------
(***************************************************************************)
(* The properties of Permissions for any number of users, roles, names and *)
(* requests.                                                               *)
(*                                                                         *)
(* What all of them rest on is CallInv: the tables hold what they should,  *)
(* and a request under way has the parameters of its operation.  Each      *)
(* property then has an invariant of its own.  Most steps change the       *)
(* record of one request and one table: the lemmas of the second section   *)
(* say how, once for each operation, and the proofs of the properties use  *)
(* them and not the actions' text.                                         *)
(***************************************************************************)
EXTENDS Permissions, TLAPS

Results == { "ok", "rejected", "notFound", "failed" }

Counters ==
  { "new", "insert", "rename", "delete", "clear", "fill", "row", "members", "give", "take",
    "tell", "types", "unassign", "roles", "user", "seedGrants", "done" }

Operations ==
  { "none", "create", "rename", "remove", "grant", "revoke", "role", "assign",
    "unassign", "user", "seed" }

RequestState ==
  [ pc: Counters, op: Operations, result: Results \cup {"none"},
    id: PermissionIds \cup Roles \cup {NULL}, name: Names \cup {NULL}, given: BOOLEAN,
    list: SUBSET (PermissionIds \cup Roles), type: {"keep", "super", "plain"},
    flag: {"keep", "on", "off"}, was: {"on", "off"}, who: SUBSET Users,
    cleared: BOOLEAN, before: SUBSET Requests ]

\* What a request x does at its program counter, and the parameters it has.
Route(x) ==
  /\ x.pc = "new" => x = NewRequest
  /\ x.pc = "insert" => x.op = "create" /\ x.name \in Names
  /\ x.pc = "rename" => x.op = "rename" /\ x.id \in PermissionIds /\ x.name \in Names
  /\ x.pc = "delete" => x.op = "remove" /\ x.id \in PermissionIds
  /\ x.pc \in {"clear", "fill", "row"} =>
       x.op = "role" /\ x.id \in Roles /\ x.list \subseteq PermissionIds
  /\ x.pc \in {"clear", "fill"} => x.given
  /\ x.pc = "members" => x.op \in {"grant", "revoke", "role"} /\ x.id \in Roles
  /\ x.pc \in {"give", "take"} => x.op \in {"assign", "unassign"} /\ x.id \in Roles
  /\ x.pc \in {"types", "unassign", "roles", "user"} => x.op = "user" /\ x.list \subseteq Roles
  /\ x.pc \in {"unassign", "roles"} => x.list # {}
  /\ x.op = "user" => \E u \in Users : x.who = {u}
  /\ x.pc = "seedGrants" => x.op = "seed"
  /\ x.op = "seed" => x.pc \in {"seedGrants", "done"}
  /\ x.pc # "done" => x.result = "none"

Calls == req \in [Requests -> RequestState] /\ \A r \in Requests : Route(req[r])

Tables ==
  /\ name \in [PermissionIds -> Names \cup {NULL}]
  /\ grant \subseteq Roles \X PermissionIds
  /\ due \subseteq Roles \X PermissionIds
  /\ member \subseteq Users \X Roles
  /\ supers \subseteq Roles
  /\ flag \in [Users -> {"on", "off"}]
  /\ hinted \subseteq Users
  /\ DOMAIN shown = Users
  /\ stale \in [Users -> SUBSET Requests]
  /\ promoted \in [Users -> SUBSET Requests]
  /\ faults \in Nat

\* Only permissions that exist are granted, and a request creates only one.
Rows ==
  /\ \A g \in grant : name[g[2]] # NULL
  /\ \A r \in Requests : req[r].pc \in {"new", "insert"} => name[r] = NULL

CallInv == Calls /\ Tables /\ Rows

----------------------------------------------------------------------------
(***************************************************************************)
(* What a step of r does to the requests.                                  *)
(***************************************************************************)
Others(r) == \A s \in Requests \ {r} : req'[s] = req[s]

\* What a request keeps from its first step on.
Kept(x, y) ==
  /\ y.op = x.op /\ y.id = x.id /\ y.given = x.given /\ y.flag = x.flag /\ y.was = x.was
  /\ x.op = "user" => y.who = x.who
  /\ x.op # "seed" => y.list = x.list
  /\ x.pc # "types" => y.before = x.before

Moved(r) ==
  /\ Others(r) /\ Calls'
  /\ req[r].pc # "done" /\ req'[r].pc # "new"
  /\ req[r].pc # "new" => Kept(req[r], req'[r])
  /\ req'[r].pc = "insert" => req[r].pc = "new"

LEMMA Become1 ==
  ASSUME CallInv, NEW r \in Requests, NEW x \in RequestState, Route(x), Become(r, x),
         req[r].pc # "done", x.pc # "new", x.pc = "insert" => req[r].pc = "new",
         req[r].pc # "new" => Kept(req[r], x)
  PROVE  Moved(r) /\ req'[r] = x
<1>1. req'[r] = x /\ Others(r) /\ req' \in [Requests -> RequestState]
  BY DEF Become, CallInv, Calls, Others
<1>2. Calls'
  <2>1. ASSUME NEW s \in Requests PROVE Route(req'[s])
    BY <1>1 DEF CallInv, Calls, Others
  <2> QED  BY <1>1, <2>1 DEF Calls, Route, NewRequest
<1> QED  BY <1>1, <1>2 DEF Moved

\* An answer.
Ended(r, result) ==
  /\ Moved(r)
  /\ req'[r].pc = "done" /\ req'[r].result = result
  /\ req'[r].op = req[r].op /\ req'[r].cleared = req[r].cleared
  /\ req'[r].id = req[r].id /\ req'[r].who = req[r].who
  /\ req'[r].before = req[r].before

LEMMA AnswerCall ==
  ASSUME CallInv, NEW r \in Requests, req[r].pc # "done", NEW result \in Results,
         req[r].op # "seed" \/ req[r].pc = "seedGrants", Answer(r, result)
  PROVE  Ended(r, result)
<1> DEFINE x == [req[r] EXCEPT !.pc = "done", !.result = result]
<1>1. req[r] \in RequestState /\ Route(req[r])  BY DEF CallInv, Calls
<1>2. x \in RequestState
  <2>1. "done" \in Counters /\ result \in Results \cup {"none"}  BY DEF Counters
  <2> QED  BY <1>1, <2>1 DEF RequestState
<1>3. /\ x.pc = "done" /\ x.result = result
      /\ x.op = req[r].op /\ x.cleared = req[r].cleared /\ x.id = req[r].id
      /\ x.who = req[r].who /\ x.before = req[r].before
  BY <1>1 DEF RequestState
<1>4. Kept(req[r], x)  BY <1>1 DEF RequestState, Kept
<1>5. Become(r, x)  BY DEF Answer
<1> HIDE DEF x
<1>6. Route(x)  BY <1>1, <1>3 DEF Route
<1>7. Moved(r) /\ req'[r] = x  BY <1>2, <1>3, <1>4, <1>5, <1>6, Become1
<1> QED  BY <1>3, <1>7 DEF Ended

\* Another program counter, and nothing else.
Went(r, pc) ==
  /\ Moved(r)
  /\ req'[r].pc = pc /\ req'[r].cleared = req[r].cleared /\ req'[r].who = req[r].who

LEMMA GoCall ==
  ASSUME CallInv, NEW r \in Requests, req[r].pc \notin {"new", "done"},
         NEW pc \in {"members", "roles", "user", "tell"},
         pc = "members" => req[r].op = "role" /\ req[r].id \in Roles,
         pc \in {"roles", "user"} =>
           req[r].op = "user" /\ req[r].list \subseteq Roles /\ req[r].list # {},
         req[r].op # "seed", Go(r, pc)
  PROVE  Went(r, pc)
<1> DEFINE x == [req[r] EXCEPT !.pc = pc]
<1>1. req[r] \in RequestState /\ Route(req[r])  BY DEF CallInv, Calls
<1>2. x \in RequestState  BY <1>1 DEF RequestState, Counters
<1>3. /\ x.pc = pc /\ x.op = req[r].op /\ x.id = req[r].id
      /\ x.who = req[r].who /\ x.list = req[r].list /\ x.result = req[r].result
      /\ x.cleared = req[r].cleared
  BY <1>1 DEF RequestState
<1>4. Kept(req[r], x)  BY <1>1 DEF RequestState, Kept
<1>5. Become(r, x)  BY DEF Go
<1> HIDE DEF x
<1>6. Route(x)  BY <1>1, <1>3 DEF Route
<1>7. Moved(r) /\ req'[r] = x  BY <1>2, <1>3, <1>4, <1>5, <1>6, Become1
<1> QED  BY <1>3, <1>7 DEF Went

\* A request begins.  Of its record the invariants use these.
Begun(r, op, pc) == Moved(r) /\ req[r].pc = "new" /\ req'[r].op = op /\ req'[r].pc = pc

LEMMA NewCall ==
  ASSUME CallInv, NEW r \in Requests, At(r, "new")
  PROVE  /\ req[r] \in RequestState /\ req[r] = NewRequest /\ r \in PermissionIds
         /\ req[r].pc = "new" /\ req[r].op = "none" /\ req[r].result = "none"
         /\ ~req[r].cleared
<1>1. req[r] \in RequestState /\ req[r] = NewRequest /\ r \in PermissionIds
  BY DEF CallInv, Calls, Route, At, PermissionIds
<1> QED  BY <1>1 DEF NewRequest

----------------------------------------------------------------------------
(***************************************************************************)
(* The operations: what becomes of the record of their request.            *)
(***************************************************************************)
LEMMA CreatePermissionCall ==
  ASSUME CallInv, NEW r \in Requests, NEW n \in Names, CreatePermission(r, n)
  PROVE  Ended(r, "rejected") \/ (Begun(r, "create", "insert") /\ ~Taken(n))
<1> DEFINE x == [req[r] EXCEPT !.pc = "insert", !.op = "create", !.name = n]
<1>1. /\ req[r] \in RequestState /\ req[r].pc = "new" /\ req[r].op = "none"
      /\ req[r].result = "none"
  BY NewCall DEF CreatePermission
<1>2. x \in RequestState  BY <1>1 DEF RequestState, Counters, Operations
<1>3. x.pc = "insert" /\ x.op = "create" /\ x.name = n /\ x.result = "none"
  BY <1>1 DEF RequestState
<1>4. Answer(r, "rejected") \/ (Become(r, x) /\ ~Taken(n))  BY DEF CreatePermission
<1> HIDE DEF x
<1>5. Route(x)  BY <1>3 DEF Route
<1>6. CASE Answer(r, "rejected")  BY <1>1, <1>6, AnswerCall DEF Results
<1>7. CASE Become(r, x) /\ ~Taken(n)
  BY <1>1, <1>2, <1>3, <1>5, <1>7, Become1 DEF Begun
<1> QED  BY <1>4, <1>6, <1>7

LEMMA InsertPermissionCall ==
  ASSUME CallInv, NEW r \in Requests, InsertPermission(r)
  PROVE  /\ req[r].pc = "insert" /\ req[r].op = "create"
         /\ Ended(r, "rejected") \/ Ended(r, "ok")
<1>1. req[r].pc = "insert" /\ req[r].op = "create"
  BY DEF InsertPermission, At, CallInv, Calls, Route
<1> QED  BY <1>1, AnswerCall DEF InsertPermission, Results

LEMMA UpdatePermissionCall ==
  ASSUME CallInv, NEW r \in Requests, NEW p \in PermissionIds, NEW n \in Names,
         UpdatePermission(r, p, n)
  PROVE  Ended(r, "notFound") \/ Begun(r, "rename", "rename")
<1> DEFINE x == [req[r] EXCEPT !.pc = "rename", !.op = "rename", !.id = p, !.name = n]
<1>1. /\ req[r] \in RequestState /\ req[r].pc = "new" /\ req[r].op = "none"
      /\ req[r].result = "none"
  BY NewCall DEF UpdatePermission
<1>2. x \in RequestState  BY <1>1 DEF RequestState, Counters, Operations
<1>3. x.pc = "rename" /\ x.op = "rename" /\ x.id = p /\ x.name = n /\ x.result = "none"
  BY <1>1 DEF RequestState
<1>4. Answer(r, "notFound") \/ (Become(r, x))  BY DEF UpdatePermission
<1> HIDE DEF x
<1>5. Route(x)  BY <1>3 DEF Route
<1>6. CASE Answer(r, "notFound")  BY <1>1, <1>6, AnswerCall DEF Results
<1>7. CASE Become(r, x)
  BY <1>1, <1>2, <1>3, <1>5, <1>7, Become1 DEF Begun
<1> QED  BY <1>4, <1>6, <1>7

LEMMA RenameCall ==
  ASSUME CallInv, NEW r \in Requests, Rename(r)
  PROVE  /\ req[r].pc = "rename" /\ req[r].op = "rename"
         /\ req[r].id \in PermissionIds /\ req[r].name \in Names
         /\ \E result \in Results : Ended(r, result)
<1>1. /\ req[r].pc = "rename" /\ req[r].op = "rename"
      /\ req[r].id \in PermissionIds /\ req[r].name \in Names
  BY DEF Rename, At, CallInv, Calls, Route
<1>2. \E result \in Results : Answer(r, result)  BY DEF Rename, Results
<1> QED  BY <1>1, <1>2, AnswerCall

LEMMA RemovePermissionCall ==
  ASSUME CallInv, NEW r \in Requests, NEW p \in PermissionIds, RemovePermission(r, p)
  PROVE  Ended(r, "notFound") \/ Begun(r, "remove", "delete")
<1> DEFINE x == [req[r] EXCEPT !.pc = "delete", !.op = "remove", !.id = p]
<1>1. /\ req[r] \in RequestState /\ req[r].pc = "new" /\ req[r].op = "none"
      /\ req[r].result = "none"
  BY NewCall DEF RemovePermission
<1>2. x \in RequestState  BY <1>1 DEF RequestState, Counters, Operations
<1>3. x.pc = "delete" /\ x.op = "remove" /\ x.id = p /\ x.result = "none"
  BY <1>1 DEF RequestState
<1>4. Answer(r, "notFound") \/ (Become(r, x))  BY DEF RemovePermission
<1> HIDE DEF x
<1>5. Route(x)  BY <1>3 DEF Route
<1>6. CASE Answer(r, "notFound")  BY <1>1, <1>6, AnswerCall DEF Results
<1>7. CASE Become(r, x)
  BY <1>1, <1>2, <1>3, <1>5, <1>7, Become1 DEF Begun
<1> QED  BY <1>4, <1>6, <1>7

LEMMA DeletePermissionCall ==
  ASSUME CallInv, NEW r \in Requests, DeletePermission(r)
  PROVE  /\ req[r].pc = "delete" /\ req[r].op = "remove" /\ req[r].id \in PermissionIds
         /\ \E result \in Results : Ended(r, result)
<1>1. req[r].pc = "delete" /\ req[r].op = "remove" /\ req[r].id \in PermissionIds
  BY DEF DeletePermission, At, CallInv, Calls, Route
<1>2. \E result \in Results : Answer(r, result)  BY DEF DeletePermission, Results
<1> QED  BY <1>1, <1>2, AnswerCall

LEMMA GrantCall ==
  ASSUME CallInv, NEW r \in Requests, NEW ro \in Roles, NEW p \in PermissionIds,
         Grant(r, ro, p)
  PROVE  Ended(r, "rejected") \/ (Begun(r, "grant", "members") /\ req'[r].id = ro)
<1> DEFINE x == [req[r] EXCEPT !.pc = "members", !.op = "grant", !.id = ro]
<1>1. /\ req[r] \in RequestState /\ req[r].pc = "new" /\ req[r].op = "none"
      /\ req[r].result = "none"
  BY NewCall DEF Grant
<1>2. x \in RequestState  BY <1>1 DEF RequestState, Counters, Operations
<1>3. x.pc = "members" /\ x.op = "grant" /\ x.id = ro /\ x.result = "none"
  BY <1>1 DEF RequestState
<1>4. Answer(r, "rejected") \/ Become(r, x)  BY DEF Grant
<1> HIDE DEF x
<1>5. Route(x)  BY <1>3 DEF Route
<1>6. CASE Answer(r, "rejected")  BY <1>1, <1>6, AnswerCall DEF Results
<1>7. CASE Become(r, x)
  BY <1>1, <1>2, <1>3, <1>5, <1>7, Become1 DEF Begun
<1> QED  BY <1>4, <1>6, <1>7

LEMMA RevokeCall ==
  ASSUME CallInv, NEW r \in Requests, NEW ro \in Roles, NEW p \in PermissionIds,
         Revoke(r, ro, p)
  PROVE  Begun(r, "revoke", "members") /\ req'[r].id = ro
<1> DEFINE x == [req[r] EXCEPT !.pc = "members", !.op = "revoke", !.id = ro]
<1>1. /\ req[r] \in RequestState /\ req[r].pc = "new" /\ req[r].op = "none"
      /\ req[r].result = "none"
  BY NewCall DEF Revoke
<1>2. x \in RequestState  BY <1>1 DEF RequestState, Counters, Operations
<1>3. x.pc = "members" /\ x.op = "revoke" /\ x.id = ro /\ x.result = "none"
  BY <1>1 DEF RequestState
<1>4. Become(r, x)  BY DEF Revoke
<1> HIDE DEF x
<1>5. Route(x)  BY <1>3 DEF Route
<1> QED  BY <1>1, <1>2, <1>3, <1>4, <1>5, Become1 DEF Begun

LEMMA UpdateRoleCall ==
  ASSUME CallInv, NEW r \in Requests, NEW ro \in Roles, NEW given \in BOOLEAN,
         NEW list \in SUBSET PermissionIds, NEW type \in {"keep", "super", "plain"},
         UpdateRole(r, ro, given, list, type)
  PROVE  Begun(r, "role", "clear") \/ Begun(r, "role", "row")
<1> DEFINE x == [req[r] EXCEPT !.pc = IF given THEN "clear" ELSE "row", !.op = "role",
                   !.id = ro, !.given = given, !.list = list, !.type = type]
<1>1. /\ req[r] \in RequestState /\ req[r].pc = "new" /\ req[r].op = "none"
      /\ req[r].result = "none"
  BY NewCall DEF UpdateRole
<1>2. x \in RequestState
  <2>1. (IF given THEN "clear" ELSE "row") \in Counters /\ "role" \in Operations
    BY DEF Counters, Operations
  <2> QED  BY <1>1, <2>1 DEF RequestState
<1>3. /\ x.op = "role" /\ x.id = ro /\ x.result = "none" /\ x.list = list
      /\ x.given = given /\ x.pc = IF given THEN "clear" ELSE "row"
  BY <1>1 DEF RequestState
<1>4. Become(r, x)  BY DEF UpdateRole
<1> HIDE DEF x
<1>5. Route(x)  BY <1>3 DEF Route
<1> QED  BY <1>1, <1>2, <1>3, <1>4, <1>5, Become1 DEF Begun

LEMMA ClearCall ==
  ASSUME CallInv, NEW r \in Requests, Clear(r)
  PROVE  /\ Moved(r) /\ req[r].pc = "clear" /\ req[r].op = "role" /\ req[r].id \in Roles
         /\ req'[r].pc = (IF req[r].list = {} THEN "row" ELSE "fill")
         /\ req'[r].cleared = (req[r].list # {})
<1> DEFINE x == [req[r] EXCEPT !.pc = IF req[r].list = {} THEN "row" ELSE "fill",
                   !.cleared = req[r].list # {}]
<1>1. /\ req[r] \in RequestState /\ req[r].pc = "clear" /\ Route(req[r])
  BY DEF CallInv, Calls, Clear, At
<1>2. x \in RequestState
  <2>1. (IF req[r].list = {} THEN "row" ELSE "fill") \in Counters  BY DEF Counters
  <2> QED  BY <1>1, <2>1 DEF RequestState
<1>3. /\ x.op = req[r].op /\ x.id = req[r].id /\ x.result = req[r].result
      /\ x.list = req[r].list /\ x.given = req[r].given
      /\ x.pc = (IF req[r].list = {} THEN "row" ELSE "fill")
      /\ x.cleared = (req[r].list # {})
  BY <1>1 DEF RequestState
<1>4. Kept(req[r], x)  BY <1>1 DEF RequestState, Kept
<1>5. Become(r, x)  BY DEF Clear
<1> HIDE DEF x
<1>6. Route(x) /\ req[r].op = "role" /\ req[r].id \in Roles  BY <1>1, <1>3 DEF Route
<1>7. Moved(r) /\ req'[r] = x
  BY <1>1, <1>2, <1>3, <1>4, <1>5, <1>6, Become1
<1> QED  BY <1>1, <1>3, <1>6, <1>7

LEMMA FillCall ==
  ASSUME CallInv, NEW r \in Requests, Fill(r)
  PROVE  /\ req[r].pc = "fill" /\ req[r].op = "role" /\ req[r].id \in Roles
         /\ req[r].list \subseteq PermissionIds
         /\ \/ Ended(r, "rejected")
            \/ Moved(r) /\ req'[r].pc = "row" /\ ~req'[r].cleared
<1> DEFINE x == [req[r] EXCEPT !.pc = "row", !.cleared = FALSE]
<1>1. /\ req[r] \in RequestState /\ req[r].pc = "fill" /\ Route(req[r])
  BY DEF CallInv, Calls, Fill, At
<1>2. x \in RequestState  BY <1>1 DEF RequestState, Counters
<1>3. /\ x.op = req[r].op /\ x.id = req[r].id /\ x.result = req[r].result
      /\ x.list = req[r].list /\ x.given = req[r].given
      /\ x.pc = "row" /\ x.cleared = FALSE
  BY <1>1 DEF RequestState
<1>4. Kept(req[r], x)  BY <1>1 DEF RequestState, Kept
<1>5. Answer(r, "rejected") \/ Become(r, x)  BY DEF Fill
<1> HIDE DEF x
<1>6. /\ Route(x) /\ req[r].op = "role" /\ req[r].id \in Roles
      /\ req[r].list \subseteq PermissionIds
  BY <1>1, <1>3 DEF Route
<1>7. CASE Answer(r, "rejected")  BY <1>1, <1>6, <1>7, AnswerCall DEF Results
<1>8. CASE Become(r, x)
  BY <1>1, <1>2, <1>3, <1>4, <1>6, <1>8, Become1
<1> QED  BY <1>1, <1>5, <1>6, <1>7, <1>8

LEMMA RoleRowCall ==
  ASSUME CallInv, NEW r \in Requests, RoleRow(r)
  PROVE  /\ req[r].pc = "row" /\ req[r].op = "role" /\ req[r].id \in Roles
         /\ IF req[r].given THEN Went(r, "members") ELSE Ended(r, "ok")
<1>1. req[r].pc = "row" /\ req[r].op = "role" /\ req[r].id \in Roles
  BY DEF CallInv, Calls, RoleRow, At, Route
<1>2. CASE req[r].given /\ Go(r, "members")  BY <1>1, <1>2, GoCall
<1>3. CASE ~req[r].given /\ Answer(r, "ok")  BY <1>1, <1>3, AnswerCall DEF Results
<1> QED  BY <1>1, <1>2, <1>3 DEF RoleRow

LEMMA ReadMembersCall ==
  ASSUME CallInv, NEW r \in Requests, ReadMembers(r)
  PROVE  /\ Moved(r) /\ req[r].pc = "members" /\ req'[r].pc = "tell"
         /\ req[r].op \in {"grant", "revoke", "role"} /\ req[r].id \in Roles
         /\ req'[r].who = Members(req[r].id) /\ req'[r].cleared = req[r].cleared
<1> DEFINE who == Members(req[r].id)
           x == [req[r] EXCEPT !.pc = "tell", !.who = who]
<1>1. /\ req[r] \in RequestState /\ req[r].pc = "members" /\ Route(req[r])
      /\ who \subseteq Users
  BY DEF CallInv, Calls, ReadMembers, At, Members
<1>2. Become(r, x)  BY DEF ReadMembers
<1> HIDE DEF who
<1>3. x \in RequestState  BY <1>1 DEF RequestState, Counters
<1>4. /\ x.op = req[r].op /\ x.id = req[r].id /\ x.result = req[r].result
      /\ x.pc = "tell" /\ x.who = who /\ x.cleared = req[r].cleared
  BY <1>1 DEF RequestState
<1>5. req[r].op \in {"grant", "revoke", "role"} /\ req[r].id \in Roles  BY <1>1 DEF Route
<1>6. Kept(req[r], x)  BY <1>1, <1>5 DEF RequestState, Kept
<1> HIDE DEF x
<1>7. Route(x)  BY <1>1, <1>4, <1>5 DEF Route
<1>8. Moved(r) /\ req'[r] = x  BY <1>1, <1>2, <1>3, <1>4, <1>6, <1>7, Become1
<1> QED  BY <1>1, <1>4, <1>5, <1>8 DEF who

LEMMA TellCall ==
  ASSUME CallInv, NEW r \in Requests, Tell(r)
  PROVE  req[r].pc = "tell" /\ Ended(r, "ok")
<1>1. req[r].pc = "tell" /\ req[r].op # "seed"  BY DEF CallInv, Calls, Tell, At, Route
<1> QED  BY <1>1, AnswerCall DEF Tell, Results

LEMMA AssignCall ==
  ASSUME CallInv, NEW r \in Requests, NEW u \in Users, NEW ro \in Roles,
         Assign(r, u, ro) \/ Unassign(r, u, ro)
  PROVE  \/ Ended(r, "rejected")
         \/ Begun(r, "assign", "give") \/ Begun(r, "unassign", "take")
<1>1. /\ req[r] \in RequestState /\ req[r].pc = "new" /\ req[r].op = "none"
      /\ req[r].result = "none"
  BY NewCall DEF Assign, Unassign, Look
<1>2. ASSUME NEW op \in {"assign", "unassign"}, NEW pc \in {"give", "take"},
             Become(r, [req[r] EXCEPT !.pc = pc, !.op = op, !.id = ro, !.who = {u}])
      PROVE  Begun(r, op, pc)
  <2> DEFINE x == [req[r] EXCEPT !.pc = pc, !.op = op, !.id = ro, !.who = {u}]
  <2>1. x \in RequestState  BY <1>1 DEF RequestState, Counters, Operations
  <2>2. x.pc = pc /\ x.op = op /\ x.id = ro /\ x.result = "none"
    BY <1>1 DEF RequestState
  <2>3. Become(r, x)  BY <1>2
  <2> HIDE DEF x
  <2>4. Route(x)  BY <2>2 DEF Route
  <2> QED  BY <1>1, <2>1, <2>2, <2>3, <2>4, Become1 DEF Begun
<1>3. CASE Answer(r, "rejected")
  BY <1>1, <1>3, AnswerCall DEF Results
<1>4. CASE ~Answer(r, "rejected")
  BY <1>2, <1>4 DEF Assign, Unassign, Look
<1> QED  BY <1>3, <1>4

LEMMA AssignRoleCall ==
  ASSUME CallInv, NEW r \in Requests, AssignRole(r) \/ UnassignRole(r)
  PROVE  /\ req[r].pc \in {"give", "take"} /\ req[r].op \in {"assign", "unassign"}
         /\ req[r].id \in Roles /\ req[r].who \in SUBSET Users
         /\ Went(r, "tell")
<1>1. /\ req[r].pc \in {"give", "take"} /\ req[r].op \in {"assign", "unassign"}
      /\ req[r].id \in Roles /\ req[r].who \in SUBSET Users
  BY DEF AssignRole, UnassignRole, At, CallInv, Calls, Route, RequestState
<1> QED  BY <1>1, GoCall DEF AssignRole, UnassignRole

LEMMA UpdateUserCall ==
  ASSUME CallInv, NEW r \in Requests, NEW u \in Users, NEW list \in SUBSET Roles,
         NEW f \in {"keep", "on", "off"}, UpdateUser(r, u, list, f)
  PROVE  /\ Begun(r, "user", req'[r].pc) /\ req'[r].before = {}
         /\ req'[r].pc = "types" \/ req'[r].flag = "keep"
<1> DEFINE pc == IF f = "keep" THEN AfterTypes(list) ELSE "types"
           x == [req[r] EXCEPT !.op = "user", !.list = list, !.flag = f, !.was = flag[u],
                   !.who = {u}, !.pc = pc]
<1>1. /\ req[r] \in RequestState /\ req[r].pc = "new" /\ req[r].op = "none"
      /\ req[r].result = "none" /\ req[r] = NewRequest
  BY NewCall DEF UpdateUser
<1>2. /\ pc \in Counters /\ "user" \in Operations /\ flag[u] \in {"on", "off"}
      /\ pc \in {"types", "unassign", "user"} /\ (pc = "unassign" => list # {})
      /\ pc = "types" \/ f = "keep"
  BY DEF Counters, Operations, AfterTypes, CallInv, Tables
<1>3. Become(r, x)  BY DEF UpdateUser
<1> HIDE DEF pc
<1>4. x \in RequestState  BY <1>1, <1>2 DEF RequestState
<1>5. /\ x.pc = pc /\ x.op = "user" /\ x.who = {u} /\ x.result = "none"
      /\ x.list = list /\ x.flag = f /\ x.before = req[r].before
  BY <1>1 DEF RequestState
<1> HIDE DEF x
<1>6. Route(x)  BY <1>2, <1>5 DEF Route
<1>7. Moved(r) /\ req'[r] = x
  BY <1>1, <1>2, <1>3, <1>4, <1>5, <1>6, Become1
<1>8. req[r].before = {}  BY <1>1 DEF NewRequest
<1> QED  BY <1>1, <1>2, <1>5, <1>7, <1>8 DEF Begun

\* The user whom a request on one user is about.
LEMMA TheUser ==
  ASSUME CallInv, NEW r \in Requests, req[r].op = "user"
  PROVE  UserOf(r) \in Users /\ req[r].who = {UserOf(r)}
<1>1. PICK u \in Users : req[r].who = {u}  BY DEF CallInv, Calls, Route
<1>2. \A v \in Users : v \in req[r].who <=> v = u  BY <1>1
<1> QED  BY <1>1, <1>2 DEF UserOf

LEMMA CheckTypesCall ==
  ASSUME CallInv, NEW r \in Requests, CheckTypes(r)
  PROVE  /\ req[r].pc = "types" /\ req[r].op = "user"
         /\ \/ Ended(r, "rejected")
            \/ /\ Moved(r) /\ req'[r].pc = AfterTypes(req[r].list)
               /\ req'[r].before = promoted[UserOf(r)]
               /\ req'[r].cleared = req[r].cleared
               /\ req[r].list = {} => ~SuperAdmin(UserOf(r))
<1> DEFINE pc == AfterTypes(req[r].list)
           before == promoted[UserOf(r)]
           x == [req[r] EXCEPT !.pc = pc, !.before = before]
<1>1. /\ req[r] \in RequestState /\ req[r].pc = "types" /\ Route(req[r])
      /\ req[r].op = "user"
  BY DEF CallInv, Calls, CheckTypes, At, Route
<1>2. /\ pc \in Counters /\ before \in SUBSET Requests
      /\ pc \in {"unassign", "user"} /\ (pc = "unassign" => req[r].list # {})
  BY <1>1, TheUser DEF Counters, AfterTypes, CallInv, Tables
<1>3. \/ Answer(r, "rejected")
      \/ Become(r, x) /\ (req[r].list = {} => ~SuperAdmin(UserOf(r)))
  BY DEF CheckTypes
<1> HIDE DEF pc, before
<1>4. x \in RequestState  BY <1>1, <1>2 DEF RequestState
<1>5. /\ x.pc = pc /\ x.op = req[r].op /\ x.who = req[r].who
      /\ x.result = req[r].result /\ x.cleared = req[r].cleared
      /\ x.list = req[r].list /\ x.before = before
  BY <1>1 DEF RequestState
<1>6. Kept(req[r], x)  BY <1>1 DEF RequestState, Kept
<1> HIDE DEF x
<1>7. Route(x)  BY <1>1, <1>2, <1>5 DEF Route
<1>8. CASE Answer(r, "rejected")  BY <1>1, <1>8, AnswerCall DEF Results
<1>9. CASE Become(r, x) /\ (req[r].list = {} => ~SuperAdmin(UserOf(r)))
  <2>1. Moved(r) /\ req'[r] = x
    BY <1>1, <1>2, <1>4, <1>5, <1>6, <1>7, <1>9, Become1
  <2> QED  BY <1>1, <1>5, <1>9, <2>1 DEF pc, before
<1> QED  BY <1>1, <1>3, <1>8, <1>9

LEMMA UserCalls ==
  ASSUME CallInv, NEW r \in Requests
  PROVE  /\ ClearRoles(r) =>
              req[r].pc = "unassign" /\ req[r].op = "user" /\ Went(r, "roles")
         /\ FillRoles(r) =>
              req[r].pc = "roles" /\ req[r].op = "user" /\ Went(r, "user")
         /\ UserRow(r) =>
              /\ req[r].pc = "user" /\ req[r].op = "user"
              /\ IF req[r].list # {} \/ req[r].flag \notin {"keep", req[r].was}
                 THEN Went(r, "tell") ELSE Ended(r, "ok")
<1>1. Route(req[r])  BY DEF CallInv, Calls
<1>2. ASSUME ClearRoles(r)
      PROVE  req[r].pc = "unassign" /\ req[r].op = "user" /\ Went(r, "roles")
  BY <1>1, <1>2, GoCall DEF Route, ClearRoles, At
<1>3. ASSUME FillRoles(r)
      PROVE  req[r].pc = "roles" /\ req[r].op = "user" /\ Went(r, "user")
  BY <1>1, <1>3, GoCall DEF Route, FillRoles, At
<1>4. ASSUME UserRow(r)
      PROVE  /\ req[r].pc = "user" /\ req[r].op = "user"
             /\ IF req[r].list # {} \/ req[r].flag \notin {"keep", req[r].was}
                THEN Went(r, "tell") ELSE Ended(r, "ok")
  BY <1>1, <1>4, GoCall, AnswerCall DEF Route, UserRow, At, Results
<1> QED  BY <1>2, <1>3, <1>4

LEMMA SeedCall ==
  ASSUME CallInv, NEW r \in Requests, Seed(r)
  PROVE  /\ Begun(r, "seed", "seedGrants") /\ req'[r].list = SeedRoles
         /\ req'[r].before = {s \in Requests : At(s, "done")}
<1> DEFINE before == {s \in Requests : At(s, "done")}
           x == [req[r] EXCEPT !.pc = "seedGrants", !.op = "seed", !.list = SeedRoles,
                   !.before = before]
<1>1. /\ req[r] \in RequestState /\ req[r].pc = "new" /\ req[r].op = "none"
      /\ req[r].result = "none" /\ before \in SUBSET Requests
  BY NewCall DEF Seed
<1>2. Become(r, x)  BY DEF Seed
<1> HIDE DEF before
<1>3. x \in RequestState  BY <1>1, SeedOfNames DEF RequestState, Counters, Operations
<1>4. /\ x.pc = "seedGrants" /\ x.op = "seed" /\ x.list = SeedRoles
      /\ x.result = "none" /\ x.before = before
  BY <1>1 DEF RequestState
<1> HIDE DEF x
<1>5. Route(x)  BY <1>4 DEF Route
<1> QED  BY <1>1, <1>2, <1>3, <1>4, <1>5, Become1 DEF Begun, before

LEMMA SeedGrantCall ==
  ASSUME CallInv, NEW r \in Requests, NEW ro \in Roles, SeedGrant(r, ro)
  PROVE  /\ Moved(r) /\ req[r].pc = "seedGrants" /\ req[r].op = "seed"
         /\ req'[r].list = req[r].list \ {ro}
         /\ IF req'[r].list = {} THEN req'[r].pc = "done" ELSE req'[r].pc = "seedGrants"
<1> DEFINE left == req[r].list \ {ro}
           x == [req[r] EXCEPT !.list = left, !.pc = IF left = {} THEN "done" ELSE @,
                   !.result = IF left = {} THEN "ok" ELSE @]
<1>1. /\ req[r] \in RequestState /\ req[r].pc = "seedGrants" /\ Route(req[r])
      /\ req[r].op = "seed" /\ req[r].result = "none"
  BY DEF CallInv, Calls, SeedGrant, At, Route
<1>2. Become(r, x)  BY DEF SeedGrant, Seeded
<1>3. left \in SUBSET (PermissionIds \cup Roles)  BY <1>1 DEF RequestState
<1> HIDE DEF left
<1>4. x \in RequestState  BY <1>1, <1>3 DEF RequestState, Counters, Results
<1>5. /\ x.op = req[r].op /\ x.list = left
      /\ x.pc = (IF left = {} THEN "done" ELSE req[r].pc)
      /\ x.result = (IF left = {} THEN "ok" ELSE req[r].result)
  BY <1>1 DEF RequestState
<1>6. Kept(req[r], x)  BY <1>1 DEF RequestState, Kept
<1> HIDE DEF x
<1>7. Route(x)  BY <1>1, <1>5 DEF Route
<1>8. Moved(r) /\ req'[r] = x
  BY <1>1, <1>2, <1>4, <1>5, <1>6, <1>7, Become1
<1> QED  BY <1>1, <1>5, <1>8 DEF left

LEMMA FailCall ==
  ASSUME CallInv, NEW r \in Requests, Fail(r)
  PROVE  Ended(r, "failed") /\ req[r].pc # "new"
<1>1. req[r].pc # "done" /\ req[r].pc # "new" /\ Route(req[r])
  BY DEF CallInv, Calls, Fail, InFlight, At
<1> QED  BY <1>1, AnswerCall DEF Fail, Results, Route

----------------------------------------------------------------------------
(***************************************************************************)
(* The tables.                                                             *)
(***************************************************************************)
LEMMA TouchTable ==
  ASSUME CallInv, NEW r \in Requests, NEW T \in SUBSET Users, Touch(r, T)
  PROVE  /\ stale' \in [Users -> SUBSET Requests]
         /\ \A u \in Users : stale'[u] = IF u \in T THEN stale[u] \cup {r} ELSE stale[u]
  BY DEF CallInv, Tables, Touch

LEMMA PromoteTable ==
  ASSUME CallInv, NEW r \in Requests, Promote(r)
  PROVE  /\ promoted' \in [Users -> SUBSET Requests]
         /\ \A u \in Users :
              /\ promoted'[u] = promoted[u] \/ promoted'[u] = promoted[u] \cup {r}
              /\ SuperAdmin(u)' => SuperAdmin(u) \/ r \in promoted'[u]
<1> DEFINE made(u) == ~SuperAdmin(u) /\ SuperAdmin(u)'
<1>1. promoted' = [u \in Users |-> IF made(u) THEN promoted[u] \cup {r} ELSE promoted[u]]
  BY DEF Promote
<1>2. promoted \in [Users -> SUBSET Requests]  BY DEF CallInv, Tables
<1>3. ASSUME NEW u \in Users, SuperAdmin(u)' PROVE SuperAdmin(u) \/ made(u)
  BY <1>3
<1> HIDE DEF made
<1>4. \A u \in Users : promoted'[u] = IF made(u) THEN promoted[u] \cup {r} ELSE promoted[u]
  BY <1>1
<1>5. promoted' \in [Users -> SUBSET Requests]  BY <1>1, <1>2
<1> QED  BY <1>3, <1>4, <1>5

LEMMA PeopleOfRole ==
  ASSUME NEW ro, NEW p PROVE
    Members(ro) \in SUBSET Users /\ UNION {Members(o) : o \in Holders(p)} \in SUBSET Users
  BY DEF Members

\* A step that changes no permission's row and grants only what exists.
LEMMA RowsStay ==
  ASSUME CallInv, NEW r \in Requests, Moved(r), name' = name,
         \A g \in grant' : g \in grant \/ name[g[2]] # NULL
  PROVE  Rows'
<1>1. ASSUME NEW s \in Requests, req'[s].pc \in {"new", "insert"} PROVE name[s] = NULL
  <2>1. req[s].pc \in {"new", "insert"}  BY <1>1 DEF Moved, Others
  <2> QED  BY <2>1 DEF CallInv, Rows
<1> QED  BY <1>1 DEF CallInv, Rows

\* A step that looks, answers or begins, and writes nothing.
LEMMA LookKeeps ==
  ASSUME CallInv, NEW r \in Requests, Moved(r), UNCHANGED <<tables, shown, history>>,
         hinted' \subseteq Users, faults' \in Nat
  PROVE  CallInv'
<1>1. Tables'  BY DEF CallInv, Tables, tables, people, history
<1>2. Rows'  BY RowsStay DEF tables
<1> QED  BY <1>1, <1>2 DEF CallInv, Moved

\* A step that writes the tables of the people.
LEMMA PeopleKeeps ==
  ASSUME CallInv, NEW r \in Requests, Moved(r), UNCHANGED <<name, grant, due>>, Quiet,
         member' \subseteq Users \X Roles, supers' \subseteq Roles,
         flag' \in [Users -> {"on", "off"}], stale' \in [Users -> SUBSET Requests],
         promoted' \in [Users -> SUBSET Requests]
  PROVE  CallInv'
<1>1. Tables'  BY DEF CallInv, Tables, Quiet, screens
<1>2. Rows'  BY RowsStay
<1> QED  BY <1>1, <1>2 DEF CallInv, Moved

\* A step that writes the table of grants.
LEMMA GrantsKeeps ==
  ASSUME CallInv, NEW r \in Requests, Moved(r), UNCHANGED <<name, people, promoted>>, Quiet,
         grant' \subseteq Roles \X PermissionIds, due' \subseteq Roles \X PermissionIds,
         \A g \in grant' : g \in grant \/ name[g[2]] # NULL,
         stale' \in [Users -> SUBSET Requests]
  PROVE  CallInv'
<1>1. Tables'  BY DEF CallInv, Tables, Quiet, screens, people
<1>2. Rows'  BY RowsStay
<1> QED  BY <1>1, <1>2 DEF CallInv, Moved

LEMMA LookSteps ==
  ASSUME CallInv, NEW r \in Requests,
         \/ \E n \in Names : CreatePermission(r, n)
                               \/ \E p \in PermissionIds : UpdatePermission(r, p, n)
         \/ \E p \in PermissionIds : RemovePermission(r, p)
         \/ \E ro \in Roles, given \in BOOLEAN, list \in SUBSET PermissionIds,
               type \in {"keep", "super", "plain"} : UpdateRole(r, ro, given, list, type)
         \/ \E u \in Users, list \in SUBSET Roles, f \in {"keep", "on", "off"} :
              UpdateUser(r, u, list, f)
         \/ \E u \in Users, ro \in Roles : Assign(r, u, ro) \/ Unassign(r, u, ro)
         \/ ReadMembers(r) \/ CheckTypes(r) \/ Fail(r) \/ Tell(r)
  PROVE  Moved(r) /\ UNCHANGED <<tables, shown, history>> /\ CallInv'
<1>1. Moved(r)
  BY CreatePermissionCall, UpdatePermissionCall, RemovePermissionCall, UpdateRoleCall,
     UpdateUserCall, AssignCall, ReadMembersCall, CheckTypesCall, FailCall, TellCall
  DEF Ended, Begun
<1>2. UNCHANGED <<tables, shown, history>> /\ hinted' \subseteq Users /\ faults' \in Nat
  <2>1. CASE Fail(r)
    BY <2>1, FaultBound DEF Fail, CallInv, Tables, screens
  <2>2. CASE Tell(r)
    <3>1. req[r].who \subseteq Users  BY DEF CallInv, Calls, RequestState
    <3> QED  BY <2>2, <3>1 DEF Tell, CallInv, Tables
  <2>3. CASE UNCHANGED <<tables, history>> /\ Quiet
    BY <2>3 DEF Quiet, screens, CallInv, Tables
  <2> QED
    BY <2>1, <2>2, <2>3
    DEF CreatePermission, UpdatePermission, RemovePermission, UpdateRole, UpdateUser,
        Assign, Unassign, Look, ReadMembers, CheckTypes
<1> QED  BY <1>1, <1>2, LookKeeps

LEMMA InsertPermissionType ==
  ASSUME CallInv, NEW r \in Requests, InsertPermission(r)
  PROVE  CallInv'
<1>1. /\ Moved(r) /\ req'[r].pc = "done" /\ req[r].pc = "insert" /\ name[r] = NULL
      /\ req[r].name \in Names /\ r \in PermissionIds
  BY InsertPermissionCall
  DEF Ended, CallInv, Rows, Calls, Route, PermissionIds
<1>2. /\ name' = name \/ name' = [name EXCEPT ![r] = req[r].name]
      /\ UNCHANGED <<grant, people, history>> /\ Quiet
  BY DEF InsertPermission
<1>3. Tables'
  BY <1>1, <1>2 DEF CallInv, Tables, Quiet, people, history, screens
<1>4. \A p \in PermissionIds : name[p] # NULL => name'[p] # NULL
  BY <1>1, <1>2, NullIsNoName DEF CallInv, Tables
<1>5. \A g \in grant' : name'[g[2]] # NULL
  BY <1>2, <1>4 DEF CallInv, Rows, Tables
<1>6. ASSUME NEW s \in Requests, req'[s].pc \in {"new", "insert"} PROVE name'[s] = NULL
  <2>1. s # r /\ req[s].pc \in {"new", "insert"}  BY <1>1, <1>6 DEF Moved, Others
  <2>2. name[s] = NULL /\ s \in PermissionIds  BY <2>1 DEF CallInv, Rows, PermissionIds
  <2> QED  BY <1>2, <2>1, <2>2 DEF CallInv, Tables
<1> QED  BY <1>1, <1>3, <1>5, <1>6 DEF CallInv, Rows, Moved

LEMMA RenameType ==
  ASSUME CallInv, NEW r \in Requests, Rename(r)
  PROVE  CallInv'
<1> DEFINE p == req[r].id
           n == req[r].name
           touched == UNION {Members(ro) : ro \in Holders(p)}
<1>1. Moved(r) /\ p \in PermissionIds /\ n \in Names  BY RenameCall DEF Ended
<1>2. /\ \/ UNCHANGED <<name, stale>>
         \/ name' = [name EXCEPT ![p] = n] /\ name[p] # NULL /\ Touch(r, touched)
      /\ UNCHANGED <<grant, people, due, promoted>> /\ Quiet
  BY <1>1, NullIsNoName DEF Rename
<1>3. touched \in SUBSET Users  BY DEF Members
<1> HIDE DEF p, n, touched
<1>4. stale' \in [Users -> SUBSET Requests]
  BY <1>2, <1>3, TouchTable DEF CallInv, Tables
<1>5. Tables'
  BY <1>1, <1>2, <1>4 DEF CallInv, Tables, Quiet, people, screens
<1>6. \A q \in PermissionIds : name[q] # NULL <=> name'[q] # NULL
  BY <1>1, <1>2, NullIsNoName DEF CallInv, Tables
<1>7. \A g \in grant' : name'[g[2]] # NULL
  BY <1>2, <1>6 DEF CallInv, Rows, Tables
<1>8. ASSUME NEW s \in Requests, req'[s].pc \in {"new", "insert"} PROVE name'[s] = NULL
  <2>1. req[s].pc \in {"new", "insert"}  BY <1>1, <1>8 DEF Moved, Others
  <2> QED  BY <2>1, <1>6 DEF CallInv, Rows, PermissionIds
<1> QED  BY <1>1, <1>5, <1>7, <1>8 DEF CallInv, Rows, Moved

LEMMA DeletePermissionType ==
  ASSUME CallInv, NEW r \in Requests, DeletePermission(r)
  PROVE  CallInv'
<1> DEFINE p == req[r].id
           touched == UNION {Members(ro) : ro \in Holders(p)}
<1>1. Moved(r) /\ p \in PermissionIds  BY DeletePermissionCall DEF Ended
<1>2. /\ \/ UNCHANGED <<name, grant, due, stale>>
         \/ /\ name' = [name EXCEPT ![p] = NULL] /\ Touch(r, touched)
            /\ grant' = grant \ (Roles \X {p}) /\ due' = due \ (Roles \X {p})
      /\ UNCHANGED <<people, promoted>> /\ Quiet
  BY DEF DeletePermission
<1>3. touched \in SUBSET Users  BY DEF Members
<1> HIDE DEF p, touched
<1>4. stale' \in [Users -> SUBSET Requests]
  BY <1>2, <1>3, TouchTable DEF CallInv, Tables
<1>5. Tables'
  BY <1>1, <1>2, <1>4 DEF CallInv, Tables, Quiet, people, screens
<1>6. ASSUME NEW g \in grant' PROVE name'[g[2]] # NULL
  <2>1. g \in grant /\ g \in Roles \X PermissionIds  BY <1>2, <1>6 DEF CallInv, Tables
  <2>2. CASE name' = name  BY <2>1, <2>2 DEF CallInv, Rows
  <2>3. CASE name' = [name EXCEPT ![p] = NULL] /\ grant' = grant \ (Roles \X {p})
    <3>1. g[2] # p  BY <1>6, <2>1, <2>3
    <3> QED  BY <1>1, <2>1, <2>3, <3>1 DEF CallInv, Rows, Tables
  <2> QED  BY <1>2, <2>2, <2>3
<1>7. ASSUME NEW s \in Requests, req'[s].pc \in {"new", "insert"} PROVE name'[s] = NULL
  <2>1. req[s].pc \in {"new", "insert"}  BY <1>1, <1>7 DEF Moved, Others
  <2>2. name[s] = NULL /\ s \in PermissionIds  BY <2>1 DEF CallInv, Rows, PermissionIds
  <2> QED  BY <1>2, <2>2 DEF CallInv, Tables
<1> QED  BY <1>1, <1>5, <1>6, <1>7 DEF CallInv, Rows, Moved

LEMMA GrantType ==
  ASSUME CallInv, NEW r \in Requests, NEW ro \in Roles, NEW p \in PermissionIds,
         Grant(r, ro, p) \/ Revoke(r, ro, p)
  PROVE  CallInv'
<1>1. Moved(r)  BY GrantCall, RevokeCall DEF Ended, Begun
<1>2. Members(ro) \in SUBSET Users  BY PeopleOfRole
<1>3. CASE UNCHANGED <<grant, due, stale>> /\ Grant(r, ro, p)
  BY <1>1, <1>3, GrantsKeeps DEF Grant, CallInv, Tables
<1>4. CASE Grant(r, ro, p) /\ Touch(r, Members(ro)) /\ name[p] # NULL
             /\ grant' = grant \cup {<<ro, p>>} /\ due' = due \cup {<<ro, p>>}
  <2>1. stale' \in [Users -> SUBSET Requests]  BY <1>2, <1>4, TouchTable
  <2>2. \A g \in grant' : g \in grant \/ name[g[2]] # NULL  BY <1>4
  <2>3. grant' \subseteq Roles \X PermissionIds /\ due' \subseteq Roles \X PermissionIds
    BY <1>4 DEF CallInv, Tables
  <2> QED  BY <1>1, <1>4, <2>1, <2>2, <2>3, GrantsKeeps DEF Grant
<1>5. CASE Revoke(r, ro, p)
  <2>1. stale' \in [Users -> SUBSET Requests]  BY <1>2, <1>5, TouchTable DEF Revoke
  <2>2. /\ grant' \subseteq grant /\ due' \subseteq due
        /\ UNCHANGED <<name, people, promoted>> /\ Quiet
    BY <1>5 DEF Revoke
  <2>3. grant' \subseteq Roles \X PermissionIds /\ due' \subseteq Roles \X PermissionIds
    BY <2>2 DEF CallInv, Tables
  <2> QED  BY <1>1, <2>1, <2>2, <2>3, GrantsKeeps
<1> QED  BY <1>3, <1>4, <1>5 DEF Grant

LEMMA ClearType ==
  ASSUME CallInv, NEW r \in Requests, Clear(r)
  PROVE  CallInv'
<1>1. Moved(r) /\ req[r].id \in Roles  BY ClearCall
<1>2. Members(req[r].id) \in SUBSET Users  BY PeopleOfRole
<1>3. stale' \in [Users -> SUBSET Requests]  BY <1>2, TouchTable DEF Clear
<1>4. /\ grant' \subseteq grant /\ due' \subseteq due
      /\ UNCHANGED <<name, people, promoted>> /\ Quiet
  BY DEF Clear
<1>5. grant' \subseteq Roles \X PermissionIds /\ due' \subseteq Roles \X PermissionIds
  BY <1>4 DEF CallInv, Tables
<1> QED  BY <1>1, <1>3, <1>4, <1>5, GrantsKeeps

LEMMA FillType ==
  ASSUME CallInv, NEW r \in Requests, Fill(r)
  PROVE  CallInv'
<1> DEFINE ro == req[r].id
           list == req[r].list
<1>1. Moved(r) /\ ro \in Roles /\ list \subseteq PermissionIds  BY FillCall DEF Ended
<1>2. Members(ro) \in SUBSET Users  BY PeopleOfRole
<1>3. UNCHANGED <<name, people, promoted>> /\ Quiet  BY DEF Fill
<1>4. \/ UNCHANGED <<grant, due, stale>>
      \/ /\ \A p \in list : name[p] # NULL
         /\ grant' = grant \cup ({ro} \X list) /\ Touch(r, Members(ro))
         /\ due' = (due \ ({ro} \X PermissionIds)) \cup ({ro} \X list)
  BY DEF Fill
<1> HIDE DEF ro, list
<1>5. stale' \in [Users -> SUBSET Requests]
  BY <1>2, <1>4, TouchTable DEF CallInv, Tables
<1>6. grant' \subseteq Roles \X PermissionIds /\ due' \subseteq Roles \X PermissionIds
  BY <1>1, <1>4 DEF CallInv, Tables
<1>7. \A g \in grant' : g \in grant \/ name[g[2]] # NULL  BY <1>4
<1> QED  BY <1>1, <1>3, <1>5, <1>6, <1>7, GrantsKeeps

LEMMA RoleRowType ==
  ASSUME CallInv, NEW r \in Requests, RoleRow(r)
  PROVE  CallInv'
<1> DEFINE ro == req[r].id
           touched == IF req[r].type = "keep" THEN {} ELSE Members(ro)
<1>1. Moved(r) /\ ro \in Roles /\ req[r].type \in {"keep", "super", "plain"}
  BY RoleRowCall DEF Ended, Went, CallInv, Calls, RequestState
<1>2. touched \in SUBSET Users  BY PeopleOfRole
<1>3. /\ UNCHANGED <<name, grant, due, member, flag>> /\ Quiet
      /\ Touch(r, touched) /\ Promote(r)
  BY DEF RoleRow, WriteRole
<1>4. supers' \subseteq Roles  BY <1>1 DEF RoleRow, WriteRole, CallInv, Tables
<1> HIDE DEF touched
<1>5. /\ stale' \in [Users -> SUBSET Requests]
      /\ promoted' \in [Users -> SUBSET Requests]
  BY <1>2, <1>3, TouchTable, PromoteTable
<1> QED  BY <1>1, <1>3, <1>4, <1>5, PeopleKeeps DEF CallInv, Tables

LEMMA AssignType ==
  ASSUME CallInv, NEW r \in Requests, AssignRole(r) \/ UnassignRole(r)
  PROVE  CallInv'
<1>1. Moved(r) /\ req[r].id \in Roles /\ req[r].who \in SUBSET Users
  BY AssignRoleCall DEF Went
<1>2. /\ UNCHANGED <<name, grant, supers, flag, due>> /\ Quiet
      /\ Touch(r, req[r].who) /\ (UNCHANGED promoted \/ Promote(r))
  BY DEF AssignRole, UnassignRole
<1>3. member' \subseteq Users \X Roles
  BY <1>1 DEF AssignRole, UnassignRole, CallInv, Tables
<1>4. /\ stale' \in [Users -> SUBSET Requests]
      /\ promoted' \in [Users -> SUBSET Requests]
  BY <1>1, <1>2, TouchTable, PromoteTable DEF CallInv, Tables
<1> QED  BY <1>1, <1>2, <1>3, <1>4, PeopleKeeps DEF CallInv, Tables

LEMMA UserStepsType ==
  ASSUME CallInv, NEW r \in Requests, ClearRoles(r) \/ FillRoles(r) \/ UserRow(r)
  PROVE  CallInv'
<1> DEFINE who == req[r].who
<1>1. Moved(r)  BY UserCalls DEF Ended, Went
<1>2. /\ who \in SUBSET Users /\ req[r].flag \in {"keep", "on", "off"}
      /\ FillRoles(r) => req[r].list \subseteq Roles
  BY DEF CallInv, Calls, RequestState, Route, FillRoles, At
<1>3. UNCHANGED <<name, grant, due>> /\ Quiet /\ supers' = supers
  BY DEF ClearRoles, FillRoles, UserRow
<1>4. member' \subseteq Users \X Roles
  BY <1>2 DEF ClearRoles, FillRoles, UserRow, CallInv, Tables
<1>5. flag' \in [Users -> {"on", "off"}]
  BY <1>2 DEF ClearRoles, FillRoles, UserRow, CallInv, Tables
<1>6. Touch(r, who) \/ Touch(r, {})
  BY DEF ClearRoles, FillRoles, UserRow
<1>7. UNCHANGED promoted \/ Promote(r)
  BY DEF ClearRoles, FillRoles, UserRow
<1> HIDE DEF who
<1>8. /\ stale' \in [Users -> SUBSET Requests]
      /\ promoted' \in [Users -> SUBSET Requests]
  BY <1>2, <1>6, <1>7, TouchTable, PromoteTable DEF CallInv, Tables
<1> QED  BY <1>1, <1>3, <1>4, <1>5, <1>8, PeopleKeeps DEF CallInv, Tables

LEMMA SeedType ==
  ASSUME CallInv, NEW r \in Requests, Seed(r)
  PROVE  CallInv'
<1>1. /\ Moved(r) /\ req'[r].pc = "seedGrants" /\ req[r].pc = "new" /\ name[r] = NULL
      /\ r \in PermissionIds
  BY SeedCall DEF Begun, CallInv, Rows, PermissionIds
<1>2. /\ name' = name \/ name' = [name EXCEPT ![r] = SeedName]
      /\ UNCHANGED <<grant, people, history>> /\ Quiet
  BY DEF Seed
<1>3. Tables'
  BY <1>1, <1>2, SeedOfNames DEF CallInv, Tables, Quiet, people, history, screens
<1>4. \A p \in PermissionIds : name[p] # NULL => name'[p] # NULL
  BY <1>1, <1>2, NullIsNoName, SeedOfNames DEF CallInv, Tables
<1>5. \A g \in grant' : name'[g[2]] # NULL
  BY <1>2, <1>4 DEF CallInv, Rows, Tables
<1>6. ASSUME NEW s \in Requests, req'[s].pc \in {"new", "insert"} PROVE name'[s] = NULL
  <2>1. s # r /\ req[s].pc \in {"new", "insert"}  BY <1>1, <1>6 DEF Moved, Others
  <2>2. name[s] = NULL /\ s \in PermissionIds  BY <2>1 DEF CallInv, Rows, PermissionIds
  <2> QED  BY <1>2, <2>1, <2>2 DEF CallInv, Tables
<1> QED  BY <1>1, <1>3, <1>5, <1>6 DEF CallInv, Rows, Moved

LEMMA SeedGrantType ==
  ASSUME CallInv, NEW r \in Requests, NEW ro \in Roles, SeedGrant(r, ro)
  PROVE  CallInv'
<1> DEFINE found == {p \in PermissionIds : name[p] = SeedName}
<1>1. Moved(r)  BY SeedGrantCall
<1>2. Members(ro) \in SUBSET Users  BY PeopleOfRole
<1>3. stale' \in [Users -> SUBSET Requests]  BY <1>2, TouchTable DEF SeedGrant
<1>4. /\ grant' = grant \cup ({ro} \X found) /\ due' = due \cup ({ro} \X found)
      /\ UNCHANGED <<name, people, promoted>> /\ Quiet
  BY DEF SeedGrant
<1>5. grant' \subseteq Roles \X PermissionIds /\ due' \subseteq Roles \X PermissionIds
  BY <1>4 DEF CallInv, Tables
<1>6. \A g \in grant' : g \in grant \/ name[g[2]] # NULL
  BY <1>4, NullIsNoName, SeedOfNames
<1> QED  BY <1>1, <1>3, <1>4, <1>5, <1>6, GrantsKeeps

LEMMA ReloadType ==
  ASSUME CallInv, NEW u \in Users, Reload(u)
  PROVE  CallInv'
<1>1. UNCHANGED <<tables, req, due, promoted, faults>>  BY DEF Reload
<1>2. Tables'
  BY <1>1 DEF Reload, CallInv, Tables, tables, people
<1>3. Calls' /\ Rows'
  BY <1>1 DEF CallInv, Calls, Rows, tables
<1> QED  BY <1>2, <1>3 DEF CallInv

----------------------------------------------------------------------------
(***************************************************************************)
(* The steps of one request, in the order of their lemmas.                 *)
(***************************************************************************)
Looks(r) ==
  \/ \E n \in Names : CreatePermission(r, n)
                        \/ \E p \in PermissionIds : UpdatePermission(r, p, n)
  \/ \E p \in PermissionIds : RemovePermission(r, p)
  \/ \E ro \in Roles, given \in BOOLEAN, list \in SUBSET PermissionIds,
        type \in {"keep", "super", "plain"} : UpdateRole(r, ro, given, list, type)
  \/ \E u \in Users, list \in SUBSET Roles, f \in {"keep", "on", "off"} :
       UpdateUser(r, u, list, f)
  \/ \E u \in Users, ro \in Roles : Assign(r, u, ro) \/ Unassign(r, u, ro)
  \/ ReadMembers(r) \/ CheckTypes(r) \/ Fail(r) \/ Tell(r)

WritesGrants(r) ==
  \/ \E ro \in Roles, p \in PermissionIds : Grant(r, ro, p) \/ Revoke(r, ro, p)
  \/ Clear(r) \/ Fill(r) \/ \E ro \in Roles : SeedGrant(r, ro)

WritesPeople(r) ==
  \/ RoleRow(r) \/ ClearRoles(r) \/ FillRoles(r) \/ UserRow(r)
  \/ AssignRole(r) \/ UnassignRole(r)

WritesNames(r) == InsertPermission(r) \/ Rename(r) \/ DeletePermission(r) \/ Seed(r)

LEMMA StepCases ==
  ASSUME Next
  PROVE  \/ \E r \in Requests :
              Looks(r) \/ WritesGrants(r) \/ WritesPeople(r) \/ WritesNames(r)
         \/ \E u \in Users : Reload(u)
         \/ UNCHANGED permissionVars
<1>1. CASE \E u \in Users : Reload(u)  BY <1>1
<1>2. CASE Terminated  BY <1>2 DEF Terminated
<1>3. ASSUME NEW r \in Requests, NEW ro \in Roles, NEW type \in {"keep", "super", "plain"},
             \/ UpdateRole(r, ro, FALSE, {}, type)
             \/ \E list \in SUBSET PermissionIds : UpdateRole(r, ro, TRUE, list, type)
      PROVE  Looks(r)
  BY <1>3 DEF Looks
<1> QED
  BY <1>1, <1>2, <1>3
  DEF Next, Looks, WritesGrants, WritesPeople, WritesNames

LEMMA CallInit == Init => CallInv
<1> SUFFICES ASSUME Init PROVE CallInv
  OBVIOUS
<1>1. NewRequest \in RequestState
  BY DEF NewRequest, RequestState, Counters, Operations, Results
<1>2. Route(NewRequest)  BY DEF Route, NewRequest
<1>3. Calls  BY <1>1, <1>2 DEF Init, Calls
<1>4. Tables
  BY SeedOfNames DEF Init, Tables, PermissionIds
<1>5. Rows
  BY SeedOfNames, NullIsNoName, FirstIsNoRequest DEF Init, Rows, PermissionIds
<1> QED  BY <1>3, <1>4, <1>5 DEF CallInv

LEMMA CallNext == CallInv /\ [Next]_permissionVars => CallInv'
<1> SUFFICES ASSUME CallInv, [Next]_permissionVars PROVE CallInv'
  OBVIOUS
<1>1. ASSUME NEW r \in Requests, Looks(r) PROVE CallInv'
  BY <1>1, LookSteps DEF Looks
<1>2. ASSUME NEW r \in Requests, WritesGrants(r) PROVE CallInv'
  BY <1>2, GrantType, ClearType, FillType, SeedGrantType DEF WritesGrants
<1>3. ASSUME NEW r \in Requests, WritesPeople(r) PROVE CallInv'
  BY <1>3, RoleRowType, AssignType, UserStepsType DEF WritesPeople
<1>4. ASSUME NEW r \in Requests, WritesNames(r) PROVE CallInv'
  BY <1>4, InsertPermissionType, RenameType, DeletePermissionType, SeedType
  DEF WritesNames
<1>5. ASSUME NEW u \in Users, Reload(u) PROVE CallInv'
  BY <1>5, ReloadType
<1>6. CASE UNCHANGED permissionVars
  BY <1>6 DEF permissionVars, tables, people, screens, history, CallInv, Calls, Tables, Rows
<1> QED  BY <1>1, <1>2, <1>3, <1>4, <1>5, <1>6, StepCases

(***************************************************************************)
(* In every reachable state the tables hold what they should and a request *)
(* has the parameters of its operation; only permissions that exist are    *)
(* granted, and a request that has not inserted its permission finds no    *)
(* row in its place (permissions.service.ts:45-160,                        *)
(* roles.service.ts:120-262, users.service.ts:140-211, seed.js:129-168).   *)
(***************************************************************************)
THEOREM OfficeCorrect == Spec => []CallInv
<1> QED  BY CallInit, CallNext, PTL DEF Spec

----------------------------------------------------------------------------
(***************************************************************************)
(* What a role has lost.                                                   *)
(***************************************************************************)
Clearing(x) == x.op = "role" /\ x.cleared

\* If r was between its deleteMany and its createMany, or ended there, it is.
StaysCleared(r) == Clearing(req[r]) => Clearing(req'[r]) /\ req'[r].id = req[r].id

LEMMA EndedCleared ==
  ASSUME CallInv, NEW r \in Requests, NEW result, Ended(r, result)
  PROVE  StaysCleared(r)
  BY DEF Ended, StaysCleared, Clearing

LEMMA WentCleared ==
  ASSUME CallInv, NEW r \in Requests, NEW pc, Went(r, pc), req[r].pc # "new"
  PROVE  StaysCleared(r)
  BY DEF Went, Moved, Kept, StaysCleared, Clearing

LEMMA BegunCleared ==
  ASSUME CallInv, NEW r \in Requests, NEW op, NEW pc, Begun(r, op, pc)
  PROVE  StaysCleared(r)
<1>1. ~req[r].cleared  BY NewCall DEF Begun, At
<1> QED  BY <1>1 DEF StaysCleared, Clearing

LEMMA LookCleared ==
  ASSUME CallInv, NEW r \in Requests, Looks(r)
  PROVE  StaysCleared(r)
<1>1. CASE ReadMembers(r)
  BY <1>1, ReadMembersCall DEF Moved, Kept, StaysCleared, Clearing
<1>2. CASE CheckTypes(r)
  BY <1>2, CheckTypesCall, EndedCleared DEF StaysCleared, Clearing
<1>3. CASE Fail(r) \/ Tell(r)
  BY <1>3, FailCall, TellCall, EndedCleared
<1>4. CASE \/ \E n \in Names : CreatePermission(r, n)
                                 \/ \E p \in PermissionIds : UpdatePermission(r, p, n)
           \/ \E p \in PermissionIds : RemovePermission(r, p)
  BY <1>4, CreatePermissionCall, UpdatePermissionCall, RemovePermissionCall,
     EndedCleared, BegunCleared
<1>5. CASE \E ro \in Roles, given \in BOOLEAN, list \in SUBSET PermissionIds,
              type \in {"keep", "super", "plain"} : UpdateRole(r, ro, given, list, type)
  BY <1>5, UpdateRoleCall, BegunCleared
<1>6. CASE \E u \in Users, list \in SUBSET Roles, f \in {"keep", "on", "off"} :
             UpdateUser(r, u, list, f)
  BY <1>6, UpdateUserCall, BegunCleared
<1>7. CASE \E u \in Users, ro \in Roles : Assign(r, u, ro) \/ Unassign(r, u, ro)
  BY <1>7, AssignCall, EndedCleared, BegunCleared
<1> QED  BY <1>1, <1>2, <1>3, <1>4, <1>5, <1>6, <1>7 DEF Looks

LEMMA WriteCleared ==
  ASSUME CallInv, NEW r \in Requests,
         \/ WritesPeople(r) \/ WritesNames(r)
         \/ \E ro \in Roles, p \in PermissionIds : Grant(r, ro, p) \/ Revoke(r, ro, p)
         \/ \E ro \in Roles : SeedGrant(r, ro)
  PROVE  StaysCleared(r)
<1>1. CASE RoleRow(r)
  BY <1>1, RoleRowCall, WentCleared, EndedCleared
<1>2. CASE ClearRoles(r) \/ FillRoles(r) \/ UserRow(r)
  BY <1>2, UserCalls DEF StaysCleared, Clearing
<1>3. CASE AssignRole(r) \/ UnassignRole(r)
  <2>1. req[r].pc # "new"  BY <1>3, AssignRoleCall
  <2> QED  BY <1>3, <2>1, AssignRoleCall, WentCleared
<1>4. CASE WritesNames(r)
  BY <1>4, InsertPermissionCall, RenameCall, DeletePermissionCall, SeedCall,
     EndedCleared, BegunCleared DEF WritesNames
<1>5. CASE \E ro \in Roles, p \in PermissionIds : Grant(r, ro, p) \/ Revoke(r, ro, p)
  BY <1>5, GrantCall, RevokeCall, EndedCleared, BegunCleared
<1>6. CASE \E ro \in Roles : SeedGrant(r, ro)
  BY <1>6, SeedGrantCall DEF StaysCleared, Clearing
<1> QED  BY <1>1, <1>2, <1>3, <1>4, <1>5, <1>6 DEF WritesPeople

\* A step that takes nothing from the grants but what is no longer due.
LEMMA LossStays ==
  ASSUME LossExplained, NEW r \in Requests, Moved(r), StaysCleared(r),
         due' \ grant' \subseteq due \ grant
  PROVE  LossExplained'
<1>1. ASSUME NEW g \in due' \ grant'
      PROVE  \E s \in Requests : (req'[s].op = "role" /\ req'[s].id = g[1] /\ req'[s].cleared)
  <2>1. PICK s \in Requests : req[s].op = "role" /\ req[s].id = g[1] /\ req[s].cleared
    BY <1>1 DEF LossExplained
  <2> QED  BY <2>1 DEF Moved, Others, StaysCleared, Clearing
<1> QED  BY <1>1 DEF LossExplained

\* The deleteMany: what the role loses, this request has cleared.
LEMMA ClearLoss ==
  ASSUME CallInv, LossExplained, NEW r \in Requests, Clear(r)
  PROVE  LossExplained'
<1> DEFINE ro == req[r].id
           all == {ro} \X PermissionIds
<1>1. /\ Moved(r) /\ req[r].pc = "clear" /\ req[r].op = "role"
      /\ req'[r].op = "role" /\ req'[r].id = ro
      /\ req'[r].cleared = (req[r].list # {})
  BY ClearCall DEF Moved, Kept
<1>2. grant' = grant \ all /\ due' = IF req[r].list = {} THEN due \ all ELSE due
  BY DEF Clear
<1>3. due \subseteq Roles \X PermissionIds  BY DEF CallInv, Tables
<1>4. ASSUME NEW g \in due' \ grant'
      PROVE  \E s \in Requests : req'[s].op = "role" /\ req'[s].id = g[1] /\ req'[s].cleared
  <2>1. g \in due /\ g = <<g[1], g[2]>> /\ g[2] \in PermissionIds  BY <1>2, <1>3, <1>4
  <2>2. CASE g[1] = ro
    <3>1. g \in all  BY <2>1, <2>2
    <3>2. req[r].list # {}  BY <1>2, <1>4, <3>1
    <3> QED  BY <1>1, <2>2, <3>2
  <2>3. CASE g[1] # ro
    <3>1. g \notin all  BY <2>3
    <3>2. PICK s \in Requests : req[s].op = "role" /\ req[s].id = g[1] /\ req[s].cleared
      BY <1>2, <1>4, <2>1, <3>1 DEF LossExplained
    <3> QED  BY <1>1, <2>3, <3>2 DEF Moved, Others
  <2> QED  BY <2>2, <2>3
<1> QED  BY <1>4 DEF LossExplained

\* The createMany: the role has its list, and what others took stays theirs.
LEMMA FillLoss ==
  ASSUME CallInv, LossExplained, NEW r \in Requests, Fill(r)
  PROVE  LossExplained'
<1> DEFINE ro == req[r].id
           new == {ro} \X req[r].list
<1>1. CASE UNCHANGED <<grant, due>> /\ Ended(r, "rejected")
  BY <1>1, EndedCleared, LossStays DEF Ended
<1>2. CASE ~Ended(r, "rejected")
  <2>1. /\ Moved(r) /\ req[r].pc = "fill" /\ req'[r].op = "role" /\ req'[r].id = ro
        /\ req'[r].pc = "row"
    BY <1>2, FillCall DEF Moved, Kept
  <2>2. ~Answer(r, "rejected")
    BY <1>2, AnswerCall, FillCall DEF Results
  <2>3. grant' = grant \cup new /\ due' = (due \ ({ro} \X PermissionIds)) \cup new
    BY <2>2 DEF Fill
  <2>4. due \subseteq Roles \X PermissionIds  BY DEF CallInv, Tables
  <2>5. ASSUME NEW g \in due' \ grant'
        PROVE  \E s \in Requests : req'[s].op = "role" /\ req'[s].id = g[1] /\ req'[s].cleared
    <3>1. g \in due \ grant /\ g \notin {ro} \X PermissionIds  BY <2>3, <2>5
    <3>2. g[1] # ro  BY <2>4, <3>1
    <3>3. PICK s \in Requests : req[s].op = "role" /\ req[s].id = g[1] /\ req[s].cleared
      BY <3>1 DEF LossExplained
    <3>4. req[r].id = ro OBVIOUS
    <3> QED  BY <2>1, <3>2, <3>3, <3>4 DEF Moved, Others
  <2> QED  BY <2>5 DEF LossExplained
<1>4. Ended(r, "rejected") => UNCHANGED <<grant, due>>
  <2>1. SUFFICES ASSUME Ended(r, "rejected") PROVE UNCHANGED <<grant, due>>
    OBVIOUS
  <2>2. CASE Become(r, [req[r] EXCEPT !.pc = "row", !.cleared = FALSE])
    <3>1. req[r] \in RequestState /\ req \in [Requests -> RequestState]
      BY DEF CallInv, Calls
    <3>2. req'[r].pc = "row"  BY <2>2, <3>1 DEF Become, RequestState
    <3> QED  BY <2>1, <3>2 DEF Ended
  <2> QED  BY <2>2 DEF Fill
<1> QED  BY <1>1, <1>2, <1>4

LEMMA LossNext ==
  ASSUME CallInv, LossExplained, [Next]_permissionVars
  PROVE  LossExplained'
<1>1. ASSUME NEW r \in Requests, Looks(r) PROVE LossExplained'
  BY <1>1, LookCleared, LookSteps, LossStays DEF Looks, tables, history
<1>2. ASSUME NEW r \in Requests, NEW ro \in Roles, NEW p \in PermissionIds,
             Grant(r, ro, p) \/ Revoke(r, ro, p)
      PROVE  LossExplained'
  <2>1. Moved(r) /\ StaysCleared(r)
    BY <1>2, GrantCall, RevokeCall, WriteCleared DEF Ended, Begun
  <2>2. due' \ grant' \subseteq due \ grant  BY <1>2 DEF Grant, Revoke
  <2> QED  BY <2>1, <2>2, LossStays
<1>3. ASSUME NEW r \in Requests, NEW ro \in Roles, SeedGrant(r, ro) PROVE LossExplained'
  <2>1. Moved(r) /\ StaysCleared(r)  BY <1>3, SeedGrantCall, WriteCleared
  <2>2. due' \ grant' \subseteq due \ grant  BY <1>3 DEF SeedGrant
  <2> QED  BY <2>1, <2>2, LossStays
<1>4. ASSUME NEW r \in Requests, Clear(r) \/ Fill(r) PROVE LossExplained'
  BY <1>4, ClearLoss, FillLoss
<1>5. ASSUME NEW r \in Requests, WritesPeople(r) PROVE LossExplained'
  <2>1. Moved(r)
    BY <1>5, RoleRowCall, UserCalls, AssignRoleCall DEF WritesPeople, Ended, Went, Begun
  <2>2. UNCHANGED <<grant, due>>
    BY <1>5 DEF WritesPeople, RoleRow, WriteRole, ClearRoles, FillRoles, UserRow,
                AssignRole, UnassignRole
  <2> QED  BY <1>5, <2>1, <2>2, WriteCleared, LossStays
<1>6. ASSUME NEW r \in Requests, WritesNames(r) PROVE LossExplained'
  <2>1. Moved(r)
    BY <1>6, InsertPermissionCall, RenameCall, DeletePermissionCall, SeedCall
    DEF WritesNames, Ended, Begun
  <2>2. due' \ grant' \subseteq due \ grant
    BY <1>6 DEF WritesNames, InsertPermission, Rename, DeletePermission, Seed, history
  <2> QED  BY <1>6, <2>1, <2>2, WriteCleared, LossStays
<1>7. ASSUME NEW u \in Users, Reload(u) PROVE LossExplained'
  BY <1>7 DEF Reload, tables, LossExplained
<1>8. CASE UNCHANGED permissionVars
  BY <1>8 DEF permissionVars, tables, history, LossExplained
<1>9. CASE \E r \in Requests : WritesGrants(r)
  BY <1>2, <1>3, <1>4, <1>9 DEF WritesGrants
<1> QED  BY <1>1, <1>5, <1>6, <1>7, <1>8, <1>9, StepCases

(***************************************************************************)
(* A role has lost a permission that nobody took from it only to an update *)
(* of the role that is, or ended, between its deleteMany and its           *)
(* createMany (roles.service.ts:143-155).                                  *)
(***************************************************************************)
THEOREM LossCorrect == Spec => []LossExplained
<1>1. Init => LossExplained  BY DEF Init, LossExplained
<1>2. CallInv /\ LossExplained /\ [Next]_permissionVars => LossExplained'
  BY LossNext
<1> QED  BY <1>1, <1>2, OfficeCorrect, PTL DEF Spec

----------------------------------------------------------------------------
(***************************************************************************)
(* What the screens offer.  A request that has written for a user tells    *)
(* him later, at the latest when it reads the members of the role it       *)
(* changed: Tells.  Unless it fails, or is one of those that never tell.   *)
(***************************************************************************)
Silent(x) ==
  \/ x.op \in {"rename", "remove", "seed"}
  \/ x.op = "role" /\ ~x.given
  \/ x.op = "user" /\ x.list = {} /\ x.flag = x.was

Tells(x, u) ==
  \/ x.pc = "done" /\ x.result # "ok"
  \/ x.pc = "tell" /\ u \in x.who
  \/ x.pc \in {"fill", "row", "members"} /\ u \in Members(x.id)
  \/ x.pc \in {"roles", "user"} /\ u \in x.who /\ x.list # {}

ScreenInv ==
  \A u \in Users : shown[u] # Effective(u) =>
    u \in hinted \/ \E r \in stale[u] : Silent(req[r]) \/ Tells(req[r], u)

LEMMA ScreenImplies == CallInv /\ ScreenInv => ScreensFollowGrants
<1> SUFFICES ASSUME CallInv, ScreenInv, NEW u \in Users, shown[u] # Effective(u),
                    u \notin hinted
             PROVE  \E r \in stale[u] : InFlight(r) \/ req[r].result # "ok" \/ TellsNobody(r)
  BY DEF ScreensFollowGrants
<1>1. PICK r \in stale[u] : Silent(req[r]) \/ Tells(req[r], u)  BY DEF ScreenInv
<1>2. CASE Silent(req[r])  BY <1>2 DEF Silent, TellsNobody
<1>3. CASE Tells(req[r], u)  BY <1>3 DEF Tells, InFlight, At
<1> QED  BY <1>1, <1>2, <1>3

LEMMA NewTellsNot ==
  ASSUME CallInv, NEW r \in Requests, req[r].pc = "new", NEW u
  PROVE  ~Silent(req[r]) /\ ~Tells(req[r], u)
<1>1. req[r].op = "none"  BY NewCall DEF At
<1> QED  BY <1>1 DEF Silent, Tells

LEMMA SilentStays ==
  ASSUME CallInv, NEW r \in Requests, Moved(r), Silent(req[r])
  PROVE  Silent(req'[r])
<1>1. Kept(req[r], req'[r])  BY NewTellsNot DEF Moved
<1> QED  BY <1>1 DEF Kept, Silent

\* What u may do does not change if his rows and what they grant do not.
LEMMA EffectiveStays ==
  ASSUME NEW u \in Users, flag'[u] = flag[u], SuperAdmin(u)' <=> SuperAdmin(u),
         \A q \in PermissionIds :
           (\E ro \in Holders(q) : u \in Members(ro))' <=> \E ro \in Holders(q) : u \in Members(ro),
         \A q \in PermissionIds :
           (\E ro \in Holders(q) : u \in Members(ro)) => name'[q] = name[q]
  PROVE  Effective(u)' = Effective(u)
<1> DEFINE held == {q \in PermissionIds : \E ro \in Holders(q) : u \in Members(ro)}
<1>1. held' = held  OBVIOUS
<1>2. {name'[p] : p \in held} = {name[p] : p \in held}  OBVIOUS
<1> HIDE DEF held
<1>3. {name'[p] : p \in held'} = {name[p] : p \in held}  BY <1>1, <1>2
<1>4. SuperAdmin(u)' = SuperAdmin(u)  BY DEF SuperAdmin
<1> QED  BY <1>3, <1>4 DEF Effective, held

(***************************************************************************)
(* A step of r that changes what the users of T may do, and no others':    *)
(* r will tell those of T, and whom else it was to tell it still will, or  *)
(* has told now.                                                           *)
(***************************************************************************)
LEMMA ScreenStays ==
  ASSUME CallInv, ScreenInv, NEW r \in Requests, Moved(r), NEW T \in SUBSET Users,
         shown' = shown, hinted \subseteq hinted',
         \A u \in Users : stale'[u] = IF u \in T THEN stale[u] \cup {r} ELSE stale[u],
         \A u \in Users \ T : Effective(u)' = Effective(u),
         \A u \in Users \ T : \A ro : u \in Members(ro) => (u \in Members(ro))',
         \A u \in T : Silent(req'[r]) \/ Tells(req[r], u)',
         \A u \in Users \ T : Tells(req[r], u) =>
           Silent(req'[r]) \/ Tells(req[r], u)' \/ u \in hinted'
  PROVE  ScreenInv'
<1>1. ASSUME NEW u \in Users, (shown[u] # Effective(u))', u \notin hinted'
      PROVE  \E s \in stale'[u] : Silent(req'[s]) \/ Tells(req[s], u)'
  <2>1. CASE u \in T  BY <2>1
  <2>2. CASE u \notin T
    <3>1. shown[u] # Effective(u) /\ u \notin hinted /\ stale'[u] = stale[u]
      BY <1>1, <2>2
    <3>2. PICK s \in stale[u] : Silent(req[s]) \/ Tells(req[s], u)
      BY <3>1 DEF ScreenInv
    <3>3. CASE s = r  BY <1>1, <2>2, <3>1, <3>2, <3>3, SilentStays
    <3>4. CASE s # r
      <4>1. req'[s] = req[s]
        BY <3>4 DEF CallInv, Tables, Moved, Others
      <4>2. Tells(req[s], u) => Tells(req[s], u)'  BY <2>2, <4>1 DEF Tells
      <4> QED  BY <3>1, <3>2, <4>1, <4>2
    <3> QED  BY <3>3, <3>4
  <2> QED  BY <2>1, <2>2
<1> QED  BY <1>1 DEF ScreenInv

\* Nobody's rows change, and nobody has a permission whose name does.
LEMMA LookScreen ==
  ASSUME CallInv, ScreenInv, NEW r \in Requests, Moved(r),
         UNCHANGED <<grant, people, shown, stale>>, hinted \subseteq hinted',
         \A p \in PermissionIds : name'[p] = name[p] \/ Holders(p) = {},
         \A u \in Users : Tells(req[r], u) =>
           Silent(req'[r]) \/ Tells(req[r], u)' \/ u \in hinted'
  PROVE  ScreenInv'
<1>1. ASSUME NEW u \in Users PROVE Effective(u)' = Effective(u)
  BY EffectiveStays DEF people, SuperAdmin, Members, Holders
<1>2. \A u \in Users : \A ro : u \in Members(ro) => (u \in Members(ro))'
  BY DEF people, Members
<1> QED  BY <1>1, <1>2, ScreenStays

LEMMA LooksScreen ==
  ASSUME CallInv, ScreenInv, NEW r \in Requests, Looks(r)
  PROVE  ScreenInv'
<1>1. Moved(r) /\ UNCHANGED <<tables, shown, history>>
  BY LookSteps DEF Looks
<1>2. hinted \subseteq hinted'
  BY DEF Looks, CreatePermission, UpdatePermission, RemovePermission, UpdateRole,
         UpdateUser, Assign, Unassign, Look, ReadMembers, CheckTypes, Fail, Tell, Quiet,
         screens
<1>3. ASSUME NEW u \in Users, Tells(req[r], u)
      PROVE  Silent(req'[r]) \/ Tells(req[r], u)' \/ u \in hinted'
  <2>1. req[r].pc # "new"  BY <1>3, NewTellsNot
  <2>2. CASE ReadMembers(r)
    <3>1. u \in Members(req[r].id)  BY <1>3, <2>2, ReadMembersCall DEF Tells
    <3> QED  BY <2>2, <3>1, ReadMembersCall DEF Tells
  <2>3. CASE CheckTypes(r)  BY <1>3, <2>3, CheckTypesCall DEF Tells
  <2>4. CASE Fail(r)  BY <2>4, FailCall DEF Ended, Tells
  <2>5. CASE Tell(r)
    <3>1. u \in req[r].who  BY <1>3, <2>5, TellCall DEF Tells
    <3> QED  BY <2>5, <3>1 DEF Tell
  <2> QED
    BY <2>1, <2>2, <2>3, <2>4, <2>5
    DEF Looks, CreatePermission, UpdatePermission, RemovePermission, UpdateRole,
        UpdateUser, Assign, Unassign, Look, At
<1> QED  BY <1>1, <1>2, <1>3, LookScreen DEF tables, history

\* Nobody has a permission that is not there.
LEMMA NobodyHolds ==
  ASSUME CallInv, NEW p \in PermissionIds, name[p] = NULL
  PROVE  Holders(p) = {}
<1>1. ASSUME NEW ro \in Roles PROVE <<ro, p>> \notin grant
  BY DEF CallInv, Rows
<1> QED  BY <1>1 DEF Holders

LEMMA NewNamesScreen ==
  ASSUME CallInv, ScreenInv, NEW r \in Requests, InsertPermission(r) \/ Seed(r)
  PROVE  ScreenInv'
<1>1. Moved(r) /\ req[r].pc \in {"new", "insert"} /\ name[r] = NULL /\ r \in PermissionIds
  BY InsertPermissionCall, SeedCall DEF Ended, Begun, CallInv, Rows, PermissionIds
<1>2. UNCHANGED <<grant, people, shown, stale, hinted>>
  BY DEF InsertPermission, Seed, Quiet, screens, history
<1>3. \A p \in PermissionIds : p # r => name'[p] = name[p]
  BY DEF InsertPermission, Seed, CallInv, Tables
<1>4. \A p \in PermissionIds : name'[p] = name[p] \/ Holders(p) = {}
  BY <1>1, <1>3, NobodyHolds
<1>5. \A u \in Users : ~Tells(req[r], u)  BY <1>1 DEF Tells
<1> QED  BY <1>1, <1>2, <1>4, <1>5, LookScreen

\* A step that writes grants: only of role ro, or of permission p.
LEMMA GrantsScreen ==
  ASSUME CallInv, ScreenInv, NEW r \in Requests, Moved(r), NEW T \in SUBSET Users,
         Touch(r, T), UNCHANGED <<people, screens>>,
         \A u \in Users \ T : \A q \in PermissionIds : \A ro \in Roles :
           u \in Members(ro) => (<<ro, q>> \in grant' <=> <<ro, q>> \in grant),
         \A u \in Users \ T : \A q \in PermissionIds :
           (\E ro \in Holders(q) : u \in Members(ro)) => name'[q] = name[q],
         \A u \in T : Silent(req'[r]) \/ Tells(req[r], u)',
         \A u \in Users \ T : Tells(req[r], u) => Silent(req'[r]) \/ Tells(req[r], u)'
  PROVE  ScreenInv'
<1>1. \A u \in Users : stale'[u] = IF u \in T THEN stale[u] \cup {r} ELSE stale[u]
  BY TouchTable
<1>2. \A ro : Members(ro)' = Members(ro)  BY DEF people, Members
<1>3. ASSUME NEW u \in Users \ T PROVE Effective(u)' = Effective(u)
  <2>1. flag'[u] = flag[u] /\ (SuperAdmin(u)' <=> SuperAdmin(u))
    BY <1>2 DEF people, SuperAdmin
  <2>2. ASSUME NEW q \in PermissionIds
        PROVE  (\E ro \in Holders(q) : u \in Members(ro))'
                 <=> \E ro \in Holders(q) : u \in Members(ro)
    BY <1>2 DEF Holders
  <2> QED  BY <2>1, <2>2, EffectiveStays
<1> QED  BY <1>1, <1>2, <1>3, ScreenStays DEF screens

LEMMA NamesScreen ==
  ASSUME CallInv, ScreenInv, NEW r \in Requests, Rename(r) \/ DeletePermission(r)
  PROVE  ScreenInv'
<1> DEFINE p == req[r].id
           T == UNION {Members(ro) : ro \in Holders(p)}
<1>1. Moved(r) /\ Silent(req'[r]) /\ p \in PermissionIds
  BY RenameCall, DeletePermissionCall DEF Ended, Silent
<1>2. T \in SUBSET Users  BY PeopleOfRole
<1>3. UNCHANGED <<people, screens>>  BY DEF Rename, DeletePermission, Quiet
<1>4. CASE UNCHANGED <<name, grant, stale>>
  BY <1>1, <1>3, <1>4, LookScreen DEF screens
<1>5. CASE Touch(r, T)
  <2>1. \A q \in PermissionIds : q # p => name'[q] = name[q]
    BY DEF Rename, DeletePermission, CallInv, Tables
  <2>2. \A q \in PermissionIds, ro \in Roles :
          q # p => (<<ro, q>> \in grant' <=> <<ro, q>> \in grant)
    BY DEF Rename, DeletePermission
  <2>3. \A ro \in Roles : <<ro, p>> \in grant' => <<ro, p>> \in grant
    BY DEF Rename, DeletePermission
  <2>4. \A u \in Users \ T : \A ro \in Holders(p) : u \notin Members(ro)  OBVIOUS
  <2> HIDE DEF T, p
  <2>5. \A u \in Users \ T : \A q \in PermissionIds : \A ro \in Roles :
          u \in Members(ro) => (<<ro, q>> \in grant' <=> <<ro, q>> \in grant)
    BY <2>2, <2>3, <2>4 DEF Holders
  <2>6. \A u \in Users \ T : \A q \in PermissionIds :
          (\E ro \in Holders(q) : u \in Members(ro)) => name'[q] = name[q]
    BY <2>1, <2>4
  <2> QED  BY <1>1, <1>2, <1>3, <1>5, <2>5, <2>6, GrantsScreen
<1>6. UNCHANGED <<name, grant, stale>> \/ Touch(r, T)
  BY DEF Rename, DeletePermission
<1> QED  BY <1>4, <1>5, <1>6

\* The steps that write the grants of a role.
LEMMA RoleGrantsScreen ==
  ASSUME CallInv, ScreenInv, NEW r \in Requests, Moved(r), NEW ro \in Roles,
         Touch(r, Members(ro)), UNCHANGED <<name, people>>, Quiet,
         \A o \in Roles, q \in PermissionIds :
           o # ro => (<<o, q>> \in grant' <=> <<o, q>> \in grant),
         Silent(req'[r]) \/ (req'[r].pc \in {"fill", "row", "members"} /\ req'[r].id = ro),
         \A u \in Users : Tells(req[r], u) => Silent(req[r]) \/ u \in Members(ro)
  PROVE  ScreenInv'
<1>1. Members(ro) \in SUBSET Users /\ Members(ro)' = Members(ro)
  BY PeopleOfRole DEF people, Members
<1>2. \A u \in Members(ro) : Silent(req'[r]) \/ Tells(req[r], u)'
  BY <1>1 DEF Tells
<1>3. \A u \in Users \ Members(ro) :
        Tells(req[r], u) => Silent(req'[r]) \/ Tells(req[r], u)'
  BY SilentStays
<1> QED  BY <1>1, <1>2, <1>3, GrantsScreen DEF Quiet

LEMMA WritesGrantsScreen ==
  ASSUME CallInv, ScreenInv, NEW r \in Requests, WritesGrants(r)
  PROVE  ScreenInv'
<1>1. ASSUME NEW ro \in Roles, NEW p \in PermissionIds, Grant(r, ro, p)
      PROVE  ScreenInv'
  <2>1. Moved(r) /\ \A u \in Users : ~Tells(req[r], u)
    BY <1>1, GrantCall, NewTellsNot DEF Grant, Ended, Begun, At
  <2>2. CASE UNCHANGED <<grant, stale>>
    BY <1>1, <2>1, <2>2, LookScreen DEF Grant, Quiet, screens
  <2>3. CASE name[p] # NULL
    <3> DEFINE x == [req[r] EXCEPT !.pc = "members", !.op = "grant", !.id = ro]
    <3>1. req[r] \in RequestState /\ req \in [Requests -> RequestState]
      BY DEF CallInv, Calls
    <3>2. x.pc = "members" /\ x.id = ro  BY <3>1 DEF RequestState
    <3>3. Become(r, x)  BY <1>1, <2>3 DEF Grant
    <3> HIDE DEF x
    <3>4. req'[r].pc = "members" /\ req'[r].id = ro
      BY <3>1, <3>2, <3>3 DEF Become
    <3>5. \A o \in Roles, q \in PermissionIds :
            o # ro => (<<o, q>> \in grant' <=> <<o, q>> \in grant)
      BY <1>1, <2>3 DEF Grant
    <3> QED  BY <1>1, <2>1, <2>3, <3>4, <3>5, RoleGrantsScreen DEF Grant
  <2> QED  BY <1>1, <2>2, <2>3 DEF Grant
<1>2. ASSUME NEW ro \in Roles, NEW p \in PermissionIds, Revoke(r, ro, p)
      PROVE  ScreenInv'
  <2>1. /\ Moved(r) /\ \A u \in Users : ~Tells(req[r], u)
        /\ req'[r].pc = "members" /\ req'[r].id = ro
    BY <1>2, RevokeCall, NewTellsNot DEF Begun
  <2>2. \A o \in Roles, q \in PermissionIds :
          o # ro => (<<o, q>> \in grant' <=> <<o, q>> \in grant)
    BY <1>2 DEF Revoke
  <2> QED  BY <1>2, <2>1, <2>2, RoleGrantsScreen DEF Revoke
<1>3. ASSUME Clear(r) PROVE ScreenInv'
  <2> DEFINE ro == req[r].id
  <2>1. /\ Moved(r) /\ req[r].pc = "clear" /\ ro \in Roles
        /\ req'[r].pc \in {"fill", "row"} /\ req'[r].id = ro
    BY <1>3, ClearCall DEF Moved, Kept
  <2>2. \A o \in Roles, q \in PermissionIds :
          o # ro => (<<o, q>> \in grant' <=> <<o, q>> \in grant)
    BY <1>3 DEF Clear
  <2>3. \A u \in Users : ~Tells(req[r], u)  BY <2>1 DEF Tells
  <2>4. Touch(r, Members(ro)) /\ UNCHANGED <<name, people>> /\ Quiet  BY <1>3 DEF Clear
  <2> HIDE DEF ro
  <2> QED  BY <2>1, <2>2, <2>3, <2>4, RoleGrantsScreen
<1>4. ASSUME Fill(r) PROVE ScreenInv'
  <2> DEFINE ro == req[r].id
             x == [req[r] EXCEPT !.pc = "row", !.cleared = FALSE]
  <2>1. Moved(r) /\ req[r].pc = "fill" /\ ro \in Roles /\ UNCHANGED <<name, people>> /\ Quiet
    BY <1>4, FillCall DEF Fill, Ended
  <2>2. CASE UNCHANGED <<grant, stale>> /\ Ended(r, "rejected")
    <3>1. \A u \in Users : Tells(req[r], u)'  BY <2>2 DEF Ended, Tells
    <3> QED  BY <2>1, <2>2, <3>1, LookScreen DEF Quiet, screens
  <2>3. CASE Become(r, x) /\ Touch(r, Members(ro))
               /\ grant' = grant \cup ({ro} \X req[r].list)
    <3>1. req[r] \in RequestState /\ req \in [Requests -> RequestState]
      BY DEF CallInv, Calls
    <3>2. x.pc = "row" /\ x.id = ro  BY <3>1 DEF RequestState
    <3> HIDE DEF x
    <3>3. req'[r].pc = "row" /\ req'[r].id = ro  BY <2>3, <3>1, <3>2 DEF Become
    <3>4. \A o \in Roles, q \in PermissionIds :
            o # ro => (<<o, q>> \in grant' <=> <<o, q>> \in grant)
      BY <2>3
    <3>5. \A u \in Users : Tells(req[r], u) => u \in Members(ro)
      BY <2>1 DEF Tells
    <3> HIDE DEF ro
    <3> QED  BY <2>1, <2>3, <3>3, <3>4, <3>5, RoleGrantsScreen
  <2>4. Answer(r, "rejected") => Ended(r, "rejected")
    BY <1>4, FillCall, AnswerCall DEF Results
  <2> QED  BY <1>4, <2>2, <2>3, <2>4 DEF Fill
<1>5. ASSUME NEW ro \in Roles, SeedGrant(r, ro) PROVE ScreenInv'
  <2>1. Moved(r) /\ Silent(req[r]) /\ Silent(req'[r])
    BY <1>5, SeedGrantCall DEF Moved, Kept, Silent
  <2>2. \A o \in Roles, q \in PermissionIds :
          o # ro => (<<o, q>> \in grant' <=> <<o, q>> \in grant)
    BY <1>5 DEF SeedGrant
  <2> QED  BY <1>5, <2>1, <2>2, RoleGrantsScreen DEF SeedGrant
<1> QED  BY <1>1, <1>2, <1>3, <1>4, <1>5 DEF WritesGrants

\* A step that writes the rows of the users of T, and no others'.
LEMMA PeopleScreen ==
  ASSUME CallInv, ScreenInv, NEW r \in Requests, Moved(r), NEW T \in SUBSET Users,
         Touch(r, T), UNCHANGED <<name, grant>>, Quiet,
         \A u \in Users \ T : \A ro : (u \in Members(ro))' <=> u \in Members(ro),
         \A u \in Users \ T : (SuperAdmin(u)' <=> SuperAdmin(u)) /\ flag'[u] = flag[u],
         \A u \in T : Silent(req'[r]) \/ Tells(req[r], u)',
         \A u \in Users \ T : Tells(req[r], u) => Silent(req'[r]) \/ Tells(req[r], u)'
  PROVE  ScreenInv'
<1>1. \A u \in Users : stale'[u] = IF u \in T THEN stale[u] \cup {r} ELSE stale[u]
  BY TouchTable
<1>2. ASSUME NEW u \in Users \ T PROVE Effective(u)' = Effective(u)
  BY EffectiveStays DEF Holders
<1>3. shown' = shown /\ hinted \subseteq hinted'  BY DEF Quiet, screens
<1> QED  BY <1>1, <1>2, <1>3, ScreenStays

LEMMA RoleRowScreen ==
  ASSUME CallInv, ScreenInv, NEW r \in Requests, RoleRow(r)
  PROVE  ScreenInv'
<1> DEFINE ro == req[r].id
           T == IF req[r].type = "keep" THEN {} ELSE Members(ro)
<1>1. /\ Moved(r) /\ req[r].pc = "row" /\ req[r].op = "role"
      /\ req'[r].op = "role" /\ req'[r].given = req[r].given /\ req'[r].id = ro
      /\ req[r].given => req'[r].pc = "members"
      /\ req[r].type \in {"keep", "super", "plain"}
  BY RoleRowCall DEF Ended, Went, Moved, Kept, CallInv, Calls, RequestState
<1>2. T \in SUBSET Users  BY PeopleOfRole
<1>3. Touch(r, T) /\ UNCHANGED <<name, grant, member, flag>> /\ Quiet
  BY DEF RoleRow, WriteRole
<1>4. \A o : Members(o)' = Members(o)  BY <1>3 DEF Members
<1>5. \A u \in Users : u \in Members(ro) => Silent(req'[r]) \/ Tells(req[r], u)'
  BY <1>1, <1>4 DEF Silent, Tells
<1>6. \A u \in Users : Tells(req[r], u) => u \in Members(ro)
  BY <1>1 DEF Tells
<1>7. ASSUME NEW u \in Users \ T PROVE SuperAdmin(u)' <=> SuperAdmin(u)
  <2>1. CASE req[r].type = "keep"
    BY <1>4, <2>1 DEF RoleRow, WriteRole, SuperAdmin
  <2>2. CASE req[r].type # "keep"
    <3>1. u \notin Members(ro)  BY <1>7, <2>2
    <3>2. \A o : o # ro => (o \in supers' <=> o \in supers)
      BY <1>1, <2>2 DEF RoleRow, WriteRole
    <3> QED  BY <1>4, <3>1, <3>2 DEF SuperAdmin
  <2> QED  BY <2>1, <2>2
<1>8. \A u \in T : u \in Members(ro)  OBVIOUS
<1> HIDE DEF T, ro
<1> QED  BY <1>1, <1>2, <1>3, <1>4, <1>5, <1>6, <1>7, <1>8, PeopleScreen

LEMMA AssignScreen ==
  ASSUME CallInv, ScreenInv, NEW r \in Requests, AssignRole(r) \/ UnassignRole(r)
  PROVE  ScreenInv'
<1> DEFINE who == req[r].who
<1>1. /\ Moved(r) /\ req[r].pc \in {"give", "take"} /\ who \in SUBSET Users
      /\ req'[r].pc = "tell" /\ req'[r].who = who
  BY AssignRoleCall DEF Went
<1>2. UNCHANGED <<name, grant, supers, flag>> /\ Quiet /\ Touch(r, who)
  BY DEF AssignRole, UnassignRole
<1>3. \A u \in Users \ who : \A o : <<u, o>> \in member' <=> <<u, o>> \in member
  BY DEF AssignRole, UnassignRole
<1>4. \A u \in Users \ who : \A o : (u \in Members(o))' <=> u \in Members(o)
  BY <1>3 DEF Members
<1>5. \A u \in Users \ who : SuperAdmin(u)' <=> SuperAdmin(u)
  BY <1>2, <1>4 DEF SuperAdmin
<1>6. \A u \in who : Tells(req[r], u)'  BY <1>1 DEF Tells
<1>7. \A u \in Users : ~Tells(req[r], u)
  <2>1. req[r].result = "none" /\ req[r].pc # "done"
    BY <1>1 DEF CallInv, Calls, Route
  <2> QED  BY <1>1, <2>1 DEF Tells
<1> HIDE DEF who
<1> QED  BY <1>1, <1>2, <1>4, <1>5, <1>6, <1>7, PeopleScreen

LEMMA UserRolesScreen ==
  ASSUME CallInv, ScreenInv, NEW r \in Requests, ClearRoles(r) \/ FillRoles(r)
  PROVE  ScreenInv'
<1> DEFINE who == req[r].who
<1>1. /\ Moved(r) /\ req[r].pc \in {"unassign", "roles"} /\ req[r].list # {}
      /\ req'[r].pc \in {"roles", "user"} /\ req'[r].who = who /\ req'[r].list = req[r].list
      /\ who \in SUBSET Users
  BY UserCalls DEF Went, Moved, Kept, CallInv, Calls, Route, RequestState
<1>2. UNCHANGED <<name, grant, supers, flag>> /\ Quiet /\ Touch(r, who)
  BY DEF ClearRoles, FillRoles
<1>3. \A u \in Users \ who : \A o : <<u, o>> \in member' <=> <<u, o>> \in member
  BY DEF ClearRoles, FillRoles
<1>4. \A u \in Users \ who : \A o : (u \in Members(o))' <=> u \in Members(o)
  BY <1>3 DEF Members
<1>5. \A u \in Users \ who : SuperAdmin(u)' <=> SuperAdmin(u)
  BY <1>2, <1>4 DEF SuperAdmin
<1>6. \A u \in who : Tells(req[r], u)'  BY <1>1 DEF Tells
<1>7. \A u \in Users \ who : ~Tells(req[r], u)  BY <1>1 DEF Tells
<1> HIDE DEF who
<1> QED  BY <1>1, <1>2, <1>4, <1>5, <1>6, <1>7, PeopleScreen

LEMMA UserRowScreen ==
  ASSUME CallInv, ScreenInv, NEW r \in Requests, UserRow(r)
  PROVE  ScreenInv'
<1> DEFINE who == req[r].who
           T == IF req[r].flag = "keep" THEN {} ELSE who
<1>1. /\ Moved(r) /\ req[r].pc = "user" /\ req[r].op = "user" /\ req'[r].op = "user"
      /\ req'[r].who = who /\ req'[r].list = req[r].list /\ req'[r].flag = req[r].flag
      /\ req'[r].was = req[r].was /\ who \in SUBSET Users
      /\ req[r].list # {} \/ req[r].flag \notin {"keep", req[r].was} => req'[r].pc = "tell"
  BY UserCalls DEF Went, Ended, Moved, Kept, CallInv, Calls, Route, RequestState
<1>2. UNCHANGED <<name, grant, supers, member>> /\ Quiet /\ Touch(r, T)
  BY DEF UserRow
<1>3. \A u \in Users \ T : flag'[u] = flag[u]
  BY DEF UserRow, CallInv, Tables
<1>4. \A o : Members(o)' = Members(o)  BY <1>2 DEF Members
<1>5. \A u : SuperAdmin(u)' <=> SuperAdmin(u)  BY <1>2, <1>4 DEF SuperAdmin
<1>6. \A u \in T : Silent(req'[r]) \/ Tells(req[r], u)'
  <2>1. CASE req[r].list # {} \/ req[r].flag \notin {"keep", req[r].was}
    BY <1>1, <2>1 DEF Tells
  <2>2. CASE req[r].list = {} /\ req[r].flag = req[r].was
    BY <1>1, <2>2 DEF Silent
  <2> QED  BY <2>1, <2>2
<1>7. \A u \in Users : Tells(req[r], u) => Tells(req[r], u)'
  BY <1>1 DEF Tells
<1>8. T \in SUBSET Users  BY <1>1
<1> HIDE DEF T
<1> QED  BY <1>1, <1>2, <1>3, <1>4, <1>5, <1>6, <1>7, <1>8, PeopleScreen

\* The client of u offers what u may do, and those of the others are as before.
LEMMA ReloadScreen ==
  ASSUME CallInv, ScreenInv, NEW u \in Users, Reload(u)
  PROVE  ScreenInv'
<1>1. \A v \in Users : Effective(v)' = Effective(v)
  BY DEF Reload, tables, people, Effective, SuperAdmin, Members, Holders
<1>2. \A r, v : Tells(req[r], v)' <=> Tells(req[r], v)
  BY DEF Reload, tables, people, Tells, Members
<1>3. shown'[u] = Effective(u)'  BY <1>1 DEF Reload, CallInv, Tables
<1>4. \A v \in Users : v # u =>
        shown'[v] = shown[v] /\ stale'[v] = stale[v] /\ (v \in hinted' <=> v \in hinted)
  BY DEF Reload, CallInv, Tables
<1>5. req' = req  BY DEF Reload
<1> QED  BY <1>1, <1>2, <1>3, <1>4, <1>5 DEF ScreenInv

LEMMA ScreenNext ==
  ASSUME CallInv, ScreenInv, [Next]_permissionVars
  PROVE  ScreenInv'
<1>1. ASSUME NEW r \in Requests, Looks(r) \/ WritesGrants(r) PROVE ScreenInv'
  BY <1>1, LooksScreen, WritesGrantsScreen
<1>2. ASSUME NEW r \in Requests, WritesPeople(r) PROVE ScreenInv'
  BY <1>2, RoleRowScreen, AssignScreen, UserRolesScreen, UserRowScreen DEF WritesPeople
<1>3. ASSUME NEW r \in Requests, WritesNames(r) PROVE ScreenInv'
  BY <1>3, NewNamesScreen, NamesScreen DEF WritesNames
<1>4. ASSUME NEW u \in Users, Reload(u) PROVE ScreenInv'
  BY <1>4, ReloadScreen
<1>5. CASE UNCHANGED permissionVars
  BY <1>5 DEF permissionVars, tables, people, screens, history, ScreenInv, Effective,
              SuperAdmin, Members, Holders, Tells
<1> QED  BY <1>1, <1>2, <1>3, <1>4, <1>5, StepCases

(***************************************************************************)
(* A client offers what its user may do, unless it was told to reload, or  *)
(* a request that has written since it loaded is under way, did not end    *)
(* well or is one of those that tell nobody (permissions.service.ts:29-42, *)
(* 87-105, 135, 157; roles.service.ts:173-176, 258-262;                    *)
(* users.service.ts:190-211; seed.js:129-168).                             *)
(***************************************************************************)
THEOREM ScreensCorrect == Spec => []ScreensFollowGrants
<1>1. Init => ScreenInv  BY DEF Init, ScreenInv
<1>2. CallInv /\ ScreenInv /\ [Next]_permissionVars => ScreenInv'
  BY ScreenNext
<1> QED  BY <1>1, <1>2, ScreenImplies, OfficeCorrect, PTL DEF Spec

----------------------------------------------------------------------------
(***************************************************************************)
(* Restricted SUPER_ADMINs.  A request whose flag is "on" has looked at    *)
(* the roles of its user when it has deleted them, or is past the check of *)
(* those he has: Passed.  What made a user SUPER_ADMIN is Beyond the step  *)
(* that did.                                                               *)
(***************************************************************************)
Beyond == {"members", "tell", "user", "done"}

Passed(x, u) ==
  /\ x.op = "user" /\ u \in x.who /\ x.flag = "on"
  /\ x.pc \in {"roles", "user", "tell"} \/ x.result = "ok"

PromotersBeyond ==
  /\ \A u \in Users : \A s \in promoted[u] : req[s].pc \in Beyond
  /\ \A r \in Requests : req[r].op = "user" => \A s \in req[r].before : req[s].pc \in Beyond

PromotedLater ==
  \A u \in Users : SuperAdmin(u) /\ (\E r \in Requests : Passed(req[r], u)) =>
    \E s \in promoted[u] : \A r \in Requests : Passed(req[r], u) => s \notin req[r].before

RestrictedPromoted ==
  \A u \in Users : SuperAdmin(u) /\ flag[u] = "on" => promoted[u] # {}

FlagInv == PromotersBeyond /\ PromotedLater /\ RestrictedPromoted

LEMMA FlagImplies == FlagInv => RestrictionExplained
<1> SUFFICES ASSUME FlagInv, NEW u \in Users, SuperAdmin(u), flag[u] = "on"
             PROVE  \E s \in promoted[u] :
                      \A r \in Requests : Restricted(r, u) => s \notin req[r].before
  BY DEF RestrictionExplained
<1>1. \A r \in Requests : Restricted(r, u) => Passed(req[r], u)
  BY DEF Restricted, Passed, At
<1>2. CASE \E r \in Requests : Passed(req[r], u)
  BY <1>1, <1>2 DEF FlagInv, PromotedLater
<1>3. CASE ~\E r \in Requests : Passed(req[r], u)
  BY <1>1, <1>3 DEF FlagInv, RestrictedPromoted
<1> QED  BY <1>2, <1>3

(***************************************************************************)
(* A step of r.  A user who is SUPER_ADMIN after it was one before, and no *)
(* request has passed by him since; or the step made him one, and nobody   *)
(* can have known of r before.                                             *)
(***************************************************************************)
LEMMA FlagStays ==
  ASSUME CallInv, FlagInv, NEW r \in Requests, Moved(r),
         req[r].pc \in Beyond => req'[r].pc \in Beyond,
         req'[r].op = "user" =>
           \A s \in req'[r].before : s \in Requests /\ req'[s].pc \in Beyond,
         \A u \in Users : promoted[u] \subseteq promoted'[u],
         \A u \in Users : \A s \in promoted'[u] :
           s \in promoted[u] \/ (s \in Requests /\ req'[s].pc \in Beyond),
         \A u \in Users : SuperAdmin(u)' =>
           \/ /\ SuperAdmin(u) /\ (flag'[u] = "on" => flag[u] = "on" \/ Passed(req[r], u))
              /\ Passed(req'[r], u) => Passed(req[r], u) /\ req'[r].before = req[r].before
           \/ /\ r \in promoted'[u] /\ req[r].pc \notin Beyond
              /\ Passed(req'[r], u) => r \notin req'[r].before
  PROVE  FlagInv'
<1>1. \A s \in Requests : s # r => req'[s] = req[s]  BY DEF Moved, Others
<1>2. \A s \in Requests : req[s].pc \in Beyond => req'[s].pc \in Beyond  BY <1>1
<1>3. /\ \A u \in Users : promoted[u] \subseteq Requests
      /\ \A s \in Requests : req[s].before \subseteq Requests
  BY DEF CallInv, Tables, Calls, RequestState
<1>4. PromotersBeyond'
  <2>1. ASSUME NEW u \in Users, NEW s \in promoted'[u] PROVE req'[s].pc \in Beyond
    BY <1>2, <1>3 DEF FlagInv, PromotersBeyond
  <2>2. ASSUME NEW x \in Requests, req'[x].op = "user", NEW s \in req'[x].before
        PROVE  req'[s].pc \in Beyond
    BY <1>1, <1>2, <1>3, <2>2 DEF FlagInv, PromotersBeyond
  <2> QED  BY <2>1, <2>2 DEF PromotersBeyond
<1>5. PromotedLater'
  <2> SUFFICES ASSUME NEW u \in Users, SuperAdmin(u)', NEW x \in Requests,
                      Passed(req'[x], u)
               PROVE  \E s \in promoted'[u] :
                        \A y \in Requests : Passed(req'[y], u) => s \notin req'[y].before
    BY DEF PromotedLater, Passed
  <2>1. CASE SuperAdmin(u) /\ (Passed(req'[r], u) =>
               Passed(req[r], u) /\ req'[r].before = req[r].before)
    <3>1. Passed(req[x], u)  BY <1>1, <2>1
    <3>2. PICK s \in promoted[u] :
            \A y \in Requests : Passed(req[y], u) => s \notin req[y].before
      BY <2>1, <3>1 DEF FlagInv, PromotedLater
    <3> QED  BY <1>1, <2>1, <3>2
  <2>2. CASE /\ r \in promoted'[u] /\ req[r].pc \notin Beyond
             /\ Passed(req'[r], u) => r \notin req'[r].before
    <3>1. ASSUME NEW y \in Requests, Passed(req'[y], u), y # r
          PROVE  r \notin req'[y].before
      <4>1. req[y].op = "user" /\ req'[y] = req[y]  BY <1>1, <3>1 DEF Passed
      <4> QED  BY <2>2, <4>1 DEF FlagInv, PromotersBeyond
    <3> QED  BY <2>2, <3>1
  <2> QED  BY <2>1, <2>2
<1>6. RestrictedPromoted'
  <2> SUFFICES ASSUME NEW u \in Users, SuperAdmin(u)', flag'[u] = "on"
               PROVE  promoted'[u] # {}
    BY DEF RestrictedPromoted
  <2>1. CASE SuperAdmin(u) /\ (flag[u] = "on" \/ Passed(req[r], u))
    <3>1. promoted[u] # {}
      BY <2>1 DEF FlagInv, RestrictedPromoted, PromotedLater
    <3> QED  BY <3>1
  <2>2. CASE r \in promoted'[u]  BY <2>2
  <2> QED  BY <2>1, <2>2
<1> QED  BY <1>4, <1>5, <1>6 DEF FlagInv

\* A step of r that changes nobody's rows.
LEMMA LookFlag ==
  ASSUME CallInv, FlagInv, NEW r \in Requests, Moved(r), UNCHANGED <<people, promoted>>,
         req[r].pc \in Beyond => req'[r].pc \in Beyond,
         req'[r].op = "user" => req'[r].before = req[r].before /\ req[r].op = "user",
         \A u \in Users : Passed(req'[r], u) => Passed(req[r], u)
  PROVE  FlagInv'
<1>1. \A u \in Users : SuperAdmin(u)' <=> SuperAdmin(u)
  BY DEF people, SuperAdmin, Members
<1>2. ASSUME req'[r].op = "user", NEW s \in req'[r].before
      PROVE  s \in Requests /\ req'[s].pc \in Beyond
  <2>1. s \in Requests  BY <1>2 DEF Moved, Calls, RequestState
  <2>2. req[s].pc \in Beyond  BY <1>2, <2>1 DEF FlagInv, PromotersBeyond
  <2> QED  BY <2>1, <2>2 DEF Moved, Others
<1>3. \A u \in Users : Passed(req'[r], u) => req'[r].before = req[r].before
  BY DEF Passed
<1> QED  BY <1>1, <1>2, <1>3, FlagStays DEF people

\* It is not about one user.
LEMMA OtherFlag ==
  ASSUME CallInv, FlagInv, NEW r \in Requests, Moved(r), UNCHANGED <<people, promoted>>,
         req[r].pc \in Beyond => req'[r].pc \in Beyond, req'[r].op # "user"
  PROVE  FlagInv'
  BY LookFlag DEF Passed

\* A request ends: with "ok" it has passed if it had before.
LEMMA EndedFlag ==
  ASSUME CallInv, FlagInv, NEW r \in Requests, UNCHANGED <<people, promoted>>,
         NEW result, Ended(r, result), result = "ok" => req[r].pc = "tell"
  PROVE  FlagInv'
<1>1. CASE req[r].pc = "new"
  <2>1. req'[r].op # "user"  BY <1>1, NewCall DEF At, Ended
  <2> QED  BY <2>1, OtherFlag DEF Ended, Beyond
<1>2. CASE req[r].pc # "new"
  <2>1. ASSUME NEW u \in Users, Passed(req'[r], u) PROVE Passed(req[r], u)
    BY <1>2, <2>1 DEF Ended, Moved, Kept, Passed
  <2> QED  BY <2>1, LookFlag DEF Ended, Beyond
<1> QED  BY <1>1, <1>2

LEMMA BegunFlag ==
  ASSUME CallInv, FlagInv, NEW r \in Requests, UNCHANGED <<people, promoted>>,
         NEW op, NEW pc, Begun(r, op, pc), op # "user"
  PROVE  FlagInv'
  BY OtherFlag DEF Begun, Beyond

LEMMA UpdateUserFlag ==
  ASSUME CallInv, FlagInv, NEW r \in Requests, NEW u \in Users, NEW list \in SUBSET Roles,
         NEW f \in {"keep", "on", "off"}, UpdateUser(r, u, list, f)
  PROVE  FlagInv'
<1>1. /\ Moved(r) /\ req[r].pc = "new" /\ req'[r].before = {}
      /\ req'[r].pc = "types" \/ req'[r].flag = "keep"
      /\ req'[r].pc # "done" => req'[r].result = "none"
  BY UpdateUserCall DEF Begun, Moved, Calls, Route
<1>2. UNCHANGED <<people, promoted>>  BY DEF UpdateUser, tables, history
<1>3. \A v \in Users : ~Passed(req'[r], v)  BY <1>1 DEF Passed
<1>4. \A v \in Users : SuperAdmin(v)' <=> SuperAdmin(v)
  BY <1>2 DEF people, SuperAdmin, Members
<1> QED  BY <1>1, <1>2, <1>3, <1>4, FlagStays DEF people, Beyond

LEMMA CheckTypesFlag ==
  ASSUME CallInv, FlagInv, NEW r \in Requests, CheckTypes(r)
  PROVE  FlagInv'
<1> DEFINE u == UserOf(r)
<1>1. UNCHANGED <<people, promoted>>  BY DEF CheckTypes, tables, history
<1>2. CASE Ended(r, "rejected")  BY <1>1, <1>2, EndedFlag
<1>3. CASE ~Ended(r, "rejected")
  <2>1. /\ Moved(r) /\ req[r].pc = "types" /\ req[r].op = "user"
        /\ req'[r].pc = AfterTypes(req[r].list) /\ req'[r].before = promoted[u]
        /\ req[r].list = {} => ~SuperAdmin(u)
        /\ req'[r].who = {u} /\ u \in Users
        /\ req'[r].pc # "done" => req'[r].result = "none"
    BY <1>3, CheckTypesCall, TheUser DEF Moved, Kept, Calls, Route
  <2>2. \A v \in Users : SuperAdmin(v)' <=> SuperAdmin(v)
    BY <1>1 DEF people, SuperAdmin, Members
  <2>3. ASSUME NEW v \in Users, SuperAdmin(v)' PROVE ~Passed(req'[r], v)
    <3>1. CASE req[r].list = {}  BY <2>1, <2>2, <2>3, <3>1 DEF Passed
    <3>2. CASE req[r].list # {}
      <4>1. req'[r].pc = "unassign"  BY <2>1, <3>2 DEF AfterTypes
      <4> QED  BY <2>1, <4>1 DEF Passed
    <3> QED  BY <3>1, <3>2
  <2>4. ASSUME NEW s \in promoted[u] PROVE s \in Requests /\ req'[s].pc \in Beyond
    <3>1. s \in Requests /\ req[s].pc \in Beyond
      BY <2>1 DEF FlagInv, PromotersBeyond, CallInv, Tables
    <3> QED  BY <2>1, <3>1 DEF Moved, Others, Beyond
  <2> HIDE DEF u
  <2>5. req[r].pc \notin Beyond  BY <2>1 DEF Beyond
  <2> QED  BY <1>1, <2>1, <2>2, <2>3, <2>4, <2>5, FlagStays DEF people
<1> QED  BY <1>2, <1>3

LEMMA LooksFlag ==
  ASSUME CallInv, FlagInv, NEW r \in Requests, Looks(r)
  PROVE  FlagInv'
<1>1. UNCHANGED <<people, promoted>>  BY LookSteps DEF Looks, tables, history
<1>2. CASE \/ \E n \in Names : CreatePermission(r, n)
                                 \/ \E p \in PermissionIds : UpdatePermission(r, p, n)
           \/ \E p \in PermissionIds : RemovePermission(r, p)
  BY <1>1, <1>2, CreatePermissionCall, UpdatePermissionCall, RemovePermissionCall,
     EndedFlag, BegunFlag
<1>3. CASE \E ro \in Roles, given \in BOOLEAN, list \in SUBSET PermissionIds,
              type \in {"keep", "super", "plain"} : UpdateRole(r, ro, given, list, type)
  BY <1>1, <1>3, UpdateRoleCall, BegunFlag
<1>4. CASE ReadMembers(r)
  BY <1>1, <1>4, ReadMembersCall, OtherFlag DEF Moved, Kept, Beyond
<1>5. CASE Fail(r) \/ Tell(r)
  BY <1>1, <1>5, FailCall, TellCall, EndedFlag
<1>6. CASE \E u \in Users, ro \in Roles : Assign(r, u, ro) \/ Unassign(r, u, ro)
  BY <1>1, <1>6, AssignCall, EndedFlag, BegunFlag
<1> QED  BY <1>2, <1>3, <1>4, <1>5, <1>6, UpdateUserFlag, CheckTypesFlag DEF Looks

LEMMA WritesFlag ==
  ASSUME CallInv, FlagInv, NEW r \in Requests, WritesGrants(r) \/ WritesNames(r)
  PROVE  FlagInv'
<1>1. UNCHANGED <<people, promoted>>
  BY DEF WritesGrants, Grant, Revoke, Clear, Fill, SeedGrant, WritesNames,
         InsertPermission, Rename, DeletePermission, Seed, history
<1>2. CASE \E ro \in Roles, p \in PermissionIds : Grant(r, ro, p) \/ Revoke(r, ro, p)
  BY <1>1, <1>2, GrantCall, RevokeCall, EndedFlag, BegunFlag
<1>3. CASE Clear(r) \/ Fill(r)
  <2>1. Moved(r) /\ req[r].pc \in {"clear", "fill"} /\ req'[r].op = "role"
    BY <1>3, ClearCall, FillCall DEF Ended, Moved, Kept
  <2> QED  BY <1>1, <2>1, OtherFlag DEF Beyond
<1>4. CASE \E ro \in Roles : SeedGrant(r, ro)
  <2>1. Moved(r) /\ req[r].pc = "seedGrants" /\ req'[r].op = "seed"
    BY <1>4, SeedGrantCall DEF Moved, Kept
  <2> QED  BY <1>1, <2>1, OtherFlag DEF Beyond
<1>5. CASE WritesNames(r)
  <2>1. Moved(r) /\ req'[r].op # "user" /\ req[r].pc \notin Beyond
    BY <1>5, InsertPermissionCall, RenameCall, DeletePermissionCall, SeedCall
    DEF WritesNames, Ended, Begun, Beyond
  <2> QED  BY <1>1, <2>1, OtherFlag
<1> QED  BY <1>2, <1>3, <1>4, <1>5 DEF WritesGrants

\* The type of a role: its members become SUPER_ADMINs, or are no longer.
LEMMA RoleRowFlag ==
  ASSUME CallInv, FlagInv, NEW r \in Requests, RoleRow(r)
  PROVE  FlagInv'
<1>1. /\ Moved(r) /\ req[r].pc = "row" /\ req[r].op = "role" /\ req'[r].op = "role"
      /\ req'[r].pc \in {"members", "done"}
  BY RoleRowCall DEF Ended, Went, Moved, Kept
<1>2. flag' = flag /\ Promote(r)  BY DEF RoleRow, WriteRole
<1>3. ~(req[r].pc \in Beyond) /\ req'[r].pc \in Beyond  BY <1>1 DEF Beyond
<1>4. \A u : ~Passed(req'[r], u)  BY <1>1 DEF Passed
<1>5. \A u \in Users :
        /\ promoted'[u] = promoted[u] \/ promoted'[u] = promoted[u] \cup {r}
        /\ SuperAdmin(u)' => SuperAdmin(u) \/ r \in promoted'[u]
  BY <1>2, PromoteTable
<1> QED  BY <1>1, <1>2, <1>3, <1>4, <1>5, FlagStays

\* A role given: its type may have changed since it was looked at.
LEMMA AssignFlag ==
  ASSUME CallInv, FlagInv, NEW r \in Requests, AssignRole(r) \/ UnassignRole(r)
  PROVE  FlagInv'
<1>1. /\ Moved(r) /\ req[r].pc \in {"give", "take"} /\ req'[r].pc = "tell"
      /\ req'[r].op # "user"
  BY AssignRoleCall DEF Went, Moved, Kept
<1>2. supers' = supers /\ flag' = flag  BY DEF AssignRole, UnassignRole
<1>3. req[r].pc \notin Beyond /\ req'[r].pc \in Beyond  BY <1>1 DEF Beyond
<1>4. \A u : ~Passed(req'[r], u)  BY <1>1 DEF Passed
<1>5. \A u \in Users :
        /\ promoted'[u] = promoted[u] \/ promoted'[u] = promoted[u] \cup {r}
        /\ SuperAdmin(u)' => SuperAdmin(u) \/ r \in promoted'[u]
  <2>1. CASE AssignRole(r)  BY <2>1, PromoteTable DEF AssignRole
  <2>2. CASE UnassignRole(r)
    <3>1. member' \subseteq member /\ promoted' = promoted  BY <2>2 DEF UnassignRole
    <3> QED  BY <1>2, <3>1 DEF SuperAdmin, Members
  <2> QED  BY <2>1, <2>2
<1> QED  BY <1>1, <1>2, <1>3, <1>4, <1>5, FlagStays

\* Between the deletion of his roles and the new ones he is no SUPER_ADMIN.
LEMMA ClearRolesFlag ==
  ASSUME CallInv, FlagInv, NEW r \in Requests, ClearRoles(r)
  PROVE  FlagInv'
<1> DEFINE who == req[r].who
<1>1. /\ Moved(r) /\ req[r].pc = "unassign" /\ req[r].op = "user"
      /\ req'[r].who = who /\ req'[r].before = req[r].before /\ who \in SUBSET Users
  BY UserCalls DEF Went, Moved, Kept, CallInv, Calls, RequestState
<1>2. UNCHANGED <<supers, flag, promoted>>  BY DEF ClearRoles
<1>3. \A v \in Users \ who : \A o \in Roles : <<v, o>> \in member' <=> <<v, o>> \in member
  BY DEF ClearRoles
<1>4. \A v \in who : \A o \in Roles : <<v, o>> \notin member'  BY DEF ClearRoles
<1>5. supers \subseteq Roles  BY DEF CallInv, Tables
<1>6. \A v \in Users : SuperAdmin(v)' => SuperAdmin(v) /\ v \notin who
  BY <1>2, <1>3, <1>4, <1>5 DEF SuperAdmin, Members
<1>7. \A v \in Users \ who : ~Passed(req'[r], v)  BY <1>1 DEF Passed
<1>8. req[r].pc \notin Beyond  BY <1>1 DEF Beyond
<1>9. ASSUME NEW s \in req[r].before PROVE s \in Requests /\ req'[s].pc \in Beyond
  <2>1. s \in Requests /\ req[s].pc \in Beyond
    BY <1>1 DEF FlagInv, PromotersBeyond, CallInv, Calls, RequestState
  <2> QED  BY <1>1, <1>8, <2>1 DEF Moved, Others
<1> QED  BY <1>1, <1>2, <1>6, <1>7, <1>8, <1>9, FlagStays

\* The new roles make him one: after this request has looked.
LEMMA FillRolesFlag ==
  ASSUME CallInv, FlagInv, NEW r \in Requests, FillRoles(r)
  PROVE  FlagInv'
<1> DEFINE who == req[r].who
<1>1. /\ Moved(r) /\ req[r].pc = "roles" /\ req[r].op = "user" /\ req'[r].pc = "user"
      /\ req'[r].op = "user" /\ req'[r].flag = req[r].flag /\ req'[r].who = who
      /\ req'[r].before = req[r].before
      /\ who \in SUBSET Users
  BY UserCalls DEF Went, Moved, Kept, CallInv, Calls, RequestState
<1>2. flag' = flag /\ Promote(r)  BY DEF FillRoles
<1>4. \A u \in Users :
        /\ promoted'[u] = promoted[u] \/ promoted'[u] = promoted[u] \cup {r}
        /\ SuperAdmin(u)' => SuperAdmin(u) \/ r \in promoted'[u]
  BY <1>2, PromoteTable
<1>5. req[r].pc \notin Beyond /\ req'[r].pc \in Beyond  BY <1>1 DEF Beyond
<1>6. ASSUME NEW s \in req[r].before PROVE s \in Requests /\ req'[s].pc \in Beyond
  <2>1. s \in Requests /\ req[s].pc \in Beyond
    BY <1>1 DEF FlagInv, PromotersBeyond, CallInv, Calls, RequestState
  <2> QED  BY <1>1, <1>5, <2>1 DEF Moved, Others
<1>7. r \notin req[r].before
  BY <1>1, <1>5 DEF FlagInv, PromotersBeyond
<1>9. \A u : Passed(req'[r], u) => Passed(req[r], u)
  BY <1>1 DEF Passed
<1> HIDE DEF who
<1> QED  BY <1>1, <1>2, <1>4, <1>5, <1>6, <1>7, <1>9, FlagStays

\* The flag is written by one who has passed.
LEMMA UserRowFlag ==
  ASSUME CallInv, FlagInv, NEW r \in Requests, UserRow(r)
  PROVE  FlagInv'
<1> DEFINE who == req[r].who
<1>1. /\ Moved(r) /\ req[r].pc = "user" /\ req[r].op = "user"
      /\ req'[r].pc \in {"tell", "done"}
      /\ req'[r].op = "user" /\ req'[r].flag = req[r].flag /\ req'[r].who = who
      /\ req'[r].before = req[r].before
  BY UserCalls DEF Went, Ended, Moved, Kept
<1>2. UNCHANGED <<supers, member, promoted>>  BY DEF UserRow
<1>3. \A u : SuperAdmin(u)' <=> SuperAdmin(u)  BY <1>2 DEF SuperAdmin, Members
<1>4. \A u \in Users : Passed(req'[r], u) => Passed(req[r], u)
  BY <1>1 DEF Passed
<1>5. \A u \in Users : flag'[u] = "on" => flag[u] = "on" \/ Passed(req[r], u)
  BY <1>1 DEF UserRow, Passed
<1>6. req'[r].pc \in Beyond  BY <1>1 DEF Beyond
<1>7. ASSUME NEW s \in req[r].before PROVE s \in Requests /\ req'[s].pc \in Beyond
  <2>1. s \in Requests /\ req[s].pc \in Beyond
    BY <1>1 DEF FlagInv, PromotersBeyond, CallInv, Calls, RequestState
  <2> QED  BY <1>1, <1>6, <2>1 DEF Moved, Others
<1> QED  BY <1>1, <1>2, <1>3, <1>4, <1>5, <1>6, <1>7, FlagStays

LEMMA FlagNext ==
  ASSUME CallInv, FlagInv, [Next]_permissionVars
  PROVE  FlagInv'
<1>1. ASSUME NEW r \in Requests, Looks(r) \/ WritesGrants(r) \/ WritesNames(r)
      PROVE  FlagInv'
  BY <1>1, LooksFlag, WritesFlag
<1>2. ASSUME NEW r \in Requests, WritesPeople(r) PROVE FlagInv'
  BY <1>2, RoleRowFlag, AssignFlag, ClearRolesFlag, FillRolesFlag, UserRowFlag
  DEF WritesPeople
<1>3. ASSUME NEW u \in Users, Reload(u) PROVE FlagInv'
  BY <1>3 DEF Reload, tables, people, FlagInv, PromotersBeyond, PromotedLater,
              RestrictedPromoted, SuperAdmin, Members
<1>4. CASE UNCHANGED permissionVars
  BY <1>4 DEF permissionVars, tables, people, history, FlagInv, PromotersBeyond,
              PromotedLater, RestrictedPromoted, SuperAdmin, Members
<1> QED  BY <1>1, <1>2, <1>3, <1>4, StepCases

(***************************************************************************)
(* A SUPER_ADMIN's download of PDFs is restricted only if a request made   *)
(* him one after the restricting one had looked at his roles, be it by his *)
(* new roles, by the type of one he has, or by a role given to him that    *)
(* was retyped between its look-up and the write                           *)
(* (users.service.ts:156-177, 251-288; roles.service.ts:157-162, 220-246). *)
(***************************************************************************)
THEOREM RestrictionCorrect == Spec => []RestrictionExplained
<1>1. Init => FlagInv
  BY DEF Init, NewRequest, FlagInv, PromotersBeyond, PromotedLater, RestrictedPromoted,
         Passed
<1>2. CallInv /\ FlagInv /\ [Next]_permissionVars => FlagInv'
  BY FlagNext
<1> QED  BY <1>1, <1>2, FlagImplies, OfficeCorrect, PTL DEF Spec

----------------------------------------------------------------------------
(***************************************************************************)
(* The seed script.  Unless somebody whom it did not find at its end can   *)
(* have taken them, the permission is there and the roles that the script  *)
(* is done with have it.                                                   *)
(***************************************************************************)
Granted(roles) ==
  /\ \E p \in PermissionIds : name[p] = SeedName
  /\ \A ro \in roles : \E p \in PermissionIds : name[p] = SeedName /\ <<ro, p>> \in grant

MayTake(r) == \E s \in Requests \ req[r].before : Takes(s)

SeedInv ==
  \A r \in Requests : req[r].op = "seed" =>
    /\ \A s \in req[r].before : At(s, "done")
    /\ MayTake(r) \/ At(r, "done") \/ Granted(SeedRoles \ req[r].list)

LEMMA GrantedStays ==
  ASSUME CallInv, NEW roles, Granted(roles), grant \subseteq grant',
         \A p \in PermissionIds : name[p] # NULL => name'[p] = name[p]
  PROVE  /\ \E p \in PermissionIds : name'[p] = SeedName
         /\ \A ro \in roles : \E p \in PermissionIds :
              name'[p] = SeedName /\ <<ro, p>> \in grant'
  BY NullIsNoName, SeedOfNames DEF Granted

\* A step of r, who may take something or leaves what there is.
LEMMA SeedStays ==
  ASSUME CallInv, SeedInv, NEW r \in Requests, Moved(r),
         req'[r].op = "seed" =>
           /\ \A s \in req'[r].before : At(s, "done")
           /\ MayTake(r)' \/ At(r, "done")' \/ Granted(SeedRoles \ req[r].list)',
         Takes(r)' \/ (/\ grant \subseteq grant'
                       /\ \A p \in PermissionIds : name[p] # NULL => name'[p] = name[p])
  PROVE  SeedInv'
<1>1. ~At(r, "done") /\ \A s \in Requests : s # r => req'[s] = req[s]
  BY DEF Moved, Others, At
<1>2. \A s \in Requests : At(s, "done") => At(s, "done")'  BY <1>1 DEF At
<1>3. \A s \in Requests : Takes(s) => Takes(s)'
  <2>1. Takes(r) => req[r].pc # "new"  BY NewCall DEF Takes, At
  <2> QED  BY <1>1, <2>1 DEF Takes, Moved, Kept
<1>4. ASSUME NEW x \in Requests, x # r, req'[x].op = "seed"
      PROVE  /\ \A s \in req'[x].before : At(s, "done")'
             /\ MayTake(x)' \/ At(x, "done")' \/ Granted(SeedRoles \ req[x].list)'
  <2>1. /\ req'[x] = req[x] /\ req[x].op = "seed" /\ req[x].before \subseteq Requests
        /\ \A s \in req[x].before : At(s, "done")
    BY <1>1, <1>4 DEF SeedInv, CallInv, Calls, RequestState
  <2>2. CASE MayTake(x)  BY <1>2, <1>3, <2>1, <2>2 DEF MayTake
  <2>3. CASE At(x, "done")  BY <1>2, <2>1, <2>3
  <2>4. CASE Takes(r)'
    <3>1. r \notin req'[x].before  BY <1>1, <2>1
    <3>2. MayTake(x)'  BY <2>4, <3>1 DEF MayTake
    <3> QED  BY <1>2, <2>1, <3>2
  <2>5. CASE Granted(SeedRoles \ req[x].list) /\ ~Takes(r)'
    <3>1. (/\ grant \subseteq grant'
           /\ \A p \in PermissionIds : name[p] # NULL => name'[p] = name[p])
      BY <2>5
    <3> QED  BY <1>2, <2>1, <2>5, <3>1, GrantedStays DEF Granted
  <2> QED  BY <1>4, <2>1, <2>2, <2>3, <2>4, <2>5 DEF SeedInv
<1>5. ASSUME req'[r].op = "seed"
      PROVE  /\ \A s \in req'[r].before : At(s, "done")'
             /\ MayTake(r)' \/ At(r, "done")' \/ Granted(SeedRoles \ req[r].list)'
  <2>1. req'[r].before \subseteq Requests  BY DEF Moved, Calls, RequestState
  <2> QED  BY <1>2, <1>5, <2>1
<1> QED  BY <1>4, <1>5 DEF SeedInv

LEMMA SeedBegins ==
  ASSUME CallInv, SeedInv, NEW r \in Requests, Seed(r)
  PROVE  SeedInv'
<1>1. /\ Moved(r) /\ req'[r].list = SeedRoles /\ r \in PermissionIds /\ name[r] = NULL
      /\ \A s \in req'[r].before : At(s, "done")
  BY SeedCall DEF Begun, PermissionIds, CallInv, Rows
<1>2. name' = IF Taken(SeedName) THEN name ELSE [name EXCEPT ![r] = SeedName]
  BY DEF Seed
<1>3. \E p \in PermissionIds : name'[p] = SeedName
  BY <1>1, <1>2 DEF Taken, CallInv, Tables
<1>4. Granted(SeedRoles \ req[r].list)'  BY <1>1, <1>3 DEF Granted
<1>5. \A p \in PermissionIds : name[p] # NULL => name'[p] = name[p]
  BY <1>1, <1>2 DEF CallInv, Tables
<1>6. grant' = grant  BY DEF Seed
<1> QED  BY <1>1, <1>4, <1>5, <1>6, SeedStays

\* Another role has it, and those that had it have it still.
LEMMA SeedGrants ==
  ASSUME CallInv, SeedInv, NEW r \in Requests, NEW ro \in Roles, SeedGrant(r, ro)
  PROVE  /\ SeedInv'
         /\ MayTake(r) \/ Granted(SeedRoles \ req[r].list)'
<1> DEFINE found == {p \in PermissionIds : name[p] = SeedName}
<1>1. /\ Moved(r) /\ req[r].pc = "seedGrants" /\ req[r].op = "seed"
      /\ req'[r].list = req[r].list \ {ro} /\ req'[r].before = req[r].before
      /\ req'[r].op = "seed"
  BY SeedGrantCall DEF Moved, Kept
<1>2. grant' = grant \cup ({ro} \X found) /\ name' = name  BY DEF SeedGrant
<1>3. \A s \in req[r].before : At(s, "done")  BY <1>1 DEF SeedInv
<1>4. CASE MayTake(r)
  <2>1. PICK s \in Requests \ req[r].before : Takes(s)  BY <1>4 DEF MayTake
  <2>2. s # r  BY <1>1, <2>1 DEF Takes
  <2>3. Takes(s)'  BY <1>1, <2>1, <2>2 DEF Takes, Moved, Others
  <2>4. MayTake(r)'  BY <1>1, <2>1, <2>3 DEF MayTake
  <2> QED  BY <1>1, <1>2, <1>3, <1>4, <2>4, SeedStays
<1>5. CASE ~MayTake(r)
  <2>1. Granted(SeedRoles \ req[r].list)
    BY <1>1, <1>5 DEF SeedInv, At
  <2>2. PICK p \in PermissionIds : name[p] = SeedName  BY <2>1 DEF Granted
  <2>3. <<ro, p>> \in grant'  BY <1>2, <2>2
  <2>4. \A o \in SeedRoles \ req[r].list : \E q \in PermissionIds :
          name'[q] = SeedName /\ <<o, q>> \in grant'
    BY <1>2, <2>1, GrantedStays
  <2>5. Granted(SeedRoles \ req[r].list)'
    BY <1>1, <1>2, <2>2, <2>3, <2>4 DEF Granted
  <2> QED  BY <1>1, <1>2, <1>3, <2>5, SeedStays
<1> QED  BY <1>4, <1>5

LEMMA SeedNext ==
  ASSUME CallInv, SeedInv, [Next]_permissionVars
  PROVE  SeedInv'
<1>1. ASSUME NEW r \in Requests, Moved(r), req'[r].op # "seed", UNCHANGED <<name, grant>>
      PROVE  SeedInv'
  BY <1>1, SeedStays
<1>2. ASSUME NEW r \in Requests, Looks(r) PROVE SeedInv'
  <2>1. Moved(r) /\ UNCHANGED <<name, grant>>  BY <1>2, LookSteps DEF Looks, tables
  <2>2. CASE Fail(r)
    <3>1. /\ req[r].pc # "new" /\ At(r, "done")' /\ req'[r].before = req[r].before
          /\ req'[r].op = req[r].op
      BY <2>2, FailCall DEF Ended, At
    <3> QED  BY <2>1, <3>1, SeedStays DEF SeedInv
  <2>3. CASE ~Fail(r)
    <3>1. CASE \/ \E n \in Names : CreatePermission(r, n)
                                      \/ \E p \in PermissionIds : UpdatePermission(r, p, n)
               \/ \E p \in PermissionIds : RemovePermission(r, p)
      <4>1. req[r].op = "none"
        BY <3>1, NewCall DEF CreatePermission, UpdatePermission, RemovePermission
      <4>2. req'[r].op # "seed"
        BY <3>1, <4>1, CreatePermissionCall, UpdatePermissionCall, RemovePermissionCall
        DEF Ended, Begun
      <4> QED  BY <1>1, <2>1, <4>2
    <3>2. CASE \/ \E ro \in Roles, given \in BOOLEAN, list \in SUBSET PermissionIds,
                    type \in {"keep", "super", "plain"} : UpdateRole(r, ro, given, list, type)
               \/ \E u \in Users, list \in SUBSET Roles, f \in {"keep", "on", "off"} :
                    UpdateUser(r, u, list, f)
      <4>1. req'[r].op # "seed"  BY <3>2, UpdateRoleCall, UpdateUserCall DEF Begun
      <4> QED  BY <1>1, <2>1, <4>1
    <3>4. CASE \E u \in Users, ro \in Roles : Assign(r, u, ro) \/ Unassign(r, u, ro)
      <4>1. req[r].op = "none"
        BY <3>4, NewCall DEF Assign, Unassign, Look
      <4>2. req'[r].op # "seed"  BY <3>4, <4>1, AssignCall DEF Ended, Begun
      <4> QED  BY <1>1, <2>1, <4>2
    <3>3. CASE ReadMembers(r) \/ CheckTypes(r) \/ Tell(r)
      <4>1. req[r].pc \in {"members", "types", "tell"}
        BY <3>3 DEF ReadMembers, CheckTypes, Tell, At
      <4>2. req[r].op # "seed"  BY <4>1 DEF CallInv, Calls, Route
      <4>3. req'[r].op # "seed"  BY <2>1, <4>1, <4>2 DEF Moved, Kept
      <4> QED  BY <1>1, <2>1, <4>3
    <3> QED  BY <1>2, <2>3, <3>1, <3>2, <3>3, <3>4 DEF Looks
  <2> QED  BY <2>2, <2>3
<1>3. ASSUME NEW r \in Requests, NEW ro \in Roles, NEW p \in PermissionIds, Grant(r, ro, p)
      PROVE  SeedInv'
  <2>1. Moved(r) /\ req'[r].op # "seed"
    BY <1>3, GrantCall, NewCall DEF Ended, Begun, Grant
  <2>2. name' = name /\ grant \subseteq grant'  BY <1>3 DEF Grant
  <2> QED  BY <2>1, <2>2, SeedStays
<1>4. ASSUME NEW r \in Requests, NEW ro \in Roles, NEW p \in PermissionIds, Revoke(r, ro, p)
      PROVE  SeedInv'
  <2>1. Moved(r) /\ req'[r].op = "revoke"  BY <1>4, RevokeCall DEF Begun
  <2>2. Takes(r)'  BY <2>1 DEF Takes
  <2> QED  BY <2>1, <2>2, SeedStays
<1>5. ASSUME NEW r \in Requests, Clear(r) \/ Fill(r) PROVE SeedInv'
  <2>1. Moved(r) /\ req'[r].op = "role"
    BY <1>5, ClearCall, FillCall DEF Ended, Moved, Kept
  <2>2. Takes(r)'  BY <2>1 DEF Takes
  <2> QED  BY <2>1, <2>2, SeedStays
<1>6. ASSUME NEW r \in Requests, WritesPeople(r) PROVE SeedInv'
  <2>1. Moved(r) /\ req'[r].op # "seed"
    BY <1>6, RoleRowCall, UserCalls, AssignRoleCall
    DEF WritesPeople, Ended, Went, Begun, Moved, Kept
  <2>2. UNCHANGED <<name, grant>>
    BY <1>6 DEF WritesPeople, RoleRow, WriteRole, ClearRoles, FillRoles, UserRow,
                AssignRole, UnassignRole
  <2> QED  BY <1>1, <2>1, <2>2
<1>7. ASSUME NEW r \in Requests, InsertPermission(r) PROVE SeedInv'
  <2>1. /\ Moved(r) /\ req'[r].op # "seed" /\ name[r] = NULL /\ r \in PermissionIds
    BY <1>7, InsertPermissionCall DEF Ended, CallInv, Rows, PermissionIds
  <2>2. grant' = grant /\ \A p \in PermissionIds : name[p] # NULL => name'[p] = name[p]
    BY <1>7, <2>1 DEF InsertPermission, CallInv, Tables
  <2> QED  BY <2>1, <2>2, SeedStays
<1>8. ASSUME NEW r \in Requests, Rename(r) \/ DeletePermission(r) PROVE SeedInv'
  <2>1. Moved(r) /\ req'[r].op \in {"rename", "remove"}
    BY <1>8, RenameCall, DeletePermissionCall DEF Ended
  <2>2. Takes(r)'  BY <2>1 DEF Takes
  <2> QED  BY <2>1, <2>2, SeedStays
<1>9. ASSUME NEW u \in Users, Reload(u) PROVE SeedInv'
  BY <1>9 DEF Reload, tables, SeedInv, MayTake, Takes, At, Granted
<1>10. CASE UNCHANGED permissionVars
  BY <1>10 DEF permissionVars, tables, SeedInv, MayTake, Takes, At, Granted
<1>11. ASSUME NEW r \in Requests, WritesGrants(r) PROVE SeedInv'
  BY <1>3, <1>4, <1>5, <1>11, SeedGrants DEF WritesGrants
<1>12. ASSUME NEW r \in Requests, WritesNames(r) PROVE SeedInv'
  BY <1>7, <1>8, <1>12, SeedBegins DEF WritesNames
<1> QED  BY <1>2, <1>6, <1>9, <1>10, <1>11, <1>12, StepCases

\* Only the last grant of a seed script ends it well.
LEMMA SeedEnds ==
  ASSUME CallInv, [Next]_permissionVars, NEW r \in Requests, req[r].op = "seed",
         InFlight(r), req'[r].result = "ok"
  PROVE  \E ro \in Roles : SeedGrant(r, ro) /\ req'[r].list = {}
<1>1. req[r].pc = "seedGrants" /\ req[r].result = "none"
  BY DEF CallInv, Calls, Route, InFlight, At
<1>2. ASSUME NEW s \in Requests, Moved(s) PROVE s = r
  BY <1>1, <1>2 DEF Moved, Others
<1>3. ASSUME NEW s \in Requests, Looks(s) PROVE FALSE
  <2>1. s = r  BY <1>2, <1>3, LookSteps DEF Looks
  <2>2. CASE Fail(s)  BY <2>1, <2>2, FailCall DEF Ended
  <2>3. CASE ~Fail(s)
    BY <1>1, <1>3, <2>1, <2>3, ReadMembersCall, CheckTypesCall, TellCall
    DEF Looks, CreatePermission, UpdatePermission, RemovePermission, UpdateRole,
        UpdateUser, Assign, Unassign, Look, At
  <2> QED  BY <2>2, <2>3
<1>4. ASSUME NEW s \in Requests, WritesPeople(s) \/ WritesNames(s) PROVE FALSE
  <2>1. CASE WritesNames(s)
    <3>1. Moved(s) /\ req[s].pc # "seedGrants"
      BY <2>1, InsertPermissionCall, RenameCall, DeletePermissionCall, SeedCall
      DEF WritesNames, Ended, Begun
    <3> QED  BY <1>1, <1>2, <3>1
  <2>2. CASE RoleRow(s) \/ ClearRoles(s) \/ FillRoles(s) \/ UserRow(s)
    <3>1. Moved(s) /\ req[s].pc # "seedGrants"
      BY <2>2, RoleRowCall, UserCalls DEF Ended, Went
    <3> QED  BY <1>1, <1>2, <3>1
  <2>3. CASE AssignRole(s) \/ UnassignRole(s)
    <3>1. Moved(s) /\ req[s].pc # "seedGrants"
      BY <2>3, AssignRoleCall DEF Went
    <3> QED  BY <1>1, <1>2, <3>1
  <2> QED  BY <1>4, <2>1, <2>2, <2>3 DEF WritesPeople
<1>5. ASSUME NEW s \in Requests, WritesGrants(s)
      PROVE  \E ro \in Roles : SeedGrant(r, ro) /\ req'[r].list = {}
  <2>1. CASE \E ro \in Roles : SeedGrant(s, ro)
    <3>1. PICK ro \in Roles : SeedGrant(s, ro)  BY <2>1
    <3>2. s = r  BY <1>2, <3>1, SeedGrantCall
    <3>3. req'[r].list = {}
      BY <3>1, <3>2, SeedGrantCall DEF Moved, Calls, Route
    <3> QED  BY <3>1, <3>2, <3>3
  <2>2. CASE ~\E ro \in Roles : SeedGrant(s, ro)
    <3>1. Moved(s) /\ req[s].pc # "seedGrants"
      BY <1>5, <2>2, GrantCall, RevokeCall, ClearCall, FillCall, NewCall
      DEF WritesGrants, Ended, Begun, Grant
    <3> QED  BY <1>1, <1>2, <3>1
  <2> QED  BY <2>1, <2>2
<1>6. ASSUME req' = req PROVE FALSE  BY <1>1, <1>6
<1> QED  BY <1>3, <1>4, <1>5, <1>6, StepCases DEF Reload, permissionVars

(***************************************************************************)
(* When the seed script has ended, every role of its map has the           *)
(* permission, whatever an earlier run that died left behind, unless a     *)
(* request that had not ended when the script began can have taken it      *)
(* (seed.js:129-168).                                                      *)
(***************************************************************************)
THEOREM SeedCorrect == Spec => SeedComplete
<1>1. Init => SeedInv  BY DEF Init, NewRequest, SeedInv
<1>2. CallInv /\ SeedInv /\ [Next]_permissionVars => SeedInv'
  BY SeedNext
<1>3. ASSUME CallInv, SeedInv, [Next]_permissionVars, NEW r \in Requests,
             req[r].op = "seed", InFlight(r), req'[r].result = "ok"
      PROVE  \/ \A ro \in SeedRoles : \E p \in PermissionIds :
                  name[p] = SeedName /\ <<ro, p>> \in grant'
             \/ \E s \in Requests \ req[r].before : Takes(s)
  <2>1. PICK ro \in Roles : SeedGrant(r, ro) /\ req'[r].list = {}
    BY <1>3, SeedEnds
  <2>2. MayTake(r) \/ Granted(SeedRoles \ req[r].list)'  BY <1>3, <2>1, SeedGrants
  <2>3. name' = name  BY <2>1 DEF SeedGrant
  <2> QED  BY <2>1, <2>2, <2>3 DEF MayTake, Granted
<1>4. CallInv /\ SeedInv /\ [Next]_permissionVars =>
        [\A r \in Requests : req[r].op = "seed" /\ InFlight(r) /\ req'[r].result = "ok" =>
           \/ \A ro \in SeedRoles : \E p \in PermissionIds :
                name[p] = SeedName /\ <<ro, p>> \in grant'
           \/ \E s \in Requests \ req[r].before : Takes(s)]_permissionVars
  BY <1>3
<1> QED  BY <1>1, <1>2, <1>4, OfficeCorrect, PTL DEF Spec, SeedComplete
=============================================================================
