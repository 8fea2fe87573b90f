---------------------- MODULE AccessAndSettingsProofs -----------------------
(***************************************************************************)
(* What the checks of AccessControl are worth when they are acted upon,    *)
(* for any office and any number of requests.                              *)
(*                                                                         *)
(* The invariant says of each request what is still true of the rows it    *)
(* read: the roles it was allowed to give are still below the requester's  *)
(* rank or were changed, and what a guard saw of the target holds as long  *)
(* as nobody has written the target's roles.                               *)
(*                                                                         *)
(* The second part is about Settings, which shares no name with            *)
(* AccessControl: each part uses the definitions of its own component.     *)
(***************************************************************************)
EXTENDS AccessControl, Settings, TLAPS

Pcs == { "new", "done", "protect", "restrict", "find", "rank", "clear", "fill",
         "write", "delete", "insert", "findRole", "findUser", "upsert", "findHeld",
         "revoke", "findRetyped", "retype", "findRemoved", "count", "remove" }

Results == { "none", "served", "refused", "failed", "torn" }

OnUser == { "protect", "restrict", "find", "rank", "clear", "fill", "write", "delete",
            "insert", "findRole", "findUser", "upsert", "findHeld", "revoke" }

\* Which operation a request is at, and the parameters it has.
Shape(r) ==
  /\ req[r].pc \in OnUser => req[r].target \in Users
  /\ req[r].op \in { "update", "remove" } => req[r].target \in Users
  /\ req[r].pc \in { "protect", "delete" } => req[r].op = "remove"
  /\ req[r].pc \in { "restrict", "find" } => req[r].op \in { "update", "remove" }
  /\ req[r].pc = "rank" => req[r].op \in { "update", "create" } /\ req[r].wanted # {}
  /\ req[r].pc \in { "clear", "fill" } => req[r].op = "update" /\ req[r].wanted # {}
  /\ req[r].pc = "write" => req[r].op = "update"
  /\ req[r].pc = "insert" => req[r].op = "create"
  /\ req[r].pc \in { "findRole", "findUser", "upsert" } => req[r].op = "assign"
  /\ req[r].pc \in { "findHeld", "revoke" } => req[r].op = "revoke"
  /\ req[r].pc \in { "findRetyped", "retype" } => req[r].op = "updateRole"
  /\ req[r].pc \in { "findRemoved", "count", "remove" } => req[r].op = "removeRole"
  /\ req[r].op = "removeRole" => \E x \in Roles : req[r].wanted = {x}
  /\ req[r].pc # "done" => req[r].result = "none"
  /\ req[r].pc = "new" => req[r].before = 0

Named(r) == \A x \in req[r].wanted : role[x] # "absent"

\* What the check of the ranks found.
Ranked(r) ==
  req[r].pc \in { "clear", "fill", "insert", "findUser", "upsert" }
    /\ SUPER_ADMIN \notin req[r].types =>
      \A x \in req[r].wanted : Outranks(req[r].types, type[x]) \/ x \in retyped

\* What the guards found.
Guarded(r) ==
  /\ \/ req[r].op = "remove" /\ req[r].pc \in { "restrict", "find", "delete" }
     \/ /\ req[r].op = "update" /\ NOTARIO \in req[r].types
        /\ req[r].pc \in { "find", "rank", "clear" }
  /\ changed[req[r].target] = req[r].before
  /\ FoundSuperAdmin(req[r].target)
  => userRoles[req[r].target] \cap retyped # {}

Looked(r) ==
  req[r].op \in { "update", "remove" } => req[r].before <= changed[req[r].target]

Emptied(r) ==
  At(r, "fill") /\ changed[req[r].target] = req[r].before => userRoles[req[r].target] = {}

\* What the removal of a role counted.
Tallied(r) ==
  req[r].op = "removeRole" =>
    \A x \in req[r].wanted :
      /\ req[r].before <= joined[x]
      /\ At(r, "remove") \/ req[r].result = "served" =>
           ((\E u \in Users : x \in userRoles[u]) => joined[x] # req[r].before)

Good(r) ==
  Shape(r) /\ Named(r) /\ Ranked(r) /\ Guarded(r) /\ Looked(r) /\ Emptied(r) /\ Tallied(r)

HeldExist == \A u \in Users : \A x \in userRoles[u] : role[x] # "absent"

Deleted ==
  \A x \in Roles : role[x] = "deleted" =>
    \E r \in Requests :
      req[r].op = "removeRole" /\ x \in req[r].wanted /\ req[r].result = "served"

\* RolelessExplained, of users that do not exist yet as well.
Roleless ==
  \A u \in Users : userRoles[u] = {} /\ u \notin bare =>
    \E r \in Requests : req[r].target = u /\ (At(r, "fill") \/ req[r].result = "torn")

AccessInv ==
  TypeOK /\ (\A r \in Requests : Good(r)) /\ HeldExist /\ Roleless /\ Deleted

----------------------------------------------------------------------------
(***************************************************************************)
(* A step writes the record of its own request only.                       *)
(***************************************************************************)
Others(r) == \A q \in Requests \ {r} : req'[q] = req[q]

\* The request and its parameters.
SameRequest(r) ==
  /\ req'[r].op = req[r].op /\ req'[r].by = req[r].by /\ req'[r].types = req[r].types
  /\ req'[r].target = req[r].target /\ req'[r].wanted = req[r].wanted
  /\ req'[r].newType = req[r].newType

LEMMA BecomeOnly ==
  ASSUME TypeOK, NEW r \in Requests, NEW x, Become(r, x)
  PROVE  /\ req'[r] = x
         /\ Others(r)
         /\ x \in RequestState => req' \in [Requests -> RequestState]
  BY DEF Become, TypeOK, Others

LEMMA GotoOnly ==
  ASSUME TypeOK, NEW r \in Requests, NEW pc \in Pcs, Goto(r, pc)
  PROVE  /\ req' \in [Requests -> RequestState] /\ Others(r) /\ SameRequest(r)
         /\ req'[r].pc = pc /\ req'[r].result = req[r].result
         /\ req'[r].before = req[r].before
<1> DEFINE x == [req[r] EXCEPT !.pc = pc]
<1>1. req[r] \in RequestState  BY DEF TypeOK
<1>2. /\ x \in RequestState /\ x.pc = pc /\ x.result = req[r].result
      /\ x.before = req[r].before /\ x.op = req[r].op /\ x.by = req[r].by
      /\ x.types = req[r].types /\ x.target = req[r].target
      /\ x.wanted = req[r].wanted /\ x.newType = req[r].newType
  BY <1>1 DEF RequestState, Pcs
<1>3. Become(r, x)  BY DEF Goto
<1> HIDE DEF x
<1> QED  BY <1>2, <1>3, BecomeOnly DEF SameRequest

LEMMA FinishOnly ==
  ASSUME TypeOK, NEW r \in Requests, NEW result \in Results, Finish(r, result)
  PROVE  /\ req' \in [Requests -> RequestState] /\ Others(r) /\ SameRequest(r)
         /\ req'[r].pc = "done" /\ req'[r].result = result
         /\ req'[r].before = req[r].before
<1> DEFINE x == [req[r] EXCEPT !.pc = "done", !.result = result]
<1>1. req[r] \in RequestState  BY DEF TypeOK
<1>2. /\ x \in RequestState /\ x.pc = "done" /\ x.result = result
      /\ x.before = req[r].before /\ x.op = req[r].op /\ x.by = req[r].by
      /\ x.types = req[r].types /\ x.target = req[r].target
      /\ x.wanted = req[r].wanted /\ x.newType = req[r].newType
  BY <1>1 DEF RequestState, Results
<1>3. Become(r, x)  BY DEF Finish
<1> HIDE DEF x
<1> QED  BY <1>2, <1>3, BecomeOnly DEF SameRequest

LEMMA LookOnly ==
  ASSUME TypeOK, NEW r \in Requests, NEW pc \in Pcs, NEW n \in Nat,
         Become(r, [req[r] EXCEPT !.pc = pc, !.before = n])
  PROVE  /\ req' \in [Requests -> RequestState] /\ Others(r) /\ SameRequest(r)
         /\ req'[r].pc = pc /\ req'[r].result = req[r].result
         /\ req'[r].before = n
<1> DEFINE x == [req[r] EXCEPT !.pc = pc, !.before = n]
<1>1. req[r] \in RequestState  BY DEF TypeOK
<1>2. /\ x \in RequestState /\ x.pc = pc /\ x.result = req[r].result
      /\ x.before = n /\ x.op = req[r].op /\ x.by = req[r].by
      /\ x.types = req[r].types /\ x.target = req[r].target
      /\ x.wanted = req[r].wanted /\ x.newType = req[r].newType
  BY <1>1 DEF RequestState, Pcs
<1>3. Become(r, x)  OBVIOUS
<1> HIDE DEF x
<1> QED  BY <1>2, <1>3, BecomeOnly DEF SameRequest

----------------------------------------------------------------------------
(***************************************************************************)
(* What every step leaves of the tables: the counts only grow, roles that  *)
(* are not written are as they were, and a role that exists goes on to     *)
(* exist, with its type unless that is on record as changed.               *)
(***************************************************************************)
Grows ==
  /\ \A u \in Users :
       /\ changed[u] <= changed'[u]
       /\ changed'[u] = changed[u] =>
            /\ userRoles'[u] = userRoles[u]
            /\ user'[u] = "present" => user[u] = "present"
  /\ \A x \in Roles :
       /\ joined[x] <= joined'[x]
       /\ joined'[x] = joined[x] => \A u \in Users : x \in userRoles'[u] => x \in userRoles[u]
       /\ role[x] # "absent" => role'[x] # "absent" /\ (type'[x] = type[x] \/ x \in retyped')
  /\ retyped \subseteq retyped'

tables == <<user, roleRows, holdings>>

LEMMA StillGrows ==
  ASSUME TypeOK, UNCHANGED tables
  PROVE  Grows
BY DEF TypeOK, Grows, tables, roleRows, holdings

\* A guard's finding outlives what others write.
LEMMA GuardStands ==
  ASSUME TypeOK, TypeOK', HeldExist, Grows, NEW u \in Users, NEW n \in Nat, n <= changed[u],
         changed[u] = n /\ FoundSuperAdmin(u) => userRoles[u] \cap retyped # {},
         changed'[u] = n, FoundSuperAdmin(u)'
  PROVE  userRoles'[u] \cap retyped' # {}
<1>1. changed[u] = n  BY DEF TypeOK, Grows
<1>2. userRoles'[u] = userRoles[u] /\ user[u] = "present"
  BY <1>1 DEF Grows, FoundSuperAdmin
<1>3. PICK x \in userRoles[u] : type'[x] = SUPER_ADMIN
  BY <1>2 DEF FoundSuperAdmin, IsSuperAdmin, TypesOf
<1>4. x \in Roles /\ role[x] # "absent"  BY DEF TypeOK, HeldExist
<1>5. CASE x \in retyped'  BY <1>2, <1>5
<1>6. CASE type'[x] = type[x]
  <2>1. FoundSuperAdmin(u)  BY <1>2, <1>3, <1>6 DEF FoundSuperAdmin, IsSuperAdmin, TypesOf
  <2> QED  BY <1>1, <1>2, <2>1 DEF Grows
<1> QED  BY <1>4, <1>5, <1>6 DEF Grows

LEMMA RankStands ==
  ASSUME Grows, NEW types, NEW x \in Roles, role[x] # "absent",
         Outranks(types, type[x]) \/ x \in retyped
  PROVE  Outranks(types, type'[x]) \/ x \in retyped'
BY DEF Grows

LEMMA CountStands ==
  ASSUME TypeOK, TypeOK', Grows, NEW x \in Roles, NEW n \in Nat, n <= joined[x]
  PROVE  /\ n <= joined'[x]
         /\ ((\E u \in Users : x \in userRoles[u]) => joined[x] # n)
              => ((\E u \in Users : x \in userRoles'[u]) => joined'[x] # n)
<1>1. joined[x] \in Nat /\ joined'[x] \in Nat /\ joined[x] <= joined'[x]
  BY DEF TypeOK, Grows
<1>2. n <= joined'[x]  BY <1>1
<1>3. CASE joined'[x] = joined[x]  BY <1>2, <1>3 DEF Grows
<1>4. CASE joined'[x] # joined[x]
  <2>1. joined'[x] # n  BY <1>1, <1>4
  <2> QED  BY <1>2, <2>1
<1> QED  BY <1>3, <1>4

LEMMA GoodBeside ==
  ASSUME TypeOK, TypeOK', HeldExist, Grows, NEW q \in Requests, Good(q), req'[q] = req[q]
  PROVE  Good(q)'
<1>1. /\ req[q] \in RequestState /\ req[q].wanted \subseteq Roles /\ req[q].before \in Nat
  BY DEF TypeOK, RequestState
<1>2. Shape(q)'  BY DEF Good, Shape
<1>3. Named(q)'  BY <1>1 DEF Good, Named, Grows
<1>4. Ranked(q)'  BY <1>1, RankStands DEF Good, Ranked, Named
<1>5. Looked(q)'
  <2>1. SUFFICES ASSUME req[q].op \in { "update", "remove" }
                 PROVE  req[q].before <= changed'[req[q].target]
    BY DEF Looked
  <2>2. req[q].target \in Users  BY <2>1 DEF Good, Shape
  <2>3. /\ changed[req[q].target] \in Nat /\ changed'[req[q].target] \in Nat
        /\ changed[req[q].target] <= changed'[req[q].target]
    BY <2>2 DEF TypeOK, Grows
  <2> QED  BY <1>1, <2>1, <2>3 DEF Good, Looked
<1>6. Guarded(q)'
  <2>1. SUFFICES ASSUME \/ req[q].op = "remove" /\ req[q].pc \in { "restrict", "find", "delete" }
                        \/ /\ req[q].op = "update" /\ NOTARIO \in req[q].types
                           /\ req[q].pc \in { "find", "rank", "clear" },
                        changed'[req[q].target] = req[q].before,
                        FoundSuperAdmin(req[q].target)'
                 PROVE  userRoles'[req[q].target] \cap retyped' # {}
    BY DEF Guarded
  <2>2. req[q].target \in Users /\ req[q].before <= changed[req[q].target]
    BY <2>1 DEF Good, Shape, Looked
  <2>3. changed[req[q].target] = req[q].before /\ FoundSuperAdmin(req[q].target)
           => userRoles[req[q].target] \cap retyped # {}
    BY <2>1 DEF Good, Guarded
  <2>4. FoundSuperAdmin(req[q].target)'  BY <2>1
  <2> DEFINE u == req[q].target
             n == req[q].before
  <2>5. u' = u  OBVIOUS
  <2>6. user'[u] = "present" /\ SUPER_ADMIN \in {type'[x] : x \in userRoles'[u]}
    BY <2>4 DEF FoundSuperAdmin, IsSuperAdmin, TypesOf
  <2> HIDE DEF u
  <2>7. ASSUME NEW v \in Users, v = u PROVE FoundSuperAdmin(v)'
    BY <2>6, <2>7 DEF FoundSuperAdmin, IsSuperAdmin, TypesOf
  <2> QED  BY <1>1, <2>1, <2>2, <2>3, <2>7, GuardStands DEF u
<1>7. Emptied(q)'
  <2>1. SUFFICES ASSUME At(q, "fill"), changed'[req[q].target] = req[q].before
                 PROVE  userRoles'[req[q].target] = {}
    BY DEF Emptied, At
  <2>2. req[q].target \in Users /\ req[q].before <= changed[req[q].target]
    BY <2>1 DEF Good, Shape, Looked, At
  <2>3. changed[req[q].target] = req[q].before
    BY <1>1, <2>1, <2>2 DEF TypeOK, Grows
  <2> QED  BY <2>1, <2>2, <2>3 DEF Good, Emptied, Grows
<1>8. Tallied(q)'
  BY <1>1, CountStands DEF Good, Tallied, At
<1> QED  BY <1>2, <1>3, <1>4, <1>5, <1>6, <1>7, <1>8 DEF Good

----------------------------------------------------------------------------
(***************************************************************************)
(* The end of a request, and a step that changes no table.                 *)
(***************************************************************************)
LEMMA GoodAtEnd ==
  ASSUME TypeOK, TypeOK', HeldExist, Grows, NEW r \in Requests, Good(r), SameRequest(r),
         req'[r].pc = "done", req'[r].before = req[r].before,
         req'[r].result = "served" => req[r].op # "removeRole" \/ At(r, "remove"),
         ~At(r, "done")
  PROVE  Good(r)'
<1>1. /\ req[r] \in RequestState /\ req[r].wanted \subseteq Roles /\ req[r].before \in Nat
  BY DEF TypeOK, RequestState
<1>2. Shape(r)'  BY DEF Good, Shape, SameRequest, OnUser
<1>3. Named(r)'  BY <1>1 DEF Good, Named, Grows, SameRequest
<1>4. Ranked(r)' /\ Guarded(r)' /\ Emptied(r)'  BY DEF Ranked, Guarded, Emptied, At
<1>5. Looked(r)'
  <2>1. SUFFICES ASSUME req[r].op \in { "update", "remove" }
                 PROVE  req[r].before <= changed'[req[r].target]
    BY DEF Looked, SameRequest
  <2>2. req[r].target \in Users  BY <2>1 DEF Good, Shape
  <2>3. /\ changed[req[r].target] \in Nat /\ changed'[req[r].target] \in Nat
        /\ changed[req[r].target] <= changed'[req[r].target]
    BY <2>2 DEF TypeOK, Grows
  <2> QED  BY <1>1, <2>1, <2>3 DEF Good, Looked
<1>6. Tallied(r)'
  <2>1. req[r].result = "none"  BY DEF Good, Shape, At
  <2> QED  BY <1>1, <2>1, CountStands DEF Good, Tallied, At, SameRequest
<1> QED  BY <1>2, <1>3, <1>4, <1>5, <1>6 DEF Good

LEMMA AllGood ==
  ASSUME AccessInv, TypeOK', Grows, NEW r \in Requests, Others(r), Good(r)'
  PROVE  \A q \in Requests : Good(q)'
BY GoodBeside DEF AccessInv, Others

LEMMA RolelessStands ==
  ASSUME AccessInv, NEW r \in Requests, Others(r), ~At(r, "done"),
         At(r, "fill") => req'[r].result = "torn" /\ SameRequest(r),
         NEW u \in Users, userRoles[u] = {}, u \notin bare
  PROVE  \E q \in Requests : req'[q].target = u /\ (At(q, "fill")' \/ req'[q].result = "torn")
<1>1. PICK q \in Requests : req[q].target = u /\ (At(q, "fill") \/ req[q].result = "torn")
  BY DEF AccessInv, Roleless
<1>2. req[r].result = "none"  BY DEF AccessInv, Good, Shape, At
<1> QED  BY <1>1, <1>2 DEF Others, SameRequest, At

LEMMA DeletedStands ==
  ASSUME AccessInv, NEW r \in Requests, Others(r), ~At(r, "done"),
         \A x \in Roles : role'[x] = "deleted" /\ role[x] # "deleted" =>
           req'[r].op = "removeRole" /\ x \in req'[r].wanted /\ req'[r].result = "served"
  PROVE  Deleted'
<1>1. req[r].result = "none"  BY DEF AccessInv, Good, Shape, At
<1> QED  BY <1>1 DEF AccessInv, Deleted, Others

LEMMA MoveOn ==
  ASSUME AccessInv, NEW r \in Requests, UNCHANGED tables,
         req' \in [Requests -> RequestState], Others(r), ~At(r, "done"),
         At(r, "fill") => req'[r].result = "torn" /\ SameRequest(r), Good(r)'
  PROVE  AccessInv'
<1> USE DEF tables, roleRows, holdings
<1>1. TypeOK'  BY DEF AccessInv, TypeOK
<1>2. \A q \in Requests : Good(q)'  BY <1>1, AllGood, StillGrows DEF AccessInv
<1>3. HeldExist'  BY DEF AccessInv, HeldExist
<1>4. Roleless'  BY RolelessStands DEF Roleless
<1>5. Deleted'  BY DeletedStands
<1> QED  BY <1>1, <1>2, <1>3, <1>4, <1>5 DEF AccessInv

\* A request is refused, fails, or ends in what leaves the tables alone.
LEMMA EndHere ==
  ASSUME AccessInv, NEW r \in Requests, UNCHANGED tables, NEW result \in Results,
         Finish(r, result), ~At(r, "done"), At(r, "fill") => result = "torn",
         result = "served" => req[r].op # "removeRole"
  PROVE  AccessInv'
<1>1. /\ req' \in [Requests -> RequestState] /\ Others(r) /\ SameRequest(r)
      /\ req'[r].pc = "done" /\ req'[r].result = result /\ req'[r].before = req[r].before
  BY FinishOnly DEF AccessInv
<1>2. TypeOK'  BY <1>1 DEF AccessInv, TypeOK, tables, roleRows, holdings
<1>3. Good(r)'  BY <1>1, <1>2, GoodAtEnd, StillGrows DEF AccessInv
<1> QED  BY <1>1, <1>3, MoveOn

\* A request goes on to the next query, its parameters and counts as they were.
LEMMA GoOn ==
  ASSUME AccessInv, NEW r \in Requests, UNCHANGED tables, NEW pc \in Pcs,
         Goto(r, pc), req[r].pc \notin { "new", "done", "fill", "remove" },
         pc \notin { "new", "done", "fill", "remove" },
         Shape(r)', Ranked(r)', Guarded(r)'
  PROVE  AccessInv'
<1>1. /\ req' \in [Requests -> RequestState] /\ Others(r) /\ SameRequest(r)
      /\ req'[r].pc = pc /\ req'[r].result = req[r].result /\ req'[r].before = req[r].before
  BY GotoOnly DEF AccessInv
<1>2. Good(r)  BY DEF AccessInv
<1>3. req[r].result = "none"  BY <1>2 DEF Good, Shape
<1>4. Named(r)' /\ Looked(r)' /\ Emptied(r)' /\ Tallied(r)'
  BY <1>1, <1>2, <1>3
     DEF Good, Named, Looked, Emptied, Tallied, At, SameRequest, tables, roleRows, holdings
<1>5. Good(r)'  BY <1>4 DEF Good
<1> QED  BY <1>1, <1>5, MoveOn DEF At

----------------------------------------------------------------------------
(***************************************************************************)
(* The steps that only read.                                               *)
(***************************************************************************)
LEMMA StepGoto ==
  ASSUME AccessInv, NEW r \in Requests, NEW pc \in Pcs, Goto(r, pc)
  PROVE  /\ SameRequest(r) /\ req'[r].pc = pc /\ req'[r].result = req[r].result
         /\ req'[r].before = req[r].before /\ Good(r)
BY GotoOnly DEF AccessInv

LEMMA StepPass ==
  ASSUME AccessInv, NEW r \in Requests, UNCHANGED tables, NEW pc \in { "restrict", "find" },
         req[r].op \in { "update", "remove" }, Pass(r, pc),
         req[r].pc \in { "protect", "restrict" },
         pc = "restrict" => req[r].op = "remove",
         req[r].op = "remove" \/ NOTARIO \in req[r].types => ~FoundSuperAdmin(req[r].target)
  PROVE  AccessInv'
<1> DEFINE n == changed[req[r].target]
<1>1. Good(r) /\ req[r].target \in Users /\ pc \in Pcs  BY DEF AccessInv, Good, Shape, Pcs
<1>2. n \in Nat  BY <1>1 DEF AccessInv, TypeOK
<1>3. /\ req' \in [Requests -> RequestState] /\ Others(r) /\ SameRequest(r)
      /\ req'[r].pc = pc /\ req'[r].result = req[r].result /\ req'[r].before = n
  BY <1>1, <1>2, LookOnly DEF AccessInv, Pass
<1>4. Shape(r)'  BY <1>1, <1>3 DEF Good, Shape, SameRequest, OnUser
<1>5. Named(r)' /\ Ranked(r)' /\ Emptied(r)'
  BY <1>1, <1>3 DEF Good, Named, Ranked, Emptied, At, SameRequest, tables, roleRows
<1>6. Looked(r)'  BY <1>2, <1>3 DEF Looked, SameRequest, tables, holdings
<1>7. Tallied(r)'  BY <1>3 DEF Tallied, SameRequest
<1>8. Guarded(r)'
  BY <1>3 DEF Guarded, SameRequest, FoundSuperAdmin, IsSuperAdmin, TypesOf,
              tables, roleRows, holdings
<1>9. Good(r)'  BY <1>4, <1>5, <1>6, <1>7, <1>8 DEF Good
<1> QED  BY <1>3, <1>9, MoveOn DEF At

LEMMA GuardSteps ==
  ASSUME AccessInv, NEW r \in Requests, ProtectSuperAdmin(r) \/ NotarioRestriction(r)
  PROVE  AccessInv'
<1>1. Good(r)  BY DEF AccessInv
<1>2. CASE ProtectSuperAdmin(r)
  <2>1. UNCHANGED tables /\ req[r].pc = "protect" /\ req[r].op = "remove"
    BY <1>1, <1>2 DEF ProtectSuperAdmin, tables, At, Good, Shape
  <2>2. CASE Finish(r, "refused")  BY <2>1, <2>2, EndHere DEF At, Results
  <2>3. CASE ~FoundSuperAdmin(req[r].target) /\ Pass(r, "restrict")
    BY <2>1, <2>3, StepPass
  <2> QED  BY <1>2, <2>2, <2>3 DEF ProtectSuperAdmin
<1>3. CASE NotarioRestriction(r)
  <2>1. UNCHANGED tables /\ req[r].pc = "restrict" /\ req[r].op \in { "update", "remove" }
    BY <1>1, <1>3 DEF NotarioRestriction, tables, At, Good, Shape
  <2>2. CASE Finish(r, "refused")  BY <2>1, <2>2, EndHere DEF At, Results
  <2>3. CASE /\ ~(NOTARIO \in req[r].types /\ FoundSuperAdmin(req[r].target))
             /\ req[r].op = "update" /\ Pass(r, "find")
    BY <2>1, <2>3, StepPass
  <2>4. CASE req[r].op = "remove" /\ Goto(r, "find")
    <3>1. /\ SameRequest(r) /\ req'[r].pc = "find" /\ req'[r].result = req[r].result
          /\ req'[r].before = req[r].before
      BY <2>4, StepGoto DEF Pcs
    <3>2. Shape(r)'  BY <1>1, <2>1, <3>1 DEF Good, Shape, SameRequest, OnUser
    <3>3. Ranked(r)'  BY <3>1 DEF Ranked
    <3>4. Guarded(r)'
      BY <1>1, <2>1, <2>4, <3>1
         DEF Good, Guarded, SameRequest, FoundSuperAdmin, IsSuperAdmin, TypesOf,
             tables, roleRows, holdings
    <3> QED  BY <2>1, <2>4, <3>2, <3>3, <3>4, GoOn DEF Pcs
  <2> QED  BY <1>3, <2>2, <2>3, <2>4 DEF NotarioRestriction
<1> QED  BY <1>2, <1>3

LEMMA FindUserStep ==
  ASSUME AccessInv, NEW r \in Requests, FindUser(r)
  PROVE  AccessInv'
<1>1. Good(r)  BY DEF AccessInv
<1>2. UNCHANGED tables /\ req[r].pc = "find" /\ req[r].op \in { "update", "remove" }
  BY <1>1 DEF FindUser, tables, At, Good, Shape
<1>3. CASE Finish(r, "refused")  BY <1>2, <1>3, EndHere DEF At, Results
<1>4. CASE ~Finish(r, "refused")
  <2>1. PICK pc \in { "delete", "write", "clear", "rank" } :
           /\ Goto(r, pc)
           /\ (pc = "delete") <=> (req[r].op = "remove")
           /\ pc \in { "rank", "clear" } => req[r].wanted # {}
           /\ pc = "clear" => SUPER_ADMIN \in req[r].types
    <3>1. CASE req[r].op = "remove"  BY <1>4, <3>1 DEF FindUser
    <3>2. CASE req[r].op = "update" /\ req[r].wanted = {}  BY <1>4, <3>2 DEF FindUser
    <3>3. CASE req[r].op = "update" /\ req[r].wanted # {} /\ SUPER_ADMIN \in req[r].types
      BY <1>4, <3>3 DEF FindUser
    <3>4. CASE req[r].op = "update" /\ req[r].wanted # {} /\ SUPER_ADMIN \notin req[r].types
      BY <1>4, <3>4 DEF FindUser
    <3> QED  BY <1>2, <3>1, <3>2, <3>3, <3>4
  <2>2. /\ SameRequest(r) /\ req'[r].pc = pc /\ req'[r].result = req[r].result
        /\ req'[r].before = req[r].before
    BY <2>1, StepGoto DEF Pcs
  <2>3. Shape(r)'  BY <1>1, <1>2, <2>1, <2>2 DEF Good, Shape, SameRequest, OnUser
  <2>4. Ranked(r)'  BY <2>1, <2>2 DEF Ranked, SameRequest
  <2>5. Guarded(r)'
    BY <1>1, <1>2, <2>1, <2>2
       DEF Good, Guarded, SameRequest, FoundSuperAdmin, IsSuperAdmin, TypesOf,
           tables, roleRows, holdings
  <2> QED  BY <1>2, <2>1, <2>3, <2>4, <2>5, GoOn DEF Pcs
<1> QED  BY <1>3, <1>4

LEMMA RankCheckStep ==
  ASSUME AccessInv, NEW r \in Requests, RankCheck(r)
  PROVE  AccessInv'
<1>1. Good(r)  BY DEF AccessInv
<1>2. UNCHANGED tables /\ req[r].pc = "rank" /\ req[r].op \in { "update", "create" }
  BY <1>1 DEF RankCheck, tables, At, Good, Shape
<1>3. CASE Finish(r, "refused")  BY <1>2, <1>3, EndHere DEF At, Results
<1>4. CASE ~Finish(r, "refused")
  <2> DEFINE pc == IF req[r].op = "create" THEN "insert" ELSE "clear"
  <2>1. Goto(r, pc) /\ \A x \in req[r].wanted : Outranks(req[r].types, type[x])
    BY <1>4 DEF RankCheck
  <2>2. /\ SameRequest(r) /\ req'[r].pc = pc /\ req'[r].result = req[r].result
        /\ req'[r].before = req[r].before
    BY <2>1, StepGoto DEF Pcs
  <2>3. Shape(r)'  BY <1>1, <1>2, <2>2 DEF Good, Shape, SameRequest, OnUser
  <2>4. Ranked(r)'
    BY <1>2, <2>1, <2>2 DEF Ranked, SameRequest, Outranks, tables, roleRows
  <2>5. Guarded(r)'
    BY <1>1, <1>2, <2>2
       DEF Good, Guarded, SameRequest, FoundSuperAdmin, IsSuperAdmin, TypesOf,
           tables, roleRows, holdings
  <2> QED  BY <1>2, <2>1, <2>3, <2>4, <2>5, GoOn DEF Pcs
<1> QED  BY <1>3, <1>4

LEMMA FindSteps ==
  ASSUME AccessInv, NEW r \in Requests,
         \/ AssignFindRole(r) \/ AssignFindUser(r) \/ RevokeFindRole(r)
         \/ UpdateRoleFind(r) \/ RemoveRoleFind(r)
  PROVE  AccessInv'
<1>1. Good(r)  BY DEF AccessInv
<1>2. /\ UNCHANGED tables
      /\ req[r].pc \in { "findRole", "findUser", "findHeld", "findRetyped", "findRemoved" }
  BY DEF AssignFindRole, AssignFindUser, RevokeFindRole, UpdateRoleFind, RemoveRoleFind,
         tables, At
<1>3. CASE Finish(r, "refused")  BY <1>2, <1>3, EndHere DEF At, Results
<1>4. CASE ~Finish(r, "refused")
  <2>1. PICK pc \in { "findUser", "upsert", "revoke", "retype", "count" } :
           /\ Goto(r, pc)
           /\ pc = "findUser" => req[r].pc = "findRole"
                /\ \A x \in req[r].wanted : Outranks(req[r].types, type[x])
           /\ pc = "upsert" => req[r].pc = "findUser"
           /\ pc = "revoke" => req[r].pc = "findHeld"
           /\ pc = "retype" => req[r].pc = "findRetyped"
           /\ pc = "count" => req[r].pc = "findRemoved"
    BY <1>4 DEF AssignFindRole, AssignFindUser, RevokeFindRole, UpdateRoleFind,
                RemoveRoleFind, At
  <2>2. /\ SameRequest(r) /\ req'[r].pc = pc /\ req'[r].result = req[r].result
        /\ req'[r].before = req[r].before
    BY <2>1, StepGoto DEF Pcs
  <2>3. Shape(r)'  BY <1>1, <1>2, <2>1, <2>2 DEF Good, Shape, SameRequest, OnUser
  <2>4. Ranked(r)'
    BY <1>1, <1>2, <2>1, <2>2
       DEF Good, Ranked, SameRequest, Outranks, tables, roleRows
  <2>5. Guarded(r)'
    BY <2>2, <2>1 DEF Guarded
  <2> QED  BY <1>2, <2>1, <2>3, <2>4, <2>5, GoOn DEF Pcs
<1> QED  BY <1>3, <1>4

LEMMA CountStep ==
  ASSUME AccessInv, NEW r \in Requests, RemoveRoleCount(r)
  PROVE  AccessInv'
<1>1. Good(r)  BY DEF AccessInv
<1>2. UNCHANGED tables /\ req[r].pc = "count" /\ req[r].op = "removeRole"
  BY <1>1 DEF RemoveRoleCount, tables, At, Good, Shape
<1>3. CASE Finish(r, "refused")  BY <1>2, <1>3, EndHere DEF At, Results
<1>4. CASE Counted(r) /\ ~(\E u \in Users : userRoles[u] \cap req[r].wanted # {})
  <2>1. PICK x \in req[r].wanted :
           Become(r, [req[r] EXCEPT !.pc = "remove", !.before = joined[x]])
    BY <1>4 DEF Counted
  <2>2. PICK y \in Roles : req[r].wanted = {y}  BY <1>1, <1>2 DEF Good, Shape
  <2>3. x \in Roles /\ req[r].wanted = {x} /\ joined[x] \in Nat
    BY <2>1, <2>2 DEF AccessInv, TypeOK
  <2>4. /\ req' \in [Requests -> RequestState] /\ Others(r) /\ SameRequest(r)
        /\ req'[r].pc = "remove" /\ req'[r].result = req[r].result
        /\ req'[r].before = joined[x]
    <3>1. TypeOK /\ "remove" \in Pcs  BY DEF AccessInv, Pcs
    <3> QED  BY <2>1, <2>3, <3>1, LookOnly
  <2>5. Shape(r)'  BY <1>1, <1>2, <2>4 DEF Good, Shape, SameRequest, OnUser
  <2>6. Named(r)'  BY <1>1, <1>2, <2>4 DEF Good, Named, SameRequest, tables, roleRows
  <2>7. Ranked(r)' /\ Guarded(r)' /\ Looked(r)' /\ Emptied(r)'
    BY <1>2, <2>4 DEF Ranked, Guarded, Looked, Emptied, At, SameRequest
  <2>8. Tallied(r)'
    BY <1>2, <1>4, <2>3, <2>4 DEF Tallied, SameRequest, tables, holdings
  <2>9. Good(r)'  BY <2>5, <2>6, <2>7, <2>8 DEF Good
  <2> QED  BY <1>2, <2>4, <2>9, MoveOn DEF At
<1> QED  BY <1>3, <1>4 DEF RemoveRoleCount

LEMMA WriteAndFail ==
  ASSUME AccessInv, NEW r \in Requests, WriteUser(r) \/ Fail(r)
  PROVE  AccessInv'
<1>1. Good(r)  BY DEF AccessInv
<1>2. CASE WriteUser(r)
  BY <1>1, <1>2, EndHere DEF WriteUser, Good, Shape, At, Results, tables
<1>3. CASE Fail(r)
  BY <1>1, <1>3, EndHere DEF Fail, Good, Shape, At, Results, tables
<1> QED  BY <1>2, <1>3

----------------------------------------------------------------------------
(***************************************************************************)
(* The steps that write the tables.                                        *)
(***************************************************************************)
LEMMA EndWritten ==
  ASSUME AccessInv, NEW r \in Requests, NEW result \in Results, Finish(r, result),
         ~At(r, "done"), result = "served" => req[r].op # "removeRole" \/ At(r, "remove"),
         user' \in [Users -> Status], role' \in [Roles -> Status], type' \in [Roles -> Types],
         userRoles' \in [Users -> SUBSET Roles], changed' \in [Users -> Nat],
         joined' \in [Roles -> Nat], retyped' \subseteq Roles, bare' \subseteq Users,
         Grows, HeldExist', Roleless', Deleted'
  PROVE  AccessInv'
<1>1. /\ req' \in [Requests -> RequestState] /\ Others(r) /\ SameRequest(r)
      /\ req'[r].pc = "done" /\ req'[r].result = result /\ req'[r].before = req[r].before
  BY FinishOnly DEF AccessInv
<1>2. TypeOK'  BY <1>1 DEF TypeOK
<1>3. Good(r)'  BY <1>1, <1>2, GoodAtEnd DEF AccessInv
<1>4. \A q \in Requests : Good(q)'  BY <1>1, <1>2, <1>3, AllGood
<1> QED  BY <1>2, <1>4 DEF AccessInv

\* Others and SameRequest, for the steps that end a request.
LEMMA Ended ==
  ASSUME AccessInv, NEW r \in Requests, NEW result \in Results, Finish(r, result)
  PROVE  /\ Others(r) /\ SameRequest(r) /\ Good(r)
         /\ req'[r].pc = "done" /\ req'[r].result = result
BY FinishOnly DEF AccessInv

LEMMA GiveOnly ==
  ASSUME AccessInv, NEW u \in Users, NEW xs \in SUBSET Roles, Give(u, xs), UNCHANGED roleRows,
         \A v \in Users \ {u} : user'[v] = user[v], \A x \in xs : role[x] # "absent"
  PROVE  /\ userRoles' \in [Users -> SUBSET Roles] /\ changed' \in [Users -> Nat]
         /\ joined' \in [Roles -> Nat]
         /\ userRoles'[u] = userRoles[u] \cup xs
         /\ \A v \in Users \ {u} : userRoles'[v] = userRoles[v]
         /\ Grows /\ HeldExist'
<1>0. TypeOK  BY DEF AccessInv
<1>1. /\ userRoles' \in [Users -> SUBSET Roles] /\ changed' \in [Users -> Nat]
      /\ joined' \in [Roles -> Nat]
  BY <1>0 DEF TypeOK, Give
<1>2. /\ userRoles'[u] = userRoles[u] \cup xs
      /\ \A v \in Users \ {u} : userRoles'[v] = userRoles[v]
  BY <1>0 DEF TypeOK, Give
<1>3. changed'[u] = changed[u] + 1 /\ changed[u] \in Nat
  BY <1>0 DEF TypeOK, Give
<1>4. \A v \in Users \ {u} : changed'[v] = changed[v] /\ changed[v] \in Nat
  BY <1>0 DEF TypeOK, Give
<1>5. \A x \in Roles : /\ joined[x] \in Nat
                       /\ x \in xs => joined'[x] = joined[x] + 1
                       /\ x \notin xs => joined'[x] = joined[x]
  BY <1>0 DEF TypeOK, Give
<1>6. ASSUME NEW v \in Users
      PROVE  /\ changed[v] <= changed'[v]
             /\ changed'[v] = changed[v] =>
                  /\ userRoles'[v] = userRoles[v]
                  /\ user'[v] = "present" => user[v] = "present"
  <2>1. CASE v = u  BY <1>3, <2>1
  <2>2. CASE v # u  BY <1>2, <1>4, <2>2
  <2> QED  BY <2>1, <2>2
<1>7. ASSUME NEW x \in Roles
      PROVE  /\ joined[x] <= joined'[x]
             /\ joined'[x] = joined[x] => \A v \in Users : x \in userRoles'[v] => x \in userRoles[v]
  <2>1. CASE x \in xs  BY <1>5, <2>1
  <2>2. CASE x \notin xs
    <3>1. joined'[x] = joined[x] /\ joined[x] \in Nat  BY <1>5, <2>2
    <3>2. \A v \in Users : x \in userRoles'[v] => x \in userRoles[v]  BY <1>2, <2>2
    <3> QED  BY <3>1, <3>2
  <2> QED  BY <2>1, <2>2
<1>8. Grows  BY <1>6, <1>7 DEF Grows, roleRows
<1>9. HeldExist'
  <2>1. SUFFICES ASSUME NEW v \in Users, NEW x \in userRoles'[v] PROVE role[x] # "absent"
    BY DEF HeldExist, roleRows
  <2> QED  BY <1>2, <2>1 DEF AccessInv, HeldExist
<1> QED  BY <1>1, <1>2, <1>8, <1>9

LEMMA InsertUserStep ==
  ASSUME AccessInv, NEW r \in Requests, InsertUser(r)
  PROVE  AccessInv'
<1> DEFINE u == req[r].target
           xs == req[r].wanted
<1>1. Good(r) /\ req[r].pc = "insert" /\ req[r].op = "create"
  BY DEF AccessInv, InsertUser, At, Good, Shape
<1>2. /\ u \in Users /\ xs \in SUBSET Roles /\ TypeOK /\ user[u] = "absent"
      /\ \A x \in xs : role[x] # "absent"
  BY <1>1 DEF AccessInv, TypeOK, RequestState, Good, Shape, OnUser, Named, InsertUser
<1>3. /\ user' = [user EXCEPT ![u] = "present"] /\ Give(u, xs) /\ UNCHANGED roleRows
      /\ Finish(r, "served") /\ bare' = IF xs = {} THEN bare \cup {u} ELSE bare \ {u}
  BY DEF InsertUser
<1>4. /\ user' \in [Users -> Status] /\ bare' \subseteq Users
      /\ \A v \in Users \ {u} : user'[v] = user[v]
      /\ role' \in [Roles -> Status] /\ type' \in [Roles -> Types] /\ retyped' \subseteq Roles
  BY <1>2, <1>3 DEF TypeOK, Status, roleRows
<1>5. /\ Others(r) /\ SameRequest(r)
  BY <1>3, Ended DEF Results
<1> HIDE DEF u, xs
<1>6. /\ userRoles' \in [Users -> SUBSET Roles] /\ changed' \in [Users -> Nat]
      /\ joined' \in [Roles -> Nat] /\ Grows /\ HeldExist'
      /\ userRoles'[u] = userRoles[u] \cup xs
      /\ \A v \in Users \ {u} : userRoles'[v] = userRoles[v]
  BY <1>2, <1>3, <1>4, GiveOnly
<1>7. Roleless'
  <2>1. SUFFICES ASSUME NEW v \in Users, userRoles'[v] = {}, v \notin bare'
                 PROVE  \E q \in Requests :
                          req'[q].target = v /\ (At(q, "fill")' \/ req'[q].result = "torn")
    BY DEF Roleless
  <2>2. v # u  BY <1>2, <1>3, <1>6, <2>1
  <2>3. userRoles[v] = {} /\ v \notin bare
    BY <1>3, <1>4, <1>6, <2>1, <2>2
  <2> QED  BY <1>1, <1>5, <2>3, RolelessStands DEF At
<1>8. Deleted'  BY <1>1, <1>3, <1>5, DeletedStands DEF At, roleRows
<1> QED  BY <1>1, <1>3, <1>4, <1>6, <1>7, <1>8, EndWritten DEF At, Results

LEMMA AssignRoleStep ==
  ASSUME AccessInv, NEW r \in Requests, AssignRole(r)
  PROVE  AccessInv'
<1> DEFINE u == req[r].target
           xs == req[r].wanted
<1>1. Good(r) /\ req[r].pc = "upsert" /\ req[r].op = "assign"
  BY DEF AccessInv, AssignRole, At, Good, Shape
<1>2. /\ u \in Users /\ xs \in SUBSET Roles /\ TypeOK
      /\ \A x \in xs : role[x] # "absent"
  BY <1>1 DEF AccessInv, TypeOK, RequestState, Good, Shape, OnUser, Named
<1>3. Give(u, xs) /\ UNCHANGED <<user, roleRows, bare>> /\ Finish(r, "served")
  BY DEF AssignRole
<1>4. /\ user' \in [Users -> Status] /\ bare' \subseteq Users
      /\ \A v \in Users \ {u} : user'[v] = user[v]
      /\ role' \in [Roles -> Status] /\ type' \in [Roles -> Types] /\ retyped' \subseteq Roles
  BY <1>2, <1>3 DEF TypeOK, roleRows
<1>5. /\ Others(r) /\ SameRequest(r)
  BY <1>3, Ended DEF Results
<1> HIDE DEF u, xs
<1>6. /\ userRoles' \in [Users -> SUBSET Roles] /\ changed' \in [Users -> Nat]
      /\ joined' \in [Roles -> Nat] /\ Grows /\ HeldExist'
      /\ userRoles'[u] = userRoles[u] \cup xs
      /\ \A v \in Users \ {u} : userRoles'[v] = userRoles[v]
  BY <1>2, <1>3, <1>4, GiveOnly
<1>7. Roleless'
  <2>1. SUFFICES ASSUME NEW v \in Users, userRoles'[v] = {}, v \notin bare'
                 PROVE  \E q \in Requests :
                          req'[q].target = v /\ (At(q, "fill")' \/ req'[q].result = "torn")
    BY DEF Roleless
  <2>2. userRoles[v] = {}  BY <1>6, <2>1
  <2>3. v \notin bare  BY <1>3, <2>1
  <2> QED  BY <1>1, <1>5, <2>2, <2>3, RolelessStands DEF At
<1>8. Deleted'  BY <1>1, <1>3, <1>5, DeletedStands DEF At, roleRows
<1> QED  BY <1>1, <1>3, <1>4, <1>6, <1>7, <1>8, EndWritten DEF At, Results

\* The roles of user u become xs, a subset of what they were.
LEMMA LessOnly ==
  ASSUME AccessInv, NEW u \in Users, NEW xs, xs \subseteq userRoles[u],
         userRoles' = [userRoles EXCEPT ![u] = xs],
         changed' = [changed EXCEPT ![u] = @ + 1],
         UNCHANGED <<user, roleRows, joined>>
  PROVE  /\ userRoles' \in [Users -> SUBSET Roles] /\ changed' \in [Users -> Nat]
         /\ userRoles'[u] = xs /\ changed'[u] = changed[u] + 1 /\ changed[u] \in Nat
         /\ \A v \in Users \ {u} : userRoles'[v] = userRoles[v]
         /\ Grows /\ HeldExist'
<1>0. TypeOK  BY DEF AccessInv
<1>1. userRoles' \in [Users -> SUBSET Roles] /\ changed' \in [Users -> Nat]
  BY <1>0 DEF TypeOK
<1>2. userRoles'[u] = xs /\ \A v \in Users \ {u} : userRoles'[v] = userRoles[v]
  BY <1>0 DEF TypeOK
<1>3. changed'[u] = changed[u] + 1 /\ changed[u] \in Nat
  BY <1>0 DEF TypeOK
<1>4. \A v \in Users \ {u} : changed'[v] = changed[v] /\ changed[v] \in Nat
  BY <1>0 DEF TypeOK
<1>5. \A v \in Users : userRoles'[v] \subseteq userRoles[v]  BY <1>2
<1>6. \A v \in Users : /\ changed[v] <= changed'[v]
                       /\ changed'[v] = changed[v] => userRoles'[v] = userRoles[v]
  BY <1>2, <1>3, <1>4
<1>7. \A x \in Roles : joined[x] \in Nat  BY <1>0 DEF TypeOK
<1>8. Grows  BY <1>5, <1>6, <1>7 DEF Grows, roleRows
<1>9. HeldExist'
  <2>1. SUFFICES ASSUME NEW v \in Users, NEW x \in userRoles'[v] PROVE role[x] # "absent"
    BY DEF HeldExist, roleRows
  <2> QED  BY <1>5, <2>1 DEF AccessInv, HeldExist
<1> QED  BY <1>1, <1>2, <1>3, <1>8, <1>9

LEMMA ClearRolesStep ==
  ASSUME AccessInv, NEW r \in Requests, ClearRoles(r)
  PROVE  AccessInv'
<1> DEFINE u == req[r].target
           n == changed[u] + 1
<1>1. Good(r) /\ req[r].pc = "clear" /\ req[r].op = "update" /\ TypeOK
  BY DEF AccessInv, ClearRoles, At, Good, Shape
<1>2. u \in Users /\ req[r].wanted \subseteq Roles
  BY <1>1 DEF TypeOK, RequestState, Good, Shape, OnUser
<1>3. /\ userRoles' = [userRoles EXCEPT ![u] = {}]
      /\ changed' = [changed EXCEPT ![u] = @ + 1]
      /\ Become(r, [req[r] EXCEPT !.pc = "fill", !.before = n])
      /\ UNCHANGED <<user, roleRows, joined, bare>>
  BY DEF ClearRoles
<1>4. /\ userRoles' \in [Users -> SUBSET Roles] /\ changed' \in [Users -> Nat]
      /\ userRoles'[u] = {} /\ changed'[u] = n /\ n \in Nat
      /\ \A v \in Users \ {u} : userRoles'[v] = userRoles[v]
      /\ Grows /\ HeldExist'
  <2> DEFINE none == {}
  <2>1. none \subseteq userRoles[u] /\ userRoles' = [userRoles EXCEPT ![u] = none]
    BY <1>3
  <2>2. UNCHANGED <<user, roleRows, joined>>  BY <1>3
  <2> HIDE DEF u, n, none
  <2>3. /\ userRoles' \in [Users -> SUBSET Roles] /\ changed' \in [Users -> Nat]
        /\ userRoles'[u] = none /\ changed'[u] = changed[u] + 1 /\ changed[u] \in Nat
        /\ \A v \in Users \ {u} : userRoles'[v] = userRoles[v]
        /\ Grows /\ HeldExist'
    BY <1>2, <1>3, <2>1, <2>2, LessOnly
  <2> QED  BY <2>3 DEF n, none
<1> HIDE DEF n
<1>5. /\ req' \in [Requests -> RequestState] /\ Others(r) /\ SameRequest(r)
      /\ req'[r].pc = "fill" /\ req'[r].result = req[r].result /\ req'[r].before = n
  <2>1. "fill" \in Pcs  BY DEF Pcs
  <2>2. TypeOK /\ n \in Nat /\ Become(r, [req[r] EXCEPT !.pc = "fill", !.before = n])
    BY <1>1, <1>3, <1>4
  <2> QED  BY <2>1, <2>2, LookOnly
<1>6. TypeOK'  BY <1>1, <1>3, <1>4, <1>5 DEF TypeOK, roleRows
<1>7. Shape(r)'  BY <1>1, <1>5 DEF Good, Shape, SameRequest, OnUser
<1>8. Named(r)'  BY <1>1, <1>3, <1>5 DEF Good, Named, SameRequest, roleRows
<1>9. Ranked(r)'
  BY <1>1, <1>3, <1>5 DEF Good, Ranked, SameRequest, Outranks, roleRows
<1>10. Guarded(r)' /\ Tallied(r)'  BY <1>1, <1>5 DEF Guarded, Tallied, SameRequest
<1>11. Looked(r)' /\ Emptied(r)'
  BY <1>4, <1>5 DEF Looked, Emptied, SameRequest
<1>12. \A q \in Requests : Good(q)'
  BY <1>5, <1>6, <1>7, <1>8, <1>9, <1>10, <1>11, <1>4, AllGood DEF Good
<1>13. Roleless'
  <2>1. SUFFICES ASSUME NEW v \in Users, userRoles'[v] = {}, v \notin bare'
                 PROVE  \E q \in Requests :
                          req'[q].target = v /\ (At(q, "fill")' \/ req'[q].result = "torn")
    BY DEF Roleless
  <2>2. CASE v = u  BY <1>5, <2>2 DEF SameRequest, At
  <2>3. CASE v # u
    <3>1. userRoles[v] = {} /\ v \notin bare
      BY <1>3, <1>4, <2>1, <2>3
    <3> QED  BY <1>1, <1>5, <3>1, RolelessStands DEF At
  <2> QED  BY <2>2, <2>3
<1>14. Deleted'  BY <1>1, <1>3, <1>5, DeletedStands DEF At, roleRows
<1> QED  BY <1>4, <1>6, <1>12, <1>13, <1>14 DEF AccessInv

LEMMA FillRolesStep ==
  ASSUME AccessInv, NEW r \in Requests, FillRoles(r)
  PROVE  AccessInv'
<1> DEFINE u == req[r].target
           xs == req[r].wanted
<1>1. Good(r) /\ req[r].pc = "fill" /\ req[r].op = "update" /\ xs # {}
  BY DEF AccessInv, FillRoles, At, Good, Shape
<1>2. /\ u \in Users /\ xs \in SUBSET Roles /\ TypeOK
      /\ \A x \in xs : role[x] # "absent"
  BY <1>1 DEF AccessInv, TypeOK, RequestState, Good, Shape, OnUser, Named
<1>3. Give(u, xs) /\ UNCHANGED <<user, roleRows, bare>> /\ Goto(r, "write")
  BY DEF FillRoles
<1>4. /\ SameRequest(r) /\ req'[r].pc = "write" /\ req'[r].result = req[r].result
      /\ req'[r].before = req[r].before /\ Others(r) /\ req' \in [Requests -> RequestState]
  <2>1. "write" \in Pcs  BY DEF Pcs
  <2> QED  BY <1>2, <1>3, <2>1, GotoOnly
<1> HIDE DEF u, xs
<1>5. /\ userRoles' \in [Users -> SUBSET Roles] /\ changed' \in [Users -> Nat]
      /\ joined' \in [Roles -> Nat] /\ Grows /\ HeldExist'
      /\ userRoles'[u] = userRoles[u] \cup xs
      /\ \A v \in Users \ {u} : userRoles'[v] = userRoles[v]
  BY <1>2, <1>3, GiveOnly
<1>6. TypeOK'  BY <1>2, <1>3, <1>4, <1>5 DEF TypeOK, roleRows
<1>7. Shape(r)'  BY <1>1, <1>4 DEF Good, Shape, SameRequest, OnUser
<1>8. Named(r)'  BY <1>1, <1>3, <1>4 DEF Good, Named, SameRequest, roleRows
<1>9. Ranked(r)' /\ Guarded(r)' /\ Emptied(r)' /\ Tallied(r)'
  BY <1>1, <1>4 DEF Ranked, Guarded, Emptied, Tallied, SameRequest, At
<1>10. Looked(r)'
  <2>1. changed[u] \in Nat /\ changed'[u] \in Nat /\ changed[u] <= changed'[u]
    BY <1>2, <1>5 DEF TypeOK, Grows
  <2>2. req[r].before \in Nat  BY <1>2 DEF TypeOK, RequestState
  <2>3. req[r].before <= changed[u]  BY <1>1 DEF Good, Looked, u
  <2> QED  BY <1>4, <2>1, <2>2, <2>3 DEF Looked, SameRequest, u
<1>11. \A q \in Requests : Good(q)'
  BY <1>4, <1>5, <1>6, <1>7, <1>8, <1>9, <1>10, AllGood DEF Good
<1>12. Roleless'
  <2>1. SUFFICES ASSUME NEW v \in Users, userRoles'[v] = {}, v \notin bare'
                 PROVE  \E q \in Requests :
                          req'[q].target = v /\ (At(q, "fill")' \/ req'[q].result = "torn")
    BY DEF Roleless
  <2>2. v # u /\ userRoles[v] = {} /\ v \notin bare
    BY <1>1, <1>3, <1>5, <2>1
  <2>3. PICK q \in Requests : req[q].target = v /\ (At(q, "fill") \/ req[q].result = "torn")
    BY <2>2 DEF AccessInv, Roleless
  <2>4. q # r  BY <2>2, <2>3 DEF u
  <2> QED  BY <1>4, <2>3, <2>4 DEF Others, At
<1>13. Deleted'  BY <1>1, <1>3, <1>4, DeletedStands DEF At, roleRows
<1> QED  BY <1>5, <1>6, <1>11, <1>12, <1>13 DEF AccessInv

LEMMA RevokeRoleStep ==
  ASSUME AccessInv, NEW r \in Requests, RevokeRole(r)
  PROVE  AccessInv'
<1> DEFINE u == req[r].target
           xs == userRoles[u] \ req[r].wanted
<1>1. Good(r) /\ req[r].pc = "revoke" /\ req[r].op = "revoke" /\ TypeOK
  BY DEF AccessInv, RevokeRole, At, Good, Shape
<1>2. u \in Users /\ xs \subseteq userRoles[u]
  BY <1>1 DEF TypeOK, RequestState, Good, Shape, OnUser
<1>3. /\ userRoles' = [userRoles EXCEPT ![u] = xs]
      /\ changed' = [changed EXCEPT ![u] = @ + 1]
      /\ bare' = bare \cup {u} /\ Finish(r, "served")
      /\ UNCHANGED <<user, roleRows, joined>>
  BY <1>1, <1>2 DEF RevokeRole, TypeOK
<1>4. /\ Others(r) /\ SameRequest(r)
  BY <1>3, Ended DEF Results
<1> HIDE DEF u, xs
<1>5. /\ userRoles' \in [Users -> SUBSET Roles] /\ changed' \in [Users -> Nat]
      /\ \A v \in Users \ {u} : userRoles'[v] = userRoles[v]
      /\ Grows /\ HeldExist'
  BY <1>2, <1>3, LessOnly DEF u
<1>6. /\ user' \in [Users -> Status] /\ role' \in [Roles -> Status] /\ joined' \in [Roles -> Nat]
      /\ type' \in [Roles -> Types] /\ retyped' \subseteq Roles /\ bare' \subseteq Users
  BY <1>1, <1>2, <1>3 DEF TypeOK, roleRows
<1>7. Roleless'
  <2>1. SUFFICES ASSUME NEW v \in Users, userRoles'[v] = {}, v \notin bare'
                 PROVE  \E q \in Requests :
                          req'[q].target = v /\ (At(q, "fill")' \/ req'[q].result = "torn")
    BY DEF Roleless
  <2>2. userRoles[v] = {} /\ v \notin bare
    BY <1>3, <1>5, <2>1
  <2> QED  BY <1>1, <1>4, <2>2, RolelessStands DEF At
<1>8. Deleted'  BY <1>1, <1>3, <1>4, DeletedStands DEF At, roleRows
<1> QED  BY <1>1, <1>3, <1>5, <1>6, <1>7, <1>8, EndWritten DEF At, Results

\* The tables of users and of their roles are left alone.
LEMMA RolesKept ==
  ASSUME AccessInv, NEW r \in Requests, Others(r), ~At(r, "done"), ~At(r, "fill"),
         UNCHANGED <<userRoles, bare>>
  PROVE  Roleless'
BY RolelessStands DEF Roleless

LEMMA DeleteUserStep ==
  ASSUME AccessInv, NEW r \in Requests, DeleteUser(r)
  PROVE  AccessInv'
<1>1. Good(r) /\ req[r].pc = "delete" /\ req[r].op = "remove" /\ TypeOK
  BY DEF AccessInv, DeleteUser, At, Good, Shape
<1>2. /\ user' = [user EXCEPT ![req[r].target] = "deleted"] /\ Finish(r, "served")
      /\ UNCHANGED <<role, type, retyped, userRoles, changed, joined, bare>>
  BY DEF DeleteUser, roleRows, holdings
<1>3. Others(r) /\ SameRequest(r)  BY <1>2, Ended DEF Results
<1>4. /\ user' \in [Users -> Status]
      /\ \A u \in Users : user'[u] = "present" => user[u] = "present"
  BY <1>1, <1>2 DEF TypeOK, Status
<1>5. /\ role' \in [Roles -> Status] /\ type' \in [Roles -> Types]
      /\ userRoles' \in [Users -> SUBSET Roles] /\ changed' \in [Users -> Nat]
      /\ joined' \in [Roles -> Nat] /\ retyped' \subseteq Roles /\ bare' \subseteq Users
  BY <1>1, <1>2 DEF TypeOK
<1>6. Grows  BY <1>1, <1>2, <1>4 DEF Grows, TypeOK
<1>7. HeldExist'  BY <1>2 DEF AccessInv, HeldExist
<1>8. Roleless'  BY <1>1, <1>2, <1>3, RolesKept DEF At
<1>9. Deleted'  BY <1>1, <1>2, <1>3, DeletedStands DEF At
<1> QED  BY <1>1, <1>2, <1>4, <1>5, <1>6, <1>7, <1>8, <1>9, EndWritten DEF At, Results

LEMMA UpdateRoleStep ==
  ASSUME AccessInv, NEW r \in Requests, UpdateRole(r)
  PROVE  AccessInv'
<1>1. Good(r) /\ req[r].pc = "retype" /\ req[r].op = "updateRole" /\ TypeOK
  BY DEF AccessInv, UpdateRole, At, Good, Shape
<1>2. /\ type' = [x \in Roles |-> IF x \in req[r].wanted THEN req[r].newType ELSE type[x]]
      /\ retyped' = retyped \cup Retypes(r) /\ Finish(r, "served")
      /\ UNCHANGED <<user, role, userRoles, changed, joined, bare>>
  BY DEF UpdateRole, holdings
<1>3. Others(r) /\ SameRequest(r)  BY <1>2, Ended DEF Results
<1>4. req[r].newType \in Types /\ req[r].wanted \subseteq Roles
  BY <1>1 DEF TypeOK, RequestState
<1>5. type' \in [Roles -> Types] /\ retyped' \subseteq Roles
  BY <1>1, <1>2, <1>4 DEF TypeOK, Retypes
<1>6. /\ user' \in [Users -> Status] /\ role' \in [Roles -> Status]
      /\ userRoles' \in [Users -> SUBSET Roles] /\ changed' \in [Users -> Nat]
      /\ joined' \in [Roles -> Nat] /\ bare' \subseteq Users
  BY <1>1, <1>2 DEF TypeOK
<1>7. Grows
  <2>1. \A x \in Roles : type'[x] = type[x] \/ x \in retyped'  BY <1>1, <1>2 DEF TypeOK, Retypes
  <2> QED  BY <1>1, <1>2, <2>1 DEF Grows, TypeOK
<1>8. HeldExist'  BY <1>2 DEF AccessInv, HeldExist
<1>9. Roleless'  BY <1>1, <1>2, <1>3, RolesKept DEF At
<1>10. Deleted'  BY <1>1, <1>2, <1>3, DeletedStands DEF At
<1> QED  BY <1>1, <1>2, <1>5, <1>6, <1>7, <1>8, <1>9, <1>10, EndWritten DEF At, Results

LEMMA RemoveRoleStep ==
  ASSUME AccessInv, NEW r \in Requests, RemoveRole(r)
  PROVE  AccessInv'
<1>1. Good(r) /\ req[r].pc = "remove" /\ req[r].op = "removeRole" /\ TypeOK
  BY DEF AccessInv, RemoveRole, At, Good, Shape
<1>2. /\ role' = [x \in Roles |-> IF x \in req[r].wanted THEN "deleted" ELSE role[x]]
      /\ Finish(r, "served")
      /\ UNCHANGED <<user, type, retyped, userRoles, changed, joined, bare>>
  BY DEF RemoveRole, holdings
<1>3. Others(r) /\ SameRequest(r) /\ req'[r].result = "served"
  BY <1>2, Ended DEF Results
<1>4. role' \in [Roles -> Status]  BY <1>1, <1>2 DEF TypeOK, Status
<1>5. /\ user' \in [Users -> Status] /\ type' \in [Roles -> Types] /\ retyped' \subseteq Roles
      /\ userRoles' \in [Users -> SUBSET Roles] /\ changed' \in [Users -> Nat]
      /\ joined' \in [Roles -> Nat] /\ bare' \subseteq Users
  BY <1>1, <1>2 DEF TypeOK
<1>6. \A x \in Roles : /\ role[x] # "absent" => role'[x] # "absent"
                       /\ role'[x] = "deleted" /\ role[x] # "deleted" => x \in req[r].wanted
  BY <1>2
<1>7. Grows  BY <1>1, <1>2, <1>6 DEF Grows, TypeOK
<1>8. HeldExist'  BY <1>1, <1>2, <1>6 DEF AccessInv, HeldExist, TypeOK
<1>9. Roleless'  BY <1>1, <1>2, <1>3, RolesKept DEF At
<1>10. Deleted'  BY <1>1, <1>3, <1>6, DeletedStands DEF At, SameRequest
<1> QED  BY <1>1, <1>2, <1>4, <1>5, <1>7, <1>8, <1>9, <1>10, EndWritten DEF At, Results

----------------------------------------------------------------------------
(***************************************************************************)
(* A request comes in.                                                     *)
(***************************************************************************)
LEMMA TypesTyped ==
  ASSUME TypeOK, NEW u \in Users
  PROVE  TypesOf(u) \in SUBSET Types
BY DEF TypeOK, TypesOf

LEMMA BeginStep ==
  ASSUME AccessInv, NEW r \in Requests, NEW by \in Users,
         NEW op \in Operations, NEW pc \in Pcs, NEW target \in Users \cup {NULL},
         NEW wanted \in SUBSET Roles, NEW newType \in Types,
         Begin(r, by, op, pc, target, wanted, newType),
         \A x \in wanted : role[x] # "absent",
         \/ /\ op = "create" /\ target \in Users
            /\ \/ pc = "insert" /\ (SUPER_ADMIN \in TypesOf(by) \/ wanted = {})
               \/ pc = "rank" /\ wanted # {}
         \/ op = "update" /\ pc = "restrict" /\ target \in Users
         \/ op = "remove" /\ pc = "protect" /\ target \in Users
         \/ op = "assign" /\ pc = "findRole" /\ target \in Users
         \/ op = "revoke" /\ pc = "findHeld" /\ target \in Users
         \/ op = "updateRole" /\ pc = "findRetyped"
         \/ op = "removeRole" /\ pc = "findRemoved" /\ \E x \in Roles : wanted = {x}
  PROVE  AccessInv'
<1> DEFINE x == [req[r] EXCEPT !.pc = pc, !.op = op, !.by = by, !.types = TypesOf(by),
                    !.target = target, !.wanted = wanted, !.newType = newType]
<1>1. Good(r) /\ req[r].pc = "new" /\ TypeOK /\ UNCHANGED tables /\ Become(r, x)
  BY DEF AccessInv, Begin, At, tables
<1>2. req[r] \in RequestState /\ req[r].result = "none" /\ req[r].before = 0
  BY <1>1 DEF TypeOK, Good, Shape
<1>3. /\ x \in RequestState /\ x.pc = pc /\ x.op = op /\ x.by = by /\ x.types = TypesOf(by)
      /\ x.target = target /\ x.wanted = wanted /\ x.newType = newType
      /\ x.result = "none" /\ x.before = 0
  BY <1>1, <1>2, TypesTyped DEF RequestState, Pcs
<1> HIDE DEF x
<1>4. req'[r] = x /\ Others(r) /\ req' \in [Requests -> RequestState]
  BY <1>1, <1>3, BecomeOnly
<1>5. Shape(r)'  BY <1>3, <1>4 DEF Shape, OnUser
<1>6. Named(r)'  BY <1>1, <1>3, <1>4 DEF Named, tables, roleRows
<1>7. Ranked(r)' /\ Guarded(r)' /\ Emptied(r)'
  BY <1>3, <1>4 DEF Ranked, Guarded, Emptied, At
<1>8. Looked(r)' /\ Tallied(r)'
  BY <1>1, <1>3, <1>4 DEF Looked, Tallied, At, TypeOK, tables, holdings
<1>9. Good(r)'  BY <1>5, <1>6, <1>7, <1>8 DEF Good
<1> QED  BY <1>1, <1>4, <1>9, MoveOn DEF At

LEMMA ArriveStep ==
  ASSUME AccessInv, NEW r \in Requests, NEW by \in Users,
         \/ BeginCreate(r, by) \/ BeginUpdate(r, by) \/ BeginRemove(r, by)
         \/ BeginAssign(r, by) \/ BeginRevoke(r, by)
         \/ BeginUpdateRole(r, by) \/ BeginRemoveRole(r, by)
  PROVE  AccessInv'
<1>1. /\ DOMAIN user = Users /\ DOMAIN role = Roles /\ 0 \in Types
      /\ { "insert", "rank", "restrict", "protect", "findRole", "findHeld", "findRetyped",
           "findRemoved" } \subseteq Pcs
  BY DEF AccessInv, TypeOK, Types, Pcs
<1>2. \A xs \in RoleIds : xs \in SUBSET Roles /\ \A x \in xs : role[x] # "absent"
  BY <1>1 DEF RoleIds, Known
<1>3. \A x \in Known(role) : x \in Roles /\ role[x] # "absent"  BY <1>1 DEF Known
<1>4. \A u \in Known(user) : u \in Users  BY <1>1 DEF Known
<1>5. \A op, pc, target, wanted, newType :
        Begin(r, by, op, pc, target, wanted, newType) => op \in Operations
  BY DEF Begin
<1>6. CASE BeginCreate(r, by)
  <2>1. PICK u \in Users, xs \in RoleIds :
           Begin(r, by, "create",
                 IF SUPER_ADMIN \in TypesOf(by) \/ xs = {} THEN "insert" ELSE "rank", u, xs, 0)
    BY <1>6 DEF BeginCreate
  <2>2. PICK pc \in Pcs :
           /\ pc = IF SUPER_ADMIN \in TypesOf(by) \/ xs = {} THEN "insert" ELSE "rank"
           /\ \/ pc = "insert" /\ (SUPER_ADMIN \in TypesOf(by) \/ xs = {})
              \/ pc = "rank" /\ xs # {}
    BY <1>1
  <2>3. Begin(r, by, "create", pc, u, xs, 0)  BY <2>1, <2>2
  <2>4. "create" \in Operations /\ u \in Users \cup {NULL}  BY <1>5, <2>1
  <2>5. xs \in SUBSET Roles /\ \A x \in xs : role[x] # "absent"  BY <1>2, <2>1
  <2> QED  BY <1>1, <2>2, <2>3, <2>4, <2>5, BeginStep
<1>7. CASE BeginUpdate(r, by)
  BY <1>1, <1>2, <1>4, <1>5, <1>7, BeginStep DEF BeginUpdate
<1>8. CASE BeginRemove(r, by)
  BY <1>1, <1>4, <1>5, <1>8, BeginStep DEF BeginRemove
<1>9. CASE BeginAssign(r, by)
  BY <1>1, <1>3, <1>4, <1>5, <1>9, BeginStep DEF BeginAssign
<1>10. CASE BeginRevoke(r, by)
  BY <1>1, <1>3, <1>4, <1>5, <1>10, BeginStep DEF BeginRevoke
<1>11. CASE BeginUpdateRole(r, by)
  BY <1>1, <1>3, <1>5, <1>11, BeginStep DEF BeginUpdateRole
<1>12. CASE BeginRemoveRole(r, by)
  BY <1>1, <1>3, <1>5, <1>12, BeginStep DEF BeginRemoveRole
<1> QED  BY <1>6, <1>7, <1>8, <1>9, <1>10, <1>11, <1>12

LEMMA CreateRoleStep ==
  ASSUME AccessInv, NEW r \in Requests, NEW by \in Users, CreateRole(r, by)
  PROVE  AccessInv'
<1>1. PICK x \in Roles, t \in Types :
        /\ At(r, "new") /\ role[x] = "absent"
        /\ role' = [role EXCEPT ![x] = "present"] /\ type' = [type EXCEPT ![x] = t]
        /\ "createRole" \in Operations
        /\ Become(r, [req[r] EXCEPT !.pc = "done", !.op = "createRole", !.result = "served",
                         !.by = by, !.types = TypesOf(by), !.wanted = {x}])
        /\ UNCHANGED <<user, retyped, userRoles, changed, joined, bare>>
  BY DEF CreateRole, holdings
<1> DEFINE y == [req[r] EXCEPT !.pc = "done", !.op = "createRole", !.result = "served",
                    !.by = by, !.types = TypesOf(by), !.wanted = {x}]
<1>2. TypeOK /\ req[r] \in RequestState  BY DEF AccessInv, TypeOK
<1>3. /\ y \in RequestState /\ y.pc = "done" /\ y.op = "createRole" /\ y.wanted = {x}
  BY <1>1, <1>2, TypesTyped DEF RequestState
<1>4. Become(r, y)  BY <1>1
<1> HIDE DEF y
<1>5. req'[r] = y /\ Others(r) /\ req' \in [Requests -> RequestState]
  BY <1>2, <1>3, <1>4, BecomeOnly
<1>6. TypeOK'  BY <1>1, <1>2, <1>5 DEF TypeOK, Status
<1>7. \A z \in Roles : /\ role[z] # "absent" => role'[z] = role[z] /\ type'[z] = type[z]
                       /\ role'[z] = "deleted" => role[z] = "deleted"
  BY <1>1, <1>2 DEF TypeOK
<1>8. Grows  BY <1>1, <1>2, <1>7 DEF Grows, TypeOK
<1>9. Good(r)'
  <2>1. Shape(r)' /\ Ranked(r)' /\ Guarded(r)' /\ Looked(r)' /\ Emptied(r)' /\ Tallied(r)'
    BY <1>3, <1>5 DEF Shape, OnUser, Ranked, Guarded, Looked, Emptied, Tallied, At
  <2>2. Named(r)'  BY <1>1, <1>2, <1>3, <1>5 DEF Named, TypeOK
  <2> QED  BY <2>1, <2>2 DEF Good
<1>10. \A q \in Requests : Good(q)'  BY <1>5, <1>6, <1>8, <1>9, AllGood
<1>11. HeldExist'  BY <1>1, <1>2, <1>7 DEF AccessInv, HeldExist, TypeOK
<1>12. Roleless'  BY <1>1, <1>5, RolesKept DEF At
<1>13. Deleted'  BY <1>1, <1>5, <1>7, DeletedStands DEF At
<1> QED  BY <1>6, <1>10, <1>11, <1>12, <1>13 DEF AccessInv

----------------------------------------------------------------------------
(***************************************************************************)
(* The invariant holds at first and is kept.                               *)
(***************************************************************************)
LEMMA AccessInit ==
  ASSUME Init
  PROVE  AccessInv
<1>1. /\ NewRequest \in RequestState /\ NewRequest.pc = "new" /\ NewRequest.op = "none"
      /\ NewRequest.result = "none" /\ NewRequest.wanted = {} /\ NewRequest.before = 0
  BY DEF NewRequest, RequestState, Types
<1>2. \A r \in Requests : req[r] = NewRequest  BY DEF Init
<1> HIDE DEF NewRequest
<1>3. /\ userRoles \in [Users -> SUBSET Roles]
      /\ \A u \in Users : \A x \in userRoles[u] : x \in DOMAIN InitialType
  BY InitialRows DEF Init
<1>4. TypeOK
  <2>1. user \in [Users -> Status] /\ role \in [Roles -> Status]  BY DEF Init, Status
  <2>2. type \in [Roles -> Types]  BY InitialRows DEF Init, Types
  <2>3. req \in [Requests -> RequestState]  BY <1>1 DEF Init
  <2>4. /\ changed \in [Users -> Nat] /\ joined \in [Roles -> Nat]
        /\ retyped \subseteq Roles /\ bare \subseteq Users
    BY DEF Init
  <2> QED  BY <1>3, <2>1, <2>2, <2>3, <2>4 DEF TypeOK
<1>5. \A r \in Requests : Good(r)
  BY <1>1, <1>2
     DEF Good, Shape, OnUser, Named, Ranked, Guarded, Looked, Emptied, Tallied, At
<1>6. HeldExist  BY <1>3, InitialRows DEF HeldExist, Init
<1>7. Roleless  BY DEF Roleless, Init
<1>8. Deleted  BY DEF Deleted, Init
<1> QED  BY <1>4, <1>5, <1>6, <1>7, <1>8 DEF AccessInv

\* The steps of request r.
StepOf(r) == (\E by \in Users : Arrive(r, by)) \/ UserStep(r) \/ RoleStep(r) \/ Fail(r)

LEMMA AccessStep ==
  ASSUME AccessInv, NEW r \in Requests, StepOf(r)
  PROVE  AccessInv'
<1>1. CASE \E by \in Users : Arrive(r, by)
  BY <1>1, ArriveStep, CreateRoleStep DEF Arrive
<1>2. CASE UserStep(r)
  BY <1>2, GuardSteps, FindUserStep, RankCheckStep, InsertUserStep, ClearRolesStep,
     FillRolesStep, WriteAndFail, DeleteUserStep DEF UserStep
<1>3. CASE RoleStep(r)
  BY <1>3, FindSteps, AssignRoleStep, RevokeRoleStep, UpdateRoleStep, CountStep,
     RemoveRoleStep DEF RoleStep
<1>4. CASE Fail(r)  BY <1>4, WriteAndFail
<1> QED  BY <1>1, <1>2, <1>3, <1>4 DEF StepOf

LEMMA AccessNext ==
  ASSUME AccessInv, [Next]_accessVars
  PROVE  AccessInv'
<1>1. CASE UNCHANGED accessVars
  BY <1>1 DEF AccessInv, TypeOK, Good, Shape, Named, Ranked, Outranks, Guarded,
     FoundSuperAdmin, IsSuperAdmin, TypesOf, Looked, Emptied, Tallied, HeldExist, Roleless,
     Deleted, At, accessVars
<1>2. CASE Next
  BY <1>1, <1>2, AccessStep DEF Next, StepOf, Terminated
<1> QED  BY <1>1, <1>2

LEMMA AccessAlways == Spec => []AccessInv
BY AccessInit, AccessNext, PTL DEF Spec

(***************************************************************************)
(* The rows and the requests have their types, whatever the office.        *)
(***************************************************************************)
THEOREM AccessTypeCorrect == Spec => []TypeOK
<1>1. AccessInv => TypeOK  BY DEF AccessInv
<1> QED  BY <1>1, AccessAlways, PTL

(***************************************************************************)
(* A user without roles was left so by a creation, a revocation or an      *)
(* update of his roles (users.service.ts:165-169).                         *)
(***************************************************************************)
THEOREM RolelessExplainedCorrect == Spec => []RolelessExplained
<1>1. AccessInv => RolelessExplained  BY DEF AccessInv, Roleless, RolelessExplained
<1> QED  BY <1>1, AccessAlways, PTL

(***************************************************************************)
(* Who holds a deleted role got it after its removal counted its users     *)
(* (roles.service.ts:186-198).                                             *)
(***************************************************************************)
THEOREM DeletedRoleUnheldCorrect == Spec => []DeletedRoleUnheld
<1>1. ASSUME AccessInv PROVE DeletedRoleUnheld
  <2>1. SUFFICES ASSUME NEW x \in Roles, role[x] = "deleted", \E u \in Users : x \in userRoles[u]
                 PROVE  \E r \in Requests :
                          /\ req[r].op = "removeRole" /\ x \in req[r].wanted
                          /\ req[r].result = "served" /\ joined[x] # req[r].before
    BY DEF DeletedRoleUnheld
  <2>2. PICK r \in Requests :
          req[r].op = "removeRole" /\ x \in req[r].wanted /\ req[r].result = "served"
    BY <1>1, <2>1 DEF AccessInv, Deleted
  <2> QED  BY <1>1, <2>1, <2>2 DEF AccessInv, Good, Tallied
<1> QED  BY <1>1, AccessAlways, PTL

----------------------------------------------------------------------------
(***************************************************************************)
(* What a step may do.                                                     *)
(***************************************************************************)
LEMMA StepOthers ==
  ASSUME AccessInv, NEW r \in Requests, StepOf(r)
  PROVE  Others(r)
<1>1. TypeOK  BY DEF AccessInv
<1>2. \A x : Become(r, x) => Others(r)  BY <1>1, BecomeOnly
<1>3. ASSUME \E by \in Users : Arrive(r, by) PROVE \E x : Become(r, x)
  BY <1>3 DEF Arrive, BeginCreate, BeginUpdate, BeginRemove, BeginAssign, BeginRevoke,
              CreateRole, BeginUpdateRole, BeginRemoveRole, Begin
<1>4. ASSUME UserStep(r) PROVE \E x : Become(r, x)
  BY <1>4 DEF UserStep, ProtectSuperAdmin, NotarioRestriction, FindUser, RankCheck, InsertUser,
              ClearRoles, FillRoles, WriteUser, DeleteUser, Finish, Goto, Pass
<1>5. ASSUME RoleStep(r) PROVE \E x : Become(r, x)
  BY <1>5 DEF RoleStep, AssignFindRole, AssignFindUser, AssignRole, RevokeFindRole, RevokeRole,
              UpdateRoleFind, UpdateRole, RemoveRoleFind, RemoveRoleCount, RemoveRole,
              Finish, Goto, Counted
<1>6. ASSUME Fail(r) PROVE \E x : Become(r, x)  BY <1>6 DEF Fail, Finish
<1> QED  BY <1>2, <1>3, <1>4, <1>5, <1>6 DEF StepOf

\* The steps that touch users or user_roles.
Writes(r) == InsertUser(r) \/ ClearRoles(r) \/ FillRoles(r) \/ DeleteUser(r)
               \/ AssignRole(r) \/ RevokeRole(r)

LEMMA OtherwiseKept ==
  ASSUME NEW r \in Requests, StepOf(r), ~Writes(r)
  PROVE  user' = user /\ userRoles' = userRoles
<1>1. ASSUME \E by \in Users : Arrive(r, by) PROVE UNCHANGED <<user, holdings>>
  BY <1>1 DEF Arrive, BeginCreate, BeginUpdate, BeginRemove, BeginAssign, BeginRevoke,
              CreateRole, BeginUpdateRole, BeginRemoveRole, Begin
<1>2. ASSUME UserStep(r) PROVE UNCHANGED <<user, holdings>>
  BY <1>2 DEF Writes, UserStep, ProtectSuperAdmin, NotarioRestriction, FindUser, RankCheck,
              WriteUser
<1>3. ASSUME RoleStep(r) PROVE UNCHANGED <<user, holdings>>
  BY <1>3 DEF Writes, RoleStep, AssignFindRole, AssignFindUser, RevokeFindRole,
              UpdateRoleFind, UpdateRole, RemoveRoleFind, RemoveRoleCount, RemoveRole
<1>4. ASSUME Fail(r) PROVE UNCHANGED <<user, holdings>>  BY <1>4 DEF Fail
<1> QED  BY <1>1, <1>2, <1>3, <1>4 DEF StepOf, holdings

\* What a writing step does to the roles, by the operation of its request.
LEMMA Written ==
  ASSUME AccessInv, NEW r \in Requests, Writes(r)
  PROVE  LET t == req[r].target
         IN  /\ t \in Users /\ Good(r)
             /\ \A u \in Users \ {t} : userRoles'[u] = userRoles[u] /\ user'[u] = user[u]
             /\ \/ /\ req[r].pc \in { "insert", "fill", "upsert" }
                   /\ userRoles'[t] = userRoles[t] \cup req[r].wanted
                   /\ user'[t] = "deleted" => user[t] = "deleted"
                \/ /\ req[r].pc \in { "clear", "revoke" }
                   /\ userRoles'[t] \subseteq userRoles[t] /\ user' = user
                \/ req[r].pc = "delete" /\ userRoles' = userRoles
<1> DEFINE t == req[r].target
<1>1. Good(r) /\ TypeOK  BY DEF AccessInv
<1>2. t \in Users
  BY <1>1 DEF Writes, InsertUser, ClearRoles, FillRoles, DeleteUser, AssignRole, RevokeRole,
              At, Good, Shape, OnUser
<1>3. CASE InsertUser(r)
  BY <1>1, <1>2, <1>3 DEF InsertUser, Give, At, TypeOK
<1>4. CASE FillRoles(r) \/ AssignRole(r)
  BY <1>1, <1>2, <1>4 DEF FillRoles, AssignRole, Give, At, TypeOK
<1>5. CASE ClearRoles(r) \/ RevokeRole(r)
  BY <1>1, <1>2, <1>5 DEF ClearRoles, RevokeRole, At, TypeOK
<1>6. CASE DeleteUser(r)
  BY <1>1, <1>2, <1>6 DEF DeleteUser, At, TypeOK, holdings
<1> QED  BY <1>1, <1>2, <1>3, <1>4, <1>5, <1>6 DEF Writes

(***************************************************************************)
(* Whoever is not a super administrator gives out roles below his own rank *)
(* only, whatever runs between the check and the write                     *)
(* (users.service.ts:303-310, roles.service.ts:225-234).                   *)
(***************************************************************************)
THEOREM NoEscalationCorrect == Spec => NoEscalation
<1> DEFINE Earned ==
      \A r \in Requests, u \in Users :
        Steps(r) /\ SUPER_ADMIN \notin req[r].types =>
          \A x \in userRoles'[u] \ userRoles[u] :
            Outranks(req[r].types, type[x]) \/ x \in retyped
<1>1. ASSUME AccessInv, NEW q \in Requests, StepOf(q) PROVE Earned
  <2>1. SUFFICES ASSUME NEW r \in Requests, NEW u \in Users, Steps(r),
                        SUPER_ADMIN \notin req[r].types, NEW x \in userRoles'[u] \ userRoles[u]
                 PROVE  Outranks(req[r].types, type[x]) \/ x \in retyped
    OBVIOUS
  <2>2. r = q  BY <1>1, <2>1, StepOthers DEF Others, Steps
  <2>3. Writes(r)  BY <1>1, <2>1, <2>2, OtherwiseKept
  <2>4. req[r].pc \in { "insert", "fill", "upsert" } /\ x \in req[r].wanted /\ Good(r)
    BY <1>1, <2>1, <2>3, Written
  <2> QED  BY <2>1, <2>4 DEF Good, Ranked
<1>2. AccessInv /\ [Next]_accessVars => [Earned]_accessVars
  BY <1>1 DEF Next, StepOf, Terminated
<1>3. Spec => [][Earned]_accessVars  BY <1>2, AccessAlways, PTL DEF Spec
<1> QED  BY <1>3 DEF NoEscalation

(***************************************************************************)
(* A super administrator is deleted, or has his roles replaced by a        *)
(* NOTARIO, only if his roles changed after the guard read them            *)
(* (protect-super-admin.guard.ts:11-12, notario-restriction.guard.ts:14).  *)
(***************************************************************************)
THEOREM SuperAdminProtectedCorrect == Spec => SuperAdminProtected
<1> DEFINE Protected ==
      \A r \in Requests, u \in Users :
        /\ Steps(r) /\ req[r].target = u /\ FoundSuperAdmin(u)
        /\ \/ user'[u] = "deleted"
           \/ req[r].op = "update" /\ NOTARIO \in req[r].types /\ userRoles'[u] # userRoles[u]
        /\ changed[u] = req[r].before
        => userRoles[u] \cap retyped # {}
<1>1. ASSUME AccessInv, NEW q \in Requests, StepOf(q) PROVE Protected
  <2>1. SUFFICES ASSUME NEW r \in Requests, NEW u \in Users, Steps(r), req[r].target = u,
                        FoundSuperAdmin(u),
                        \/ user'[u] = "deleted"
                        \/ /\ req[r].op = "update" /\ NOTARIO \in req[r].types
                           /\ userRoles'[u] # userRoles[u],
                        changed[u] = req[r].before
                 PROVE  userRoles[u] \cap retyped # {}
    OBVIOUS
  <2>2. r = q  BY <1>1, <2>1, StepOthers DEF Others, Steps
  <2>3. user[u] = "present"  BY <2>1 DEF FoundSuperAdmin
  <2>4. Writes(r)  BY <1>1, <2>1, <2>2, <2>3, OtherwiseKept
  <2>5. Good(r) /\ userRoles[u] # {}
    BY <1>1, <2>1, <2>4, Written DEF FoundSuperAdmin, IsSuperAdmin, TypesOf
  <2>6. req[r].pc # "fill"  BY <2>1, <2>5 DEF Good, Emptied, At
  <2>7. \/ req[r].pc = "delete"
        \/ req[r].pc = "clear" /\ req[r].op = "update" /\ NOTARIO \in req[r].types
    BY <1>1, <2>1, <2>3, <2>4, <2>5, <2>6, Written DEF Good, Shape
  <2> QED  BY <2>1, <2>5, <2>7 DEF Good, Guarded, Shape
<1>2. AccessInv /\ [Next]_accessVars => [Protected]_accessVars
  BY <1>1 DEF Next, StepOf, Terminated
<1>3. Spec => [][Protected]_accessVars  BY <1>2, AccessAlways, PTL DEF Spec
<1> QED  BY <1>3 DEF SuperAdminProtected

(***************************************************************************)
(* An update leaves exactly the roles it asked for, unless another request *)
(* changed them between its two writes (users.service.ts:165-169).         *)
(***************************************************************************)
THEOREM UpdateReplacesCorrect == Spec => UpdateReplaces
<1> DEFINE Replaced ==
      \A r \in Requests : At(r, "fill") /\ At(r, "write")' =>
        \/ userRoles'[req[r].target] = req[r].wanted
        \/ changed[req[r].target] # req[r].before
<1>1. ASSUME AccessInv, NEW q \in Requests, StepOf(q) PROVE Replaced
  <2>1. SUFFICES ASSUME NEW r \in Requests, At(r, "fill"), At(r, "write")',
                        changed[req[r].target] = req[r].before
                 PROVE  userRoles'[req[r].target] = req[r].wanted
    OBVIOUS
  <2>2. r = q  BY <1>1, <2>1, StepOthers DEF Others, At
  <2>3. Good(r) /\ userRoles[req[r].target] = {}
    BY <1>1, <2>1 DEF AccessInv, Good, Emptied
  <2>4. FillRoles(r)
    <3>1. ~Fail(r)
      <4>1. SUFFICES ASSUME Fail(r) PROVE FALSE  OBVIOUS
      <4>2. Finish(r, "torn")  BY <2>1, <4>1 DEF Fail
      <4>3. req'[r].pc = "done"  BY <1>1, <4>2, Ended DEF Results
      <4> QED  BY <2>1, <4>3 DEF At
    <3>2. ~(\E by \in Users : Arrive(r, by))
      BY <2>1 DEF Arrive, BeginCreate, BeginUpdate, BeginRemove, BeginAssign, BeginRevoke,
                  CreateRole, BeginUpdateRole, BeginRemoveRole, Begin, At
    <3>3. ~RoleStep(r)
      BY <2>1 DEF RoleStep, AssignFindRole, AssignFindUser, AssignRole, RevokeFindRole,
                  RevokeRole, UpdateRoleFind, UpdateRole, RemoveRoleFind, RemoveRoleCount,
                  RemoveRole, At
    <3>4. UserStep(r)  BY <1>1, <2>2, <3>1, <3>2, <3>3 DEF StepOf
    <3> QED
      BY <2>1, <3>4 DEF UserStep, ProtectSuperAdmin, NotarioRestriction, FindUser, RankCheck,
                        InsertUser, ClearRoles, WriteUser, DeleteUser, At
  <2>5. userRoles'[req[r].target] = userRoles[req[r].target] \cup req[r].wanted
    BY <1>1, <2>1, <2>4, Written DEF Writes, At
  <2> QED  BY <2>3, <2>5
<1>2. AccessInv /\ [Next]_accessVars => [Replaced]_accessVars
  BY <1>1 DEF Next, StepOf, Terminated
<1>3. Spec => [][Replaced]_accessVars  BY <1>2, AccessAlways, PTL DEF Spec
<1> QED  BY <1>3 DEF UpdateReplaces

-----------------------------------------------------------------------------
(***************************************************************************)
(* The settings, and the records of their changes.                         *)
(*                                                                         *)
(* Writers says who has written what.  Ordered, on which ConfigOfOneUpdate *)
(* rests, says that of two requests that never were busy at the same time  *)
(* one was over before the other began, so that its values are gone        *)
(* wherever the other one has written.  FaultsCounted, on which            *)
(* OneFaultLeavesRecord rests, charges a fault for each record that is     *)
(* missing, and one for the failure that left out the log row.             *)
(***************************************************************************)
Writing == {"update", "config"}

CallState ==
  [ pc: {"new", "write", "log", "read", "done"},
    op: Writing \cup {"none", "bulk", "read", "search"},
    result: {"none", "ok", "rejected", "failed"},
    keys: SUBSET Keys, pending: SUBSET Keys,
    log: {"none", "stored", "lost"}, audit: {"none", "pending", "stored", "lost"},
    with: SUBSET Calls ]

CallShape(x) ==
  /\ x.pc = "new" => x.op = "none" /\ x.keys = {} /\ x.audit = "none" /\ x.with = {}
  /\ x.pending \subseteq x.keys
  /\ x.pc # "done" => x.result = "none"
  /\ x.pc = "done" => x.result # "none"
  /\ x.pc \in {"new", "log", "read"} \/ x.result = "ok" => x.pending = {}
  /\ x.pc \in {"write", "log", "read"} \/ x.pending # {} => x.op \in Writing
  /\ x.pc \in {"new", "write", "log"} => x.log = "none"
  /\ x.pc = "read" => x.log # "none"
  /\ x.pc = "done" /\ x.op \in Writing => x.audit # "none"

SettingsTyped ==
  /\ setting \in [Keys -> Calls \cup {NOBODY}]
  /\ call \in [Calls -> CallState]
  /\ \A r \in Calls : CallShape(call[r])
  /\ faults \in Nat

Writers ==
  \A k \in Keys : \A r \in Calls : setting[k] = r => call[r].op \in Writing /\ k \in call[r].keys

\* No upsert of r has failed.
Clean(r) == call[r].pc \in {"write", "log", "read"} \/ call[r].result = "ok"

\* r was over when s began.
Before(r, s) ==
  /\ ~Busy(r)
  /\ Clean(s) => \A k \in call[s].keys \ call[s].pending : setting[k] # r

Ordered ==
  \A r, s \in Calls : r # s =>
    /\ s \in call[r].with <=> r \in call[s].with
    /\ s \in call[r].with \/ Before(r, s) \/ Before(s, r)

Missing(x) ==
  (IF x.log = "lost" THEN 1 ELSE 0) + (IF x.audit = "lost" THEN 1 ELSE 0)
    + (IF x.pc = "done" /\ x.op \in Writing /\ x.log = "none" THEN 1 ELSE 0)

FaultsCounted == crashed = {} => \A r \in Calls : Missing(call[r]) <= faults

SettingsInv == SettingsTyped /\ Writers /\ Ordered /\ FaultsCounted

LEMMA ConfigExplained == SettingsInv => ConfigOfOneUpdate
<1> SUFFICES ASSUME SettingsInv, NEW k \in Keys, NEW j \in Keys,
                    NEW r, setting[k] = r, NEW s, setting[j] = s,
                    NOBODY \notin {r, s}, r # s,
                    {k, j} \subseteq call[r].keys \cap call[s].keys,
                    Blameless(r), Blameless(s)
             PROVE  s \in call[r].with
  BY DEF ConfigOfOneUpdate
<1>1. r \in Calls /\ s \in Calls  BY DEF SettingsInv, SettingsTyped
<1>2. \A t \in {r, s} : ~Busy(t) /\ Clean(t) /\ call[t].pending = {}
  BY <1>1 DEF Blameless, Clean, SettingsInv, SettingsTyped, CallShape
<1>3. ~Before(r, s) /\ ~Before(s, r)
  BY <1>2 DEF Before
<1> QED  BY <1>1, <1>3 DEF SettingsInv, Ordered

LEMMA RecordLeft == SettingsInv => OneFaultLeavesRecord
<1> SUFFICES ASSUME SettingsInv, faults <= 1, crashed = {}, NEW r \in Calls,
                    NEW k \in Keys, setting[k] = r, ~Busy(r), call[r].audit # "pending"
             PROVE  "stored" \in {call[r].log, call[r].audit}
  BY DEF OneFaultLeavesRecord
<1> DEFINE x == call[r]
<1>1. x \in CallState /\ CallShape(x)  BY DEF SettingsInv, SettingsTyped
<1>2. x.op \in Writing  BY DEF SettingsInv, Writers
<1>3. x.pc = "done"  BY <1>1, <1>2 DEF Busy, InFlight, CallAt, CallShape, Writing
<1>4. Missing(x) <= 1  BY DEF SettingsInv, SettingsTyped, FaultsCounted, Missing
<1>5. x.audit \in {"lost", "stored"}  BY <1>1, <1>2, <1>3 DEF CallState, CallShape
<1>6. x.audit = "lost" => x.log = "stored"
  BY <1>1, <1>2, <1>3, <1>4 DEF Missing, CallState
<1> QED  BY <1>5, <1>6

\* A request begins to write, and is told of those that are busy; the others
\* only learn of it.
LEMMA BeginKeeps ==
  ASSUME SettingsInv, NEW r \in Calls, CallAt(r, "new"), NEW op \in Writing,
         NEW keys \in SUBSET Keys, NEW pc \in {"write", "log"},
         pc = "log" => keys = {},
         BeginWrites(r, op, keys, pc), UNCHANGED <<setting, crashed, faults>>
  PROVE  SettingsInv'
<1> DEFINE x == [call[r] EXCEPT !.pc = pc, !.op = op, !.keys = keys,
                   !.pending = keys, !.with = {t \in Calls \ {r} : Busy(t)}]
<1>1. /\ call[r] \in CallState /\ call[r].op = "none" /\ call[r].result = "none"
      /\ call[r].pc = "new" /\ call[r].pending = {} /\ call[r].log = "none"
      /\ call[r].audit = "none" /\ call[r].keys = {}
  BY DEF SettingsInv, SettingsTyped, CallShape, CallAt
<1>2. call'[r] = x  BY DEF BeginWrites
<1>3. ASSUME NEW s \in Calls, s # r
      PROVE  call'[s] = IF Busy(s) THEN [call[s] EXCEPT !.with = @ \cup {r}] ELSE call[s]
  BY <1>3 DEF BeginWrites
<1>4. call' \in [Calls -> CallState]
  <2>1. DOMAIN call' = Calls /\ call' = [s \in Calls |-> call'[s]]  BY DEF BeginWrites
  <2>2. x \in CallState  BY <1>1 DEF CallState
  <2>3. ASSUME NEW s \in Calls, s # r PROVE call'[s] \in CallState
    <3>1. call[s] \in CallState  BY DEF SettingsInv, SettingsTyped
    <3>2. [call[s] EXCEPT !.with = @ \cup {r}] \in CallState  BY <3>1 DEF CallState
    <3> QED  BY <1>3, <2>3, <3>1, <3>2
  <2> QED  BY <1>2, <2>1, <2>2, <2>3
<1>5. /\ x.pc = pc /\ x.op = op /\ x.keys = keys /\ x.pending = keys /\ x.log = "none"
      /\ x.audit = "none" /\ x.result = "none" /\ x.with = {t \in Calls \ {r} : Busy(t)}
  BY <1>1 DEF CallState
<1> HIDE DEF x
<1>6. ASSUME NEW s \in Calls, s # r
      PROVE  /\ call'[s].pc = call[s].pc /\ call'[s].op = call[s].op
             /\ call'[s].result = call[s].result /\ call'[s].keys = call[s].keys
             /\ call'[s].pending = call[s].pending /\ call'[s].log = call[s].log
             /\ call'[s].audit = call[s].audit
             /\ call'[s].with = IF Busy(s) THEN call[s].with \cup {r} ELSE call[s].with
  <2>1. call[s] \in CallState  BY DEF SettingsInv, SettingsTyped
  <2> QED  BY <1>3, <1>6, <2>1 DEF CallState
<1>7. SettingsTyped'
  <2>1. CallShape(x)  BY <1>5 DEF CallShape, Writing
  <2>2. ASSUME NEW s \in Calls, s # r PROVE CallShape(call'[s])
    <3>1. CallShape(call[s])  BY DEF SettingsInv, SettingsTyped
    <3>2. call[s].pc = "new" => ~Busy(s)
      BY <3>1 DEF CallShape, Busy, InFlight, CallAt
    <3>3. call[s].pc = "new" => call'[s].with = call[s].with  BY <1>6, <2>2, <3>2
    <3>4. /\ call'[s].pc = call[s].pc /\ call'[s].op = call[s].op
          /\ call'[s].result = call[s].result /\ call'[s].keys = call[s].keys
          /\ call'[s].pending = call[s].pending /\ call'[s].log = call[s].log
          /\ call'[s].audit = call[s].audit
      BY <1>6, <2>2
    <3> QED  BY <3>1, <3>3, <3>4 DEF CallShape
  <2>3. \A s \in Calls : CallShape(call'[s])  BY <1>2, <2>1, <2>2
  <2> QED  BY <1>4, <2>3 DEF SettingsInv, SettingsTyped
<1>8. \A k \in Keys : setting[k] # r
  BY <1>1 DEF SettingsInv, Writers, Writing
<1>9. Writers'
  BY <1>6, <1>8 DEF SettingsInv, Writers
<1>10. ~Busy(r)  BY <1>1 DEF Busy, InFlight, CallAt
<1>11. \A s \in Calls : s # r => (Busy(s)' <=> Busy(s)) /\ (Clean(s)' <=> Clean(s))
  BY <1>6 DEF Busy, InFlight, CallAt, Clean
<1>12. Ordered'
  <2>1. ASSUME NEW s \in Calls, s # r
        PROVE  /\ s \in call'[r].with <=> r \in call'[s].with
               /\ s \in call'[r].with \/ (~Busy(s)' /\ call'[r].keys \ call'[r].pending = {})
    <3>1. s \in call'[r].with <=> Busy(s)  BY <1>2, <1>5, <2>1
    <3>2. r \notin call[s].with
      <4>1. call[r].with = {}  BY <1>1 DEF SettingsInv, SettingsTyped, CallShape
      <4> QED  BY <2>1, <4>1 DEF SettingsInv, Ordered
    <3>3. r \in call'[s].with <=> Busy(s)  BY <1>6, <2>1, <3>2
    <3> QED  BY <1>2, <1>5, <1>11, <2>1, <3>1, <3>3
  <2>2. ASSUME NEW s \in Calls, s # r
        PROVE  /\ s \in call'[r].with <=> r \in call'[s].with
               /\ s \in call'[r].with \/ Before(s, r)'
    BY <2>1, <2>2 DEF Before
  <2>3. ASSUME NEW s \in Calls, NEW t \in Calls, s # r, t # r, s # t
        PROVE  /\ s \in call'[t].with <=> t \in call'[s].with
               /\ s \in call'[t].with \/ Before(s, t)' \/ Before(t, s)'
    <3>1. /\ s \in call[t].with <=> t \in call[s].with
          /\ s \in call[t].with \/ Before(s, t) \/ Before(t, s)
      BY <2>3 DEF SettingsInv, Ordered
    <3>2. /\ s \in call'[t].with <=> s \in call[t].with
          /\ t \in call'[s].with <=> t \in call[s].with
      <4>1. \A u, v \in Calls : u # r /\ v # r => (v \in call'[u].with <=> v \in call[u].with)
        <5>1. ASSUME NEW u \in Calls, NEW v \in Calls, u # r, v # r
              PROVE  v \in call'[u].with <=> v \in call[u].with
          <6>1. CASE Busy(u)
            <7>1. call'[u].with = call[u].with \cup {r}  BY <1>6, <5>1, <6>1
            <7> QED  BY <5>1, <7>1
          <6>2. CASE ~Busy(u)  BY <1>6, <5>1, <6>2
          <6> QED  BY <6>1, <6>2
        <5> QED  BY <5>1
      <4> QED  BY <2>3, <4>1
    <3>3. Before(s, t) => Before(s, t)'  BY <1>6, <1>11, <2>3 DEF Before
    <3>4. Before(t, s) => Before(t, s)'  BY <1>6, <1>11, <2>3 DEF Before
    <3> QED  BY <3>1, <3>2, <3>3, <3>4
  <2> QED  BY <2>2, <2>3 DEF Ordered
<1>13. FaultsCounted'
  <2>1. Missing(x) = 0  BY <1>5 DEF Missing
  <2>2. \A s \in Calls : s # r => Missing(call'[s]) = Missing(call[s])
    BY <1>6 DEF Missing
  <2> QED  BY <1>2, <2>1, <2>2 DEF SettingsInv, SettingsTyped, FaultsCounted
<1> QED  BY <1>7, <1>9, <1>12, <1>13 DEF SettingsInv

\* A request goes on by itself: it makes nobody busy, writes its own keys
\* only, and is charged for what it loses.
GoesOn(r, x) ==
  /\ call' = [call EXCEPT ![r] = x]
  /\ x \in CallState /\ CallShape(x)
  /\ x.with = call[r].with
  /\ call[r].op \in Writing => x.op = call[r].op /\ x.keys = call[r].keys
  /\ x.pc \in {"write", "log", "read"} \/ x.pending # {} => Busy(r)
  /\ x.pc \in {"write", "log", "read"} \/ x.result = "ok" =>
       (Clean(r) /\ x.keys = call[r].keys) \/ x.keys = {}

LEMMA GoesOnKeeps ==
  ASSUME SettingsInv, NEW r \in Calls, NEW x, GoesOn(r, x),
         \/ setting' = setting /\ (call[r].pending \subseteq x.pending \/ ~Clean(r)')
         \/ \E k \in call[r].pending : /\ setting' = [setting EXCEPT ![k] = r]
                                       /\ x.pending = call[r].pending \ {k},
         crashed' = {} => crashed = {} /\ (Missing(call[r]) <= faults => Missing(x) <= faults'),
         faults' \in Nat, faults <= faults'
  PROVE  SettingsInv'
<1>1. call'[r] = x /\ \A s \in Calls : s # r => call'[s] = call[s]
  BY DEF GoesOn, SettingsInv, SettingsTyped
<1>2. \A k \in Keys : setting'[k] # setting[k] =>
        setting'[k] = r /\ k \in call[r].pending
  BY DEF SettingsInv, SettingsTyped
<1>3. SettingsTyped'
  <2>1. setting' \in [Keys -> Calls \cup {NOBODY}]
    <3>1. call[r].pending \subseteq Keys  BY DEF SettingsInv, SettingsTyped, CallState
    <3> QED  BY <3>1 DEF SettingsInv, SettingsTyped
  <2>2. call' \in [Calls -> CallState]  BY DEF GoesOn, SettingsInv, SettingsTyped
  <2>3. \A s \in Calls : CallShape(call'[s])
    BY <1>1 DEF GoesOn, SettingsInv, SettingsTyped
  <2> QED  BY <2>1, <2>2, <2>3 DEF SettingsTyped
<1>4. call[r] \in CallState /\ CallShape(call[r]) /\ CallShape(x)
  BY DEF GoesOn, SettingsInv, SettingsTyped
<1>5. Writers'
  <2> SUFFICES ASSUME NEW k \in Keys, NEW s \in Calls, setting'[k] = s
               PROVE  call'[s].op \in Writing /\ k \in call'[s].keys
    BY DEF Writers
  <2>1. call[s].op \in Writing /\ k \in call[s].keys
    <3>1. CASE setting[k] = s  BY <3>1 DEF SettingsInv, Writers
    <3>2. CASE setting[k] # s
      BY <1>2, <1>4, <3>2 DEF CallShape
    <3> QED  BY <3>1, <3>2
  <2> QED  BY <1>1, <2>1 DEF GoesOn
<1>6. Busy(r)' => Busy(r)
  BY <1>1, <1>4 DEF GoesOn, Busy, InFlight, CallAt, CallState, CallShape
<1>7. \A s \in Calls : s # r => (Busy(s)' <=> Busy(s)) /\ (Clean(s)' <=> Clean(s))
  BY <1>1 DEF Busy, InFlight, CallAt, Clean
<1>8. setting' # setting => Busy(r)
  BY DEF Busy, SettingsInv, SettingsTyped
<1>9. ASSUME NEW s \in Calls, NEW t \in Calls, s # t, Before(s, t) PROVE Before(s, t)'
  <2>1. CASE s = r
    <3>1. setting' = setting /\ ~Busy(r)'  BY <1>6, <1>8, <1>9, <2>1 DEF Before
    <3> QED  BY <1>1, <1>7, <1>9, <2>1, <3>1 DEF Before
  <2>2. CASE s # r /\ t # r
    <3>1. \A k \in Keys : setting[k] # s => setting'[k] # s  BY <1>2, <2>2
    <3>2. call[t].keys \subseteq Keys  BY DEF SettingsInv, SettingsTyped, CallState
    <3> QED  BY <1>1, <1>7, <1>9, <2>2, <3>1, <3>2 DEF Before
  <2>3. CASE t = r
    <3>1. ~Busy(s)'  BY <1>7, <1>9, <2>3 DEF Before
    <3>2. ASSUME Clean(r)', NEW k \in x.keys, k \notin x.pending PROVE setting'[k] # s
      <4>1. Clean(r) /\ k \in call[r].keys
        BY <1>1, <3>2 DEF Clean, GoesOn
      <4>2. k \in Keys  BY <1>4, <4>1 DEF CallState
      <4>3. CASE k \notin call[r].pending
        BY <1>2, <1>9, <2>3, <4>1, <4>2, <4>3 DEF Before
      <4>4. CASE k \in call[r].pending
        BY <1>9, <2>3, <3>2, <4>2, <4>4 DEF SettingsInv, SettingsTyped
      <4> QED  BY <4>3, <4>4
    <3> QED  BY <1>1, <2>3, <3>1, <3>2 DEF Before
  <2> QED  BY <2>1, <2>2, <2>3
<1>10. \A s \in Calls : call'[s].with = call[s].with  BY <1>1 DEF GoesOn
<1>11. Ordered'  BY <1>9, <1>10 DEF SettingsInv, Ordered
<1>12. FaultsCounted'
  <2> SUFFICES ASSUME crashed' = {}, NEW s \in Calls PROVE Missing(call'[s]) <= faults'
    BY DEF FaultsCounted
  <2>1. Missing(call[s]) <= faults  BY DEF SettingsInv, FaultsCounted
  <2>2. CASE s = r  BY <1>1, <2>1, <2>2
  <2>3. CASE s # r
    <3>1. Missing(call[s]) \in Nat /\ faults \in Nat  BY DEF Missing, SettingsInv, SettingsTyped
    <3> QED  BY <1>1, <2>1, <2>3, <3>1
  <2> QED  BY <2>2, <2>3
<1> QED  BY <1>3, <1>5, <1>11, <1>12 DEF SettingsInv

\* A request that writes nothing.
LEMMA AnswersAtOnce ==
  ASSUME SettingsInv, NEW r \in Calls, CallAt(r, "new"),
         NEW op \in {"none", "bulk", "read", "search"}, NEW keys \in SUBSET Keys,
         NEW result \in {"ok", "rejected", "failed"}, result = "ok" => keys = {},
         NEW y, y \in CallState, y.pc = "new", y.op = op, y.keys = keys, y.pending = {},
         y.log = "none", y.with = call[r].with,
         SetCall(r, Answered(y, result)), UNCHANGED <<setting, crashed>>,
         faults' \in Nat, faults <= faults'
  PROVE  SettingsInv'
<1> DEFINE x == Answered(y, result)
<1>1. x \in CallState
  BY DEF Answered, CallState
<1>2. /\ x.pc = "done" /\ x.op = op /\ x.result = result /\ x.keys = keys
      /\ x.pending = {} /\ x.log = "none" /\ x.audit \in {"none", "pending"}
      /\ x.with = call[r].with
  BY DEF Answered, CallState
<1>3. call' = [call EXCEPT ![r] = x]  BY DEF SetCall
<1>4. call[r].op = "none" /\ call[r].pending = {}
  BY DEF SettingsInv, SettingsTyped, CallShape, CallAt
<1> HIDE DEF x
<1>5. CallShape(x)  BY <1>2 DEF CallShape, Writing
<1>6. GoesOn(r, x)  BY <1>1, <1>2, <1>3, <1>4, <1>5 DEF GoesOn, Writing
<1>7. Missing(x) = 0  BY <1>2 DEF Missing, Writing
<1>8. Missing(x) <= faults'  BY <1>7
<1> QED  BY <1>4, <1>6, <1>8, GoesOnKeeps

LEMMA ArrivesKeeps ==
  ASSUME SettingsInv, NEW r \in Calls,
         \/ \E k \in Keys : Update(r, k)
         \/ \E keys \in SUBSET ConfigKeys : Config(r, keys) \/ Bulk(r, keys)
         \/ \E op \in {"read", "search"} : Get(r, op)
         \/ Refuse(r)
  PROVE  SettingsInv'
<1>1. ASSUME CallAt(r, "new")
      PROVE  /\ call[r] \in CallState /\ call[r].pc = "new" /\ call[r].op = "none"
             /\ call[r].keys = {} /\ call[r].pending = {} /\ call[r].log = "none"
  BY <1>1 DEF SettingsInv, SettingsTyped, CallShape, CallAt
<1>2. faults \in Nat  BY DEF SettingsInv, SettingsTyped
<1>3. ASSUME NEW k \in Keys, Update(r, k) PROVE SettingsInv'
  BY <1>3, BeginKeeps DEF Update, Writing
<1>4. ASSUME NEW keys \in SUBSET ConfigKeys, Config(r, keys) PROVE SettingsInv'
  BY <1>4, BeginKeeps, ConfigKeysAreKeys DEF Config, Writing
<1>5. ASSUME NEW keys \in SUBSET ConfigKeys, Bulk(r, keys) PROVE SettingsInv'
  <2> DEFINE y == [call[r] EXCEPT !.op = "bulk", !.keys = keys]
  <2>1. PICK result \in {"rejected", "failed"} : SetCall(r, Answered(y, result))
    BY <1>5 DEF Bulk
  <2>2. y \in CallState  BY <1>1, <1>5, ConfigKeysAreKeys DEF Bulk, CallState
  <2>3. /\ y.pc = "new" /\ y.op = "bulk" /\ y.keys = keys /\ y.pending = {}
        /\ y.log = "none" /\ y.with = call[r].with
    BY <1>1, <1>5 DEF Bulk, CallState
  <2>4. UNCHANGED <<setting, crashed, faults>> /\ CallAt(r, "new")  BY <1>5 DEF Bulk
  <2> HIDE DEF y
  <2> QED  BY <1>2, <2>1, <2>2, <2>3, <2>4, AnswersAtOnce, ConfigKeysAreKeys
<1>6. ASSUME NEW op \in {"read", "search"}, Get(r, op) PROVE SettingsInv'
  <2> DEFINE y == [call[r] EXCEPT !.op = op]
  <2>1. PICK result \in {"ok", "rejected", "failed"} :
          SetCall(r, Answered(y, result)) /\ faults' \in {faults, faults + 1}
    BY <1>6 DEF Get, Fault
  <2>2. y \in CallState  BY <1>1, <1>6 DEF Get, CallState
  <2>3. /\ y.pc = "new" /\ y.op = op /\ y.keys = {} /\ y.pending = {}
        /\ y.log = "none" /\ y.with = call[r].with
    BY <1>1, <1>6 DEF Get, CallState
  <2>4. UNCHANGED <<setting, crashed>> /\ CallAt(r, "new")  BY <1>6 DEF Get
  <2> HIDE DEF y
  <2>5. faults' \in Nat /\ faults <= faults'  BY <1>2, <2>1
  <2>6. SetCall(r, Answered(y, result)) /\ {} \in SUBSET Keys  BY <2>1
  <2>7. op \in {"none", "bulk", "read", "search"}  BY <1>6
  <2> QED  BY <2>2, <2>3, <2>4, <2>5, <2>6, <2>7, AnswersAtOnce
<1>7. CASE Refuse(r)
  <2>1. /\ CallAt(r, "new") /\ SetCall(r, Answered(call[r], "rejected"))
        /\ UNCHANGED <<setting, crashed, faults>>
    BY <1>7 DEF Refuse
  <2> QED  BY <1>1, <1>2, <2>1, AnswersAtOnce
<1> QED  BY <1>3, <1>4, <1>5, <1>6, <1>7

LEMMA UpsertKeeps ==
  ASSUME SettingsInv, NEW r \in Calls, NEW k \in Keys, Upsert(r, k)
  PROVE  SettingsInv'
<1> DEFINE left == call[r].pending \ {k}
           pc == IF CallAt(r, "write") /\ left = {} THEN "log" ELSE call[r].pc
           x == [call[r] EXCEPT !.pending = left, !.pc = pc]
<1>1. /\ k \in call[r].pending /\ setting' = [setting EXCEPT ![k] = r]
      /\ call' = [call EXCEPT ![r] = x] /\ UNCHANGED <<crashed, faults>>
  BY DEF Upsert, SetCall
<1>2. call[r] \in CallState /\ CallShape(call[r]) /\ faults \in Nat
  BY DEF SettingsInv, SettingsTyped
<1>3. left \subseteq Keys /\ pc \in {"new", "write", "log", "read", "done"}
  BY <1>2 DEF CallState
<1>4. /\ call[r].pc \in {"write", "done"} /\ call[r].op \in Writing
      /\ call[r].result # "ok"
  BY <1>1, <1>2 DEF CallState, CallShape
<1>5. /\ x \in CallState /\ x.pc = pc /\ x.pending = left /\ x.op = call[r].op
      /\ x.result = call[r].result /\ x.keys = call[r].keys /\ x.log = call[r].log
      /\ x.audit = call[r].audit /\ x.with = call[r].with
  BY <1>2, <1>3 DEF CallState
<1>6. Busy(r)  BY <1>1 DEF Busy
<1>7. pc = "log" => left = {}
  BY <1>4
<1>8. pc = call[r].pc \/ (pc = "log" /\ call[r].pc = "write")  BY DEF CallAt
<1>9. CallShape(x)
  BY <1>2, <1>4, <1>5, <1>7, <1>8 DEF CallShape
<1>10. Missing(x) <= Missing(call[r])  BY <1>2, <1>5, <1>8 DEF Missing
<1>11. GoesOn(r, x)
  BY <1>1, <1>4, <1>5, <1>6, <1>8, <1>9 DEF GoesOn, Clean
<1>12. x.pending = call[r].pending \ {k}  BY <1>5
<1> HIDE DEF x
<1>13. Missing(call[r]) \in Nat /\ Missing(x) \in Nat  BY DEF Missing
<1>14. Missing(call[r]) <= faults => Missing(x) <= faults'
  BY <1>1, <1>2, <1>10, <1>13
<1>15. \E j \in call[r].pending : /\ setting' = [setting EXCEPT ![j] = r]
                                  /\ x.pending = call[r].pending \ {j}
  BY <1>1, <1>12
<1>16. faults' \in Nat /\ faults <= faults' /\ crashed' = crashed  BY <1>1, <1>2
<1> QED  BY <1>11, <1>14, <1>15, <1>16, GoesOnKeeps

LEMMA AnsweredFields ==
  ASSUME NEW y \in CallState, NEW result \in {"ok", "rejected", "failed"}, y.op \in Writing
  PROVE  LET x == Answered(y, result) IN
         /\ x \in CallState /\ x.pc = "done" /\ x.result = result /\ x.audit = "pending"
         /\ x.op = y.op /\ x.keys = y.keys /\ x.pending = y.pending /\ x.log = y.log
         /\ x.with = y.with
  BY DEF Answered, Audited, CallState, Writing

LEMMA UpsertFailsKeeps ==
  ASSUME SettingsInv, NEW r \in Calls, NEW k \in Keys, UpsertFails(r, k)
  PROVE  SettingsInv'
<1> DEFINE left == call[r].pending \ {k}
           rest == [call[r] EXCEPT !.pending = left]
           x == IF CallAt(r, "done") THEN rest ELSE Answered(rest, "failed")
<1>1. /\ k \in call[r].pending /\ setting' = setting /\ crashed' = crashed
      /\ call' = [call EXCEPT ![r] = x] /\ faults' = faults + 1
  BY DEF UpsertFails, SetCall, Fault
<1>2. call[r] \in CallState /\ CallShape(call[r]) /\ faults \in Nat
  BY DEF SettingsInv, SettingsTyped
<1>3. /\ call[r].pc \in {"write", "done"} /\ call[r].op \in Writing
      /\ call[r].result # "ok"
      /\ call[r].pc = "write" => call[r].log = "none"
  BY <1>1, <1>2 DEF CallState, CallShape
<1>4. /\ rest \in CallState /\ rest.pc = call[r].pc /\ rest.pending = left
      /\ rest.op = call[r].op /\ rest.result = call[r].result /\ rest.keys = call[r].keys
      /\ rest.log = call[r].log /\ rest.audit = call[r].audit /\ rest.with = call[r].with
  BY <1>2 DEF CallState
<1> HIDE DEF rest
<1>5. /\ x \in CallState /\ x.pc = "done" /\ x.pending = left
      /\ x.op = call[r].op /\ x.keys = call[r].keys
      /\ x.log = call[r].log /\ x.with = call[r].with
      /\ IF call[r].pc = "done" THEN x.audit = call[r].audit /\ x.result = call[r].result
                                ELSE x.audit = "pending" /\ x.result = "failed"
  BY <1>3, <1>4, AnsweredFields DEF CallAt
<1> HIDE DEF x
<1>6. Busy(r)  BY <1>1 DEF Busy
<1>7. CallShape(x)  BY <1>2, <1>3, <1>5 DEF CallShape
<1>8. Missing(x) <= Missing(call[r]) + 1  BY <1>2, <1>3, <1>5 DEF Missing
<1>9. x.result # "ok"  BY <1>3, <1>5
<1>10. GoesOn(r, x)  BY <1>1, <1>3, <1>5, <1>6, <1>7, <1>9 DEF GoesOn
<1>11. ~Clean(r)'
  <2>1. call'[r] = x  BY <1>1 DEF SettingsInv, SettingsTyped
  <2> QED  BY <1>5, <1>9, <2>1 DEF Clean
<1>12. Missing(call[r]) \in Nat /\ Missing(x) \in Nat  BY DEF Missing
<1>13. Missing(call[r]) <= faults => Missing(x) <= faults'  BY <1>1, <1>2, <1>8, <1>12
<1> QED  BY <1>1, <1>2, <1>10, <1>11, <1>13, GoesOnKeeps

LEMMA LogRowKeeps ==
  ASSUME SettingsInv, NEW r \in Calls, LogRow(r)
  PROVE  SettingsInv'
<1>1. PICK log \in {"stored", "lost"} :
        /\ call' = [call EXCEPT ![r] =
             IF call[r].op = "config"
             THEN [[call[r] EXCEPT !.log = log] EXCEPT !.pc = "read"]
             ELSE Answered([call[r] EXCEPT !.log = log], "ok")]
        /\ faults' = IF log = "lost" THEN faults + 1 ELSE faults
        /\ call[r].pc = "log" /\ setting' = setting /\ crashed' = crashed
  <2>1. call[r] \in CallState  BY DEF SettingsInv, SettingsTyped
  <2>2. ASSUME NEW log PROVE [call[r] EXCEPT !.log = log].op = call[r].op
    BY <2>1 DEF CallState
  <2> QED  BY <2>2 DEF LogRow, SetCall, Fault, CallAt
<1> DEFINE y == [call[r] EXCEPT !.log = log]
           x == IF call[r].op = "config" THEN [y EXCEPT !.pc = "read"] ELSE Answered(y, "ok")
<1>2. call[r] \in CallState /\ CallShape(call[r]) /\ faults \in Nat
  BY DEF SettingsInv, SettingsTyped
<1>3. /\ call[r].op \in Writing /\ call[r].pending = {} /\ call[r].log = "none"
      /\ call[r].result = "none"
  BY <1>1, <1>2 DEF CallShape
<1>4. /\ y \in CallState /\ y.pc = "log" /\ y.pending = {} /\ y.op = call[r].op
      /\ y.result = "none" /\ y.keys = call[r].keys /\ y.log = log
      /\ y.audit = call[r].audit /\ y.with = call[r].with
  BY <1>1, <1>2, <1>3 DEF CallState
<1>5. call' = [call EXCEPT ![r] = x]  BY <1>1
<1> HIDE DEF y
<1>6. /\ x \in CallState /\ x.pending = {} /\ x.op = call[r].op /\ x.keys = call[r].keys
      /\ x.log = log /\ x.with = call[r].with
      /\ \/ x.pc = "read" /\ x.result = "none" /\ x.audit = call[r].audit
         \/ x.pc = "done" /\ x.result = "ok" /\ x.audit = "pending"
  <2>1. CASE call[r].op = "config"  BY <1>4, <2>1 DEF CallState
  <2>2. CASE call[r].op # "config"  BY <1>3, <1>4, <2>2, AnsweredFields
  <2> QED  BY <2>1, <2>2
<1> HIDE DEF x
<1>7. Busy(r) /\ Clean(r)  BY <1>1 DEF Busy, InFlight, CallAt, Clean
<1>8. CallShape(x)  BY <1>1, <1>2, <1>3, <1>6 DEF CallShape
<1>9. Missing(x) <= Missing(call[r]) + (IF log = "lost" THEN 1 ELSE 0)
  BY <1>1, <1>3, <1>6 DEF Missing
<1>10. GoesOn(r, x)  BY <1>3, <1>5, <1>6, <1>7, <1>8 DEF GoesOn
<1>11. Missing(call[r]) \in Nat /\ Missing(x) \in Nat  BY DEF Missing
<1>12. /\ faults' \in Nat /\ faults <= faults'
       /\ Missing(call[r]) <= faults => Missing(x) <= faults'
  BY <1>1, <1>2, <1>9, <1>11
<1> QED  BY <1>1, <1>3, <1>10, <1>12, GoesOnKeeps

LEMMA ReadBackKeeps ==
  ASSUME SettingsInv, NEW r \in Calls, ReadBack(r)
  PROVE  SettingsInv'
<1>1. PICK result \in {"ok", "failed"} :
        /\ call' = [call EXCEPT ![r] = Answered(call[r], result)]
        /\ call[r].pc = "read" /\ setting' = setting /\ crashed' = crashed
        /\ faults' \in {faults, faults + 1}
  BY DEF ReadBack, SetCall, Fault, CallAt
<1> DEFINE x == Answered(call[r], result)
<1>2. call[r] \in CallState /\ CallShape(call[r]) /\ faults \in Nat
  BY DEF SettingsInv, SettingsTyped
<1>3. /\ call[r].op \in Writing /\ call[r].pending = {} /\ call[r].log # "none"
  BY <1>1, <1>2 DEF CallShape
<1>4. /\ x \in CallState /\ x.pending = {} /\ x.op = call[r].op /\ x.keys = call[r].keys
      /\ x.log = call[r].log /\ x.with = call[r].with
      /\ x.pc = "done" /\ x.result = result /\ x.audit = "pending"
  BY <1>2, <1>3, AnsweredFields
<1>5. call' = [call EXCEPT ![r] = x]  BY <1>1
<1> HIDE DEF x
<1>6. Busy(r) /\ Clean(r)  BY <1>1 DEF Busy, InFlight, CallAt, Clean
<1>7. CallShape(x)  BY <1>2, <1>3, <1>4 DEF CallShape
<1>8. Missing(x) <= Missing(call[r])  BY <1>3, <1>4 DEF Missing
<1>9. GoesOn(r, x)  BY <1>3, <1>4, <1>5, <1>6, <1>7 DEF GoesOn
<1>10. Missing(call[r]) \in Nat /\ Missing(x) \in Nat  BY DEF Missing
<1>11. /\ faults' \in Nat /\ faults <= faults'
       /\ Missing(call[r]) <= faults => Missing(x) <= faults'
  BY <1>1, <1>2, <1>8, <1>10
<1> QED  BY <1>1, <1>3, <1>9, <1>11, GoesOnKeeps

LEMMA PersistKeeps ==
  ASSUME SettingsInv, NEW r \in Calls, Persist(r)
  PROVE  SettingsInv'
<1>1. PICK audit \in {"stored", "lost"} :
        /\ call' = [call EXCEPT ![r] = [call[r] EXCEPT !.audit = audit]]
        /\ call[r].audit = "pending" /\ setting' = setting /\ crashed' = crashed
        /\ faults' = IF audit = "lost" THEN faults + 1 ELSE faults
  BY DEF Persist, SetCall, Fault
<1> DEFINE x == [call[r] EXCEPT !.audit = audit]
<1>2. call[r] \in CallState /\ CallShape(call[r]) /\ faults \in Nat
  BY DEF SettingsInv, SettingsTyped
<1>3. /\ x \in CallState /\ x.pending = call[r].pending /\ x.op = call[r].op
      /\ x.keys = call[r].keys /\ x.log = call[r].log /\ x.with = call[r].with
      /\ x.pc = call[r].pc /\ x.result = call[r].result /\ x.audit = audit
  BY <1>2 DEF CallState
<1>4. call' = [call EXCEPT ![r] = x]  BY <1>1
<1> HIDE DEF x
<1>5. CallShape(x)  BY <1>1, <1>2, <1>3 DEF CallShape
<1>6. Missing(x) <= Missing(call[r]) + (IF audit = "lost" THEN 1 ELSE 0)
  BY <1>1, <1>3 DEF Missing
<1>7. GoesOn(r, x)
  BY <1>2, <1>3, <1>4, <1>5 DEF GoesOn, Busy, InFlight, CallAt, Clean
<1>8. Missing(call[r]) \in Nat /\ Missing(x) \in Nat  BY DEF Missing
<1>9. /\ faults' \in Nat /\ faults <= faults'
      /\ Missing(call[r]) <= faults => Missing(x) <= faults'
  BY <1>1, <1>2, <1>6, <1>8
<1>10. call[r].pending \subseteq x.pending  BY <1>3
<1> QED  BY <1>1, <1>7, <1>9, <1>10, GoesOnKeeps

LEMMA CrashKeeps ==
  ASSUME SettingsInv, NEW r \in Calls, Crash(r)
  PROVE  SettingsInv'
<1>1. PICK left \in SUBSET call[r].pending :
        /\ call' = [call EXCEPT ![r] =
             [call[r] EXCEPT !.pc = "done", !.audit = "lost", !.pending = left,
                !.result = IF @ = "none" THEN "failed" ELSE @]]
        /\ InFlight(r) \/ call[r].audit = "pending"
        /\ setting' = setting /\ crashed' = crashed \cup {r} /\ faults' = faults + 1
  BY DEF Crash, SetCall, Fault
<1> DEFINE result == IF call[r].result = "none" THEN "failed" ELSE call[r].result
           x == [call[r] EXCEPT !.pc = "done", !.audit = "lost", !.pending = left,
                   !.result = result]
<1>2. call[r] \in CallState /\ CallShape(call[r]) /\ faults \in Nat
  BY DEF SettingsInv, SettingsTyped
<1>3. left \in SUBSET Keys  BY <1>2 DEF CallState
<1>4. /\ x \in CallState /\ x.pending = left /\ x.op = call[r].op
      /\ x.keys = call[r].keys /\ x.log = call[r].log /\ x.with = call[r].with
      /\ x.pc = "done" /\ x.result = result /\ x.audit = "lost"
  BY <1>2, <1>3 DEF CallState
<1>5. call' = [call EXCEPT ![r] = x]  BY <1>1, <1>2
<1> HIDE DEF x
<1>6. CallShape(x)  BY <1>2, <1>4 DEF CallShape
<1>7. left # {} => Busy(r)  BY DEF Busy
<1>8. result = "ok" => Clean(r)  BY DEF Clean
<1>9. GoesOn(r, x)  BY <1>4, <1>5, <1>6, <1>7, <1>8 DEF GoesOn
<1>10. crashed' # {}  BY <1>1
<1>11. call[r].pending \subseteq x.pending \/ ~Clean(r)'
  <2>1. call'[r] = x  BY <1>5 DEF SettingsInv, SettingsTyped
  <2>2. result = "ok" => call[r].pending = {}  BY <1>2 DEF CallShape
  <2> QED  BY <1>4, <2>1, <2>2 DEF Clean
<1> QED  BY <1>1, <1>2, <1>9, <1>10, <1>11, GoesOnKeeps

LEMMA SettingsStep == SettingsInv /\ [SettingsNext]_settingsVars => SettingsInv'
<1> SUFFICES ASSUME SettingsInv, [SettingsNext]_settingsVars PROVE SettingsInv'
  OBVIOUS
<1>1. ASSUME NEW r \in Calls,
             \/ \E k \in Keys : Update(r, k)
             \/ \E keys \in SUBSET ConfigKeys : Config(r, keys) \/ Bulk(r, keys)
             \/ \E op \in {"read", "search"} : Get(r, op)
             \/ Refuse(r)
      PROVE  SettingsInv'
  BY <1>1, ArrivesKeeps
<1>2. ASSUME NEW r \in Calls, NEW k \in Keys, Upsert(r, k) \/ UpsertFails(r, k)
      PROVE  SettingsInv'
  BY <1>2, UpsertKeeps, UpsertFailsKeeps
<1>3. ASSUME NEW r \in Calls, LogRow(r) \/ ReadBack(r) \/ Persist(r) \/ Crash(r)
      PROVE  SettingsInv'
  BY <1>3, LogRowKeeps, ReadBackKeeps, PersistKeeps, CrashKeeps
<1>4. CASE UNCHANGED settingsVars
  BY <1>4 DEF settingsVars, SettingsInv, SettingsTyped, Writers, Ordered, Before, Busy,
              InFlight, CallAt, Clean, FaultsCounted
<1> QED  BY <1>1, <1>2, <1>3, <1>4 DEF SettingsNext, SettingsRest

LEMMA SettingsAlways == SettingsSpec => []SettingsInv
<1>1. SettingsInit => SettingsInv
  <2> SUFFICES ASSUME SettingsInit PROVE SettingsInv
    OBVIOUS
  <2>1. \A r \in Calls : call[r] = NewCall  BY DEF SettingsInit
  <2>2. NewCall \in CallState /\ CallShape(NewCall) /\ Missing(NewCall) = 0
    BY DEF NewCall, CallState, CallShape, Missing, Writing
  <2>3. SettingsTyped  BY <2>1, <2>2 DEF SettingsInit, SettingsTyped
  <2>4. Writers  BY NobodyCalls DEF SettingsInit, Writers
  <2>5. Ordered
    BY <2>1 DEF Ordered, NewCall, Before, Busy, InFlight, CallAt, Clean
  <2>6. FaultsCounted  BY <2>1, <2>2 DEF FaultsCounted, SettingsInit
  <2> QED  BY <2>3, <2>4, <2>5, <2>6 DEF SettingsInv
<1> QED  BY <1>1, SettingsStep, PTL DEF SettingsSpec

(***************************************************************************)
(* Two values of the configuration that come from two requests, each of    *)
(* which wrote both keys, were written by requests that overlapped, or one *)
(* of them has failed or is not done: one that is over before the other    *)
(* begins leaves nothing where the other writes (system.service.ts:47-90). *)
(***************************************************************************)
THEOREM ConfigCorrect == SettingsSpec => []ConfigOfOneUpdate
<1> QED  BY SettingsAlways, ConfigExplained, PTL

(***************************************************************************)
(* As long as no process dies, one failed query does not leave a change    *)
(* without a record: a change loses its log row, its audit row and the     *)
(* chance to be logged to a fault each (logs.service.ts:24-31,             *)
(* audit.interceptor.ts:92-108).                                           *)
(***************************************************************************)
THEOREM RecordCorrect == SettingsSpec => []OneFaultLeavesRecord
<1> QED  BY SettingsAlways, RecordLeft, PTL
=============================================================================
