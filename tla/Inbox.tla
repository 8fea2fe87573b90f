------------------------------- MODULE Inbox --------------------------------
(***************************************************************************)
(* Notifications and tasks: one user sends an item to another, who reads   *)
(* it, and each side is told by the gateway when it is connected           *)
(* (NotificationsService, TasksService).                                   *)
(*                                                                         *)
(* A query is a step; everything between two queries, the announcement     *)
(* included, runs without interruption.  A task's status is known by the   *)
(* request that set it.  What a screen shows is what it was told last.     *)
(***************************************************************************)
EXTENDS Realtime, Naturals

CONSTANTS
  Seeds,     \* the items of the first state
  Requests,  \* requests; each also names the item it creates
  Senders,   \* users who are SUPER_ADMIN or NOTARIO
  Admins,    \* those who are SUPER_ADMIN
  ALL,       \* the recipient of a notification to everybody
  MaxFaults  \* bound: failed queries and restarts

Items == Seeds \cup Requests

ASSUME SendersAreUsers == Admins \subseteq Senders /\ Senders \subseteq Users
ASSUME AllIsNoUser == ALL \notin Users \cup {NULL}
ASSUME SeedsAreNoRequests == Seeds \cap Requests = {} /\ NULL \notin Requests
ASSUME FaultBound == MaxFaults \in Nat

VARIABLES
  item,      \* tables notifications and tasks
  req,       \* the requests
  told,      \* history: the requests that announced that an item was read
  lastTold,  \* the status of a task that was announced last
  got,       \* the sockets that the announcement of a request reached
  faults     \* history: how many faults there were

inboxVars == <<item, req, told, lastTold, got, faults>>
vars == <<realtimeVars, inboxVars>>

Item ==
  [ state: {"absent", "present", "deleted"}, kind: {"note", "task"},
    from: Users, to: Users \cup {ALL}, read: BOOLEAN, status: Requests \cup {NULL} ]

NoItem(u) ==
  [ state |-> "absent", kind |-> "note", from |-> u, to |-> u, read |-> FALSE, status |-> NULL ]

(***************************************************************************)
(* list are the items found unread, to be announced as read.  with is      *)
(* history: at the write, the requests that had read the same items and    *)
(* not written, or written the status and not announced it; at an insert,  *)
(* those that had listed the unread and not marked them.                   *)
(***************************************************************************)
RequestState ==
  [ pc: {"new", "insert", "names", "write", "tell", "delete", "done"},
    op: {"none", "create", "read", "readAll", "status", "remove"},
    result: {"none", "ok", "notFound", "forbidden", "failed"},
    by: Users \cup {NULL}, id: Items \cup {NULL}, to: Users \cup {ALL, NULL},
    kind: {"note", "task"}, list: SUBSET Items, with: SUBSET Requests ]

NewRequest ==
  [ pc |-> "new", op |-> "none", result |-> "none", by |-> NULL, id |-> NULL, to |-> NULL,
    kind |-> "note", list |-> {}, with |-> {} ]

TypeOK ==
  /\ RealtimeTypeOK
  /\ item \in [Items -> Item]
  /\ req \in [Requests -> RequestState]
  /\ told \in [Items -> SUBSET Requests]
  /\ lastTold \in [Items -> Requests \cup {NULL}]
  /\ got \in [Requests -> SUBSET Sockets]
  /\ faults \in Nat

\* The seeds are unread.
Init ==
  /\ RealtimeInit
  /\ \E from \in Senders, to \in Users \cup {ALL}, kind \in {"note", "task"} :
       /\ kind = "task" => to # ALL
       /\ item = [i \in Items |->
                    IF i \in Seeds
                    THEN [NoItem(from) EXCEPT !.state = "present", !.kind = kind, !.to = to]
                    ELSE NoItem(from)]
  /\ req = [r \in Requests |-> NewRequest]
  /\ told = [i \in Items |-> {}]
  /\ lastTold = [i \in Items |-> NULL]
  /\ got = [r \in Requests |-> {}]
  /\ faults = 0

----------------------------------------------------------------------------
At(r, pc) == req[r].pc = pc

InFlight(r) == ~At(r, "new") /\ ~At(r, "done")

Become(r, x) == req' = [req EXCEPT ![r] = x]

Go(r, pc) == Become(r, [req[r] EXCEPT !.pc = pc])

Answer(r, result) == Become(r, [req[r] EXCEPT !.pc = "done", !.result = result])

Present(i) == item[i].state = "present"

Recipient(i, u) == item[i].to \in {u, ALL}

Fault == faults < MaxFaults /\ faults' = faults + 1

Quiet == UNCHANGED <<told, lastTold, got, faults>>

----------------------------------------------------------------------------
\* create, which RolesGuard keeps to the senders.  The recipient is looked up,
\* unless it is everybody.
Create(r, u, kind, to) ==
  /\ At(r, "new")
  /\ u \in Senders
  /\ kind = "task" => to # ALL
  /\ \/ Become(r, [req[r] EXCEPT !.pc = "insert", !.op = "create", !.by = u,
                     !.kind = kind, !.to = to])
     \/ to # ALL /\ Answer(r, "notFound")
  /\ UNCHANGED item /\ Quiet

Sweeping(u) ==
  {s \in Requests : At(s, "write") /\ req[s].op = "readAll" /\ u \in {req[s].by, ALL}}

\* A personal notification is announced after its recipient's name is read.
Insert(r) ==
  /\ At(r, "insert")
  /\ item' = [item EXCEPT ![r] =
       [ state |-> "present", kind |-> req[r].kind, from |-> req[r].by, to |-> req[r].to,
         read |-> FALSE, status |-> NULL ]]
  /\ Become(r, [req[r] EXCEPT !.with = Sweeping(req[r].to),
       !.pc = IF req[r].kind = "note" /\ req[r].to # ALL THEN "names" ELSE "tell"])
  /\ Quiet

Names(r) ==
  /\ At(r, "names")
  /\ Go(r, "tell")
  /\ UNCHANGED item /\ Quiet

\* Mutant: every read is announced, not only the first one.
ReadAlways(r, u, i) ==
  /\ At(r, "new")
  /\ \/ ~Present(i) /\ Answer(r, "notFound")
     \/ Present(i) /\ ~Recipient(i, u) /\ Answer(r, "forbidden")
     \/ /\ Present(i) /\ Recipient(i, u)
        /\ Become(r, [req[r] EXCEPT !.pc = "write", !.op = "read", !.by = u, !.id = i,
                        !.list = {i}])
  /\ UNCHANGED item /\ Quiet

\* markRead of both services: only the recipient, who may be anybody.
Read(r, u, i) ==
  /\ At(r, "new")
  /\ \/ ~Present(i) /\ Answer(r, "notFound")
     \/ Present(i) /\ ~Recipient(i, u) /\ Answer(r, "forbidden")
     \/ /\ Present(i) /\ Recipient(i, u)
        /\ Become(r, [req[r] EXCEPT !.pc = "write", !.op = "read", !.by = u, !.id = i,
                        !.list = IF item[i].read THEN {} ELSE {i}])
  /\ UNCHANGED item /\ Quiet

Unread(u) ==
  {i \in Items : Present(i) /\ item[i].kind = "note" /\ Recipient(i, u) /\ ~item[i].read}

\* markAllRead lists the unread notifications before it marks them.
ReadAll(r, u) ==
  /\ At(r, "new")
  /\ Become(r, [req[r] EXCEPT !.pc = "write", !.op = "readAll", !.by = u, !.list = Unread(u)])
  /\ UNCHANGED item /\ Quiet

\* updateStatus of a task, by its recipient.
Status(r, u, i) ==
  /\ At(r, "new")
  /\ Present(i) => item[i].kind = "task"
  /\ \/ ~Present(i) /\ Answer(r, "notFound")
     \/ Present(i) /\ item[i].to # u /\ Answer(r, "forbidden")
     \/ /\ Present(i) /\ item[i].to = u
        /\ Become(r, [req[r] EXCEPT !.pc = "write", !.op = "status", !.by = u, !.id = i])
  /\ UNCHANGED item /\ Quiet

MayRemove(i, u) ==
  \/ u = item[i].from
  \/ u = item[i].to
  \/ item[i].kind = "note" /\ u \in Admins

Remove(r, u, i) ==
  /\ At(r, "new")
  /\ \/ ~Present(i) /\ Answer(r, "notFound")
     \/ Present(i) /\ ~MayRemove(i, u) /\ Answer(r, "forbidden")
     \/ /\ Present(i) /\ MayRemove(i, u)
        /\ Become(r, [req[r] EXCEPT !.pc = "delete", !.op = "remove", !.by = u, !.id = i])
  /\ UNCHANGED item /\ Quiet

\* The items that the write of r marks as read.
Marked(r) == IF req[r].op = "readAll" THEN Unread(req[r].by) ELSE {req[r].id}

Overlapping(r) ==
  {s \in Requests \ {r} :
     \/ At(s, "write") /\ req[s].list \cap req[r].list # {}
     \/ At(s, "tell") /\ req[s].op = "status" /\ req[r].op = "status" /\ req[s].id = req[r].id}

\* Prisma's P2025 when the row of an update by id is gone.
Write(r) ==
  /\ At(r, "write")
  /\ IF req[r].op = "readAll" \/ Present(req[r].id)
     THEN /\ item' = [i \in Items |->
               IF i \notin Marked(r) THEN item[i]
               ELSE IF req[r].op = "status" THEN [item[i] EXCEPT !.status = r]
                                            ELSE [item[i] EXCEPT !.read = TRUE]]
          /\ Become(r, [req[r] EXCEPT !.pc = "tell", !.with = Overlapping(r)])
     ELSE Answer(r, "notFound") /\ UNCHANGED item
  /\ Quiet

Delete(r) ==
  /\ At(r, "delete")
  /\ IF Present(req[r].id)
     THEN item' = [item EXCEPT ![req[r].id].state = "deleted"] /\ Answer(r, "ok")
     ELSE Answer(r, "notFound") /\ UNCHANGED item
  /\ Quiet

\* The sockets that hear of it: the recipient of a new item, everybody, the
\* sender of an item that was read or whose status changed.
Audience(r) ==
  CASE req[r].op = "create" /\ req[r].to = ALL -> Everybody
    [] req[r].op = "create" /\ req[r].to # ALL -> Reached(req[r].to)
    [] req[r].op = "status" -> Reached(item[req[r].id].from)
    [] req[r].op \in {"read", "readAll"} ->
         UNION {Reached(item[i].from) : i \in req[r].list}

\* Mutant: a status is announced before it is written, by nobody afterwards.
TellNoStatus(r) ==
  /\ At(r, "tell")
  /\ got' = [got EXCEPT ![r] = Audience(r)]
  /\ told' = [i \in Items |-> IF i \in req[r].list THEN told[i] \cup {r} ELSE told[i]]
  /\ Answer(r, "ok")
  /\ UNCHANGED <<item, lastTold, faults>>

\* When the answer of the last query has come: emitToUser or emitToAll.
Tell(r) ==
  /\ At(r, "tell")
  /\ got' = [got EXCEPT ![r] = Audience(r)]
  /\ told' = [i \in Items |-> IF i \in req[r].list THEN told[i] \cup {r} ELSE told[i]]
  /\ lastTold' = IF req[r].op = "status" THEN [lastTold EXCEPT ![req[r].id] = r] ELSE lastTold
  /\ Answer(r, "ok")
  /\ UNCHANGED <<item, faults>>

\* A query fails.
Fail(r) ==
  /\ InFlight(r)
  /\ Answer(r, "failed")
  /\ Fault
  /\ UNCHANGED <<item, told, lastTold, got>>

\* The process dies, and every request with it.
Die ==
  /\ Restart
  /\ req' = [r \in Requests |->
       IF InFlight(r) THEN [req[r] EXCEPT !.pc = "done", !.result = "failed"] ELSE req[r]]
  /\ Fault
  /\ UNCHANGED <<item, told, lastTold, got>>

Terminated ==
  /\ \A r \in Requests : At(r, "done")
  /\ UNCHANGED vars

Handle(r) ==
  \/ \E u \in Users :
       \/ \E kind \in {"note", "task"}, to \in Users \cup {ALL} : Create(r, u, kind, to)
       \/ \E i \in Items : Read(r, u, i) \/ Status(r, u, i) \/ Remove(r, u, i)
       \/ ReadAll(r, u)
  \/ Insert(r) \/ Names(r) \/ Write(r) \/ Delete(r) \/ Tell(r) \/ Fail(r)

Next ==
  \/ Realtime /\ UNCHANGED inboxVars
  \/ (\E r \in Requests : Handle(r)) /\ UNCHANGED realtimeVars
  \/ Die
  \/ Terminated

Spec == Init /\ [][Next]_vars

----------------------------------------------------------------------------
(***************************************************************************)
(* The sender is told that an item was read, once.  Twice only by requests *)
(* that overlapped, each of which found it unread; never only if the       *)
(* request that marked it is about to tell or failed, or if markAllRead    *)
(* marked a notification that arrived after it had made its list           *)
(* (notifications.service.ts:185-200, 221-240; tasks.service.ts:157-171).  *)
(***************************************************************************)
ToldAtMostOnce ==
  \A i \in Items : \A r, s \in told[i] : r # s => r \in req[s].with \/ s \in req[r].with

ToldAtLeastOnce ==
  \A i \in Items : Present(i) /\ item[i].read /\ told[i] = {} =>
    \/ i \in Requests /\ req[i].with # {}
    \/ \E r \in Requests : i \in req[r].list /\ (At(r, "tell") \/ req[r].result = "failed")

ReadToldOnce == ToldAtMostOnce /\ ToldAtLeastOnce

(***************************************************************************)
(* The status that the sender of a task was told last is the status it     *)
(* has, unless the request that set it is about to tell or failed, or the  *)
(* announcements of two updates that overlapped came in the other order    *)
(* (tasks.service.ts:133-145).                                             *)
(***************************************************************************)
StatusShown ==
  \A i \in Items : LET s == item[i].status IN
    /\ Present(i)
    /\ lastTold[i] # s
    => At(s, "tell") \/ req[s].result = "failed" \/ lastTold[i] \in req[s].with

(***************************************************************************)
(* An announcement reaches every verified open socket of the users it is   *)
(* for, and the sockets of nobody else; one to everybody also reaches      *)
(* those not yet verified (realtime.gateway.ts:96-113).                    *)
(***************************************************************************)
Addressees(r) ==
  CASE req[r].op = "create" -> IF req[r].to = ALL THEN Users ELSE {req[r].to}
    [] req[r].op = "status" -> {item[req[r].id].from}
    [] req[r].op \in {"read", "readAll"} -> {item[i].from : i \in req[r].list}

HeardByAll ==
  [][\A r \in Requests : At(r, "tell") /\ req'[r].result = "ok" =>
       LET rooms == UNION {Room(u) : u \in Addressees(r)}
       IN  /\ rooms \subseteq got'[r]
           /\ got'[r] \subseteq rooms \cup IF req[r].to = ALL
                                          THEN {c \in Sockets : Is(c, "verifying")} ELSE {}]_vars
=============================================================================
