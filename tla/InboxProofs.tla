----------------------------- MODULE InboxProofs -----------------------------
(***************************************************************************)
(* What the register of the gateway and an announcement promise, for any   *)
(* number of users, sockets and requests.                                  *)
(*                                                                         *)
(* The invariant ties each socket's state to its user and to the register, *)
(* and says which parameters a request has at each of its queries.         *)
(***************************************************************************)
EXTENDS Inbox, TLAPS

SocketStates == { "new", "verifying", "gone", "joined", "stale", "closed" }

\* A socket that presented a token has the user it names.
Owned == \A c \in Sockets : sock[c].state \notin {"new", "closed"} => sock[c].user \in Users

RealtimeInv == RealtimeTypeOK /\ Owned /\ RegisterOfRoom

Pcs == { "new", "insert", "names", "write", "tell", "delete", "done" }

Results == { "none", "ok", "notFound", "forbidden", "failed" }

\* Which operation a request x is at, and the parameters it has.
Shape(x) ==
  /\ x.pc # "done" => x.result = "none"
  /\ x.pc \in {"insert", "names"} => x.op = "create"
  /\ x.pc = "insert" => x.by \in Users
  /\ x.op = "create" => x.to \in Users \cup {ALL}
  /\ x.pc = "write" => x.op \in {"read", "readAll", "status"}
  /\ x.pc = "tell" => x.op \in {"create", "read", "readAll", "status"}
  /\ x.op \in {"read", "status", "remove"} => x.id \in Items
  /\ x.pc = "delete" => x.op = "remove"

InboxInv == TypeOK /\ RealtimeInv /\ \A r \in Requests : Shape(req[r])

----------------------------------------------------------------------------
(***************************************************************************)
(* The sockets and the register.                                           *)
(***************************************************************************)
LEMMA TurnOnly ==
  ASSUME RealtimeTypeOK, NEW c \in Sockets, NEW state \in SocketStates, Turn(c, state)
  PROVE  /\ sock' \in [Sockets -> SocketState]
         /\ sock'[c].state = state /\ sock'[c].user = sock[c].user
         /\ \A d \in Sockets \ {c} : sock'[d] = sock[d]
  BY DEF Turn, RealtimeTypeOK, SocketState, SocketStates

\* A socket that is neither joined nor stale is in no entry of the register.
LEMMA Unlisted ==
  ASSUME RealtimeInv, NEW c \in Sockets, ~Is(c, "joined"), ~Is(c, "stale"), NEW u \in Users
  PROVE  c \notin register[u]
  BY DEF RealtimeInv, RegisterOfRoom, Room, Is

\* The register stays right when an unlisted socket turns to a state in
\* which it need not be listed.
LEMMA TurnUnlisted ==
  ASSUME RealtimeInv, NEW c \in Sockets, ~Is(c, "joined"), ~Is(c, "stale"),
         UNCHANGED register, sock' \in [Sockets -> SocketState],
         \A d \in Sockets \ {c} : sock'[d] = sock[d],
         sock'[c].state \notin {"joined", "stale"},
         sock'[c].state \notin {"new", "closed"} => sock'[c].user \in Users
  PROVE  RealtimeInv'
<1>1. RealtimeTypeOK'  BY DEF RealtimeInv, RealtimeTypeOK
<1>2. Owned'  BY DEF RealtimeInv, Owned
<1>3. ASSUME NEW u \in Users
      PROVE  /\ Room(u)' \subseteq register'[u]
             /\ register'[u] \subseteq
                  Room(u)' \cup {d \in Sockets : Is(d, "stale")' /\ sock'[d].user = u}
  <2>1. c \notin register[u]  BY Unlisted
  <2>2. /\ Room(u) \subseteq register[u]
        /\ register[u] \subseteq
             Room(u) \cup {d \in Sockets : Is(d, "stale") /\ sock[d].user = u}
    BY DEF RealtimeInv, RegisterOfRoom
  <2> QED  BY <2>1, <2>2 DEF Room, Is
<1>4. RegisterOfRoom'  BY <1>3 DEF RegisterOfRoom
<1> QED  BY <1>1, <1>2, <1>4 DEF RealtimeInv

LEMMA ConnectKeeps ==
  ASSUME RealtimeInv, NEW c \in Sockets, NEW u \in Users, Connect(c, u)
  PROVE  RealtimeInv'
<1>1. /\ sock' \in [Sockets -> SocketState]
      /\ sock'[c].state = "verifying" /\ sock'[c].user = u
      /\ \A d \in Sockets \ {c} : sock'[d] = sock[d]
  BY DEF Connect, RealtimeInv, RealtimeTypeOK, SocketState
<1>2. ~Is(c, "joined") /\ ~Is(c, "stale") /\ UNCHANGED register  BY DEF Connect, Is
<1> QED  BY <1>1, <1>2, TurnUnlisted

LEMMA RefuseKeeps ==
  ASSUME RealtimeInv, NEW c \in Sockets, NoToken(c) \/ RefuseSocket(c)
  PROVE  RealtimeInv'
<1>1. Turn(c, "closed") /\ UNCHANGED register /\ ~Is(c, "joined") /\ ~Is(c, "stale")
  BY DEF NoToken, RefuseSocket, Is
<1>2. /\ sock' \in [Sockets -> SocketState]
      /\ sock'[c].state = "closed"
      /\ \A d \in Sockets \ {c} : sock'[d] = sock[d]
  BY <1>1, TurnOnly DEF RealtimeInv, SocketStates
<1> QED  BY <1>1, <1>2, TurnUnlisted

LEMMA VerifiedKeeps ==
  ASSUME RealtimeInv, NEW c \in Sockets, Verified(c)
  PROVE  RealtimeInv'
<1> DEFINE state == IF Is(c, "gone") THEN "stale" ELSE "joined"
<1>1. state \in {"stale", "joined"} /\ state \in SocketStates /\ Turn(c, state)
  BY DEF Verified, SocketStates
<1>2. sock[c].user \in Users  BY DEF Verified, RealtimeInv, Owned, Is
<1> HIDE DEF state
<1>3. /\ sock' \in [Sockets -> SocketState]
      /\ sock'[c].state = state /\ sock'[c].user = sock[c].user
      /\ \A d \in Sockets \ {c} : sock'[d] = sock[d]
  BY <1>1, TurnOnly DEF RealtimeInv
<1>4. /\ register' \in [Users -> SUBSET Sockets]
      /\ register'[sock[c].user] = register[sock[c].user] \cup {c}
      /\ \A u \in Users \ {sock[c].user} : register'[u] = register[u]
  BY <1>2 DEF Verified, RealtimeInv, RealtimeTypeOK
<1>5. RealtimeTypeOK'  BY <1>3, <1>4 DEF RealtimeTypeOK
<1>6. Owned'  BY <1>2, <1>3 DEF RealtimeInv, Owned
<1>7. ASSUME NEW u \in Users
      PROVE  /\ Room(u)' \subseteq register'[u]
             /\ register'[u] \subseteq
                  Room(u)' \cup {d \in Sockets : Is(d, "stale")' /\ sock'[d].user = u}
  <2>1. c \notin register[u]  BY Unlisted DEF Verified, Is
  <2>2. /\ Room(u) \subseteq register[u]
        /\ register[u] \subseteq
             Room(u) \cup {d \in Sockets : Is(d, "stale") /\ sock[d].user = u}
    BY DEF RealtimeInv, RegisterOfRoom
  <2>3. CASE u = sock[c].user  BY <1>1, <1>3, <1>4, <2>1, <2>2, <2>3 DEF Room, Is
  <2>4. CASE u # sock[c].user  BY <1>1, <1>3, <1>4, <2>1, <2>2, <2>4 DEF Room, Is
  <2> QED  BY <2>3, <2>4
<1>8. RegisterOfRoom'  BY <1>7 DEF RegisterOfRoom
<1> QED  BY <1>5, <1>6, <1>8 DEF RealtimeInv

LEMMA CloseKeeps ==
  ASSUME RealtimeInv, NEW c \in Sockets, Close(c)
  PROVE  RealtimeInv'
<1>1. CASE Is(c, "joined")
  <2>1. Turn(c, "closed") /\ sock[c].user \in Users
    BY <1>1 DEF Close, RealtimeInv, Owned, Is
  <2>2. /\ sock' \in [Sockets -> SocketState]
        /\ sock'[c].state = "closed"
        /\ \A d \in Sockets \ {c} : sock'[d] = sock[d]
    BY <2>1, TurnOnly DEF RealtimeInv, SocketStates
  <2>3. /\ register' \in [Users -> SUBSET Sockets]
        /\ register'[sock[c].user] = register[sock[c].user] \ {c}
        /\ \A u \in Users \ {sock[c].user} : register'[u] = register[u]
    BY <1>1, <2>1 DEF Close, RealtimeInv, RealtimeTypeOK
  <2>4. RealtimeTypeOK'  BY <2>2, <2>3 DEF RealtimeTypeOK
  <2>5. Owned'  BY <2>2 DEF RealtimeInv, Owned
  <2>6. ASSUME NEW u \in Users
        PROVE  /\ Room(u)' \subseteq register'[u]
               /\ register'[u] \subseteq
                    Room(u)' \cup {d \in Sockets : Is(d, "stale")' /\ sock'[d].user = u}
    <3>1. /\ Room(u) \subseteq register[u]
          /\ register[u] \subseteq
               Room(u) \cup {d \in Sockets : Is(d, "stale") /\ sock[d].user = u}
      BY DEF RealtimeInv, RegisterOfRoom
    <3>2. CASE u = sock[c].user  BY <2>2, <2>3, <3>1, <3>2 DEF Room, Is
    <3>3. CASE u # sock[c].user
      <4>1. c \notin register[u]  BY <1>1, <3>1, <3>3 DEF Room, Is
      <4> QED  BY <2>2, <2>3, <3>1, <3>3, <4>1 DEF Room, Is
    <3> QED  BY <3>2, <3>3
  <2>7. RegisterOfRoom'  BY <2>6 DEF RegisterOfRoom
  <2> QED  BY <2>4, <2>5, <2>7 DEF RealtimeInv
<1>2. CASE ~Is(c, "joined")
  <2>1. Turn(c, "gone") /\ UNCHANGED register /\ ~Is(c, "stale") /\ sock[c].user \in Users
    BY <1>2 DEF Close, RealtimeInv, Owned, Is
  <2>2. /\ sock' \in [Sockets -> SocketState]
        /\ sock'[c].state = "gone" /\ sock'[c].user = sock[c].user
        /\ \A d \in Sockets \ {c} : sock'[d] = sock[d]
    BY <2>1, TurnOnly DEF RealtimeInv, SocketStates
  <2> QED  BY <1>2, <2>1, <2>2, TurnUnlisted
<1> QED  BY <1>1, <1>2

LEMMA DisconnectKeeps ==
  ASSUME RealtimeInv, NEW v \in Users, DisconnectUser(v)
  PROVE  RealtimeInv'
<1>1. /\ sock' \in [Sockets -> SocketState]
      /\ \A c \in Room(v) : sock'[c].state = "closed"
      /\ \A c \in Sockets \ Room(v) : sock'[c] = sock[c]
  BY DEF DisconnectUser, RealtimeInv, RealtimeTypeOK, SocketState, Room
<1>2. /\ register' \in [Users -> SUBSET Sockets]
      /\ register'[v] = {}
      /\ \A u \in Users \ {v} : register'[u] = register[u]
  BY DEF DisconnectUser, RealtimeInv, RealtimeTypeOK
<1>3. RealtimeTypeOK'  BY <1>1, <1>2 DEF RealtimeTypeOK
<1>4. Owned'  BY <1>1 DEF RealtimeInv, Owned
<1>5. ASSUME NEW u \in Users
      PROVE  /\ Room(u)' \subseteq register'[u]
             /\ register'[u] \subseteq
                  Room(u)' \cup {d \in Sockets : Is(d, "stale")' /\ sock'[d].user = u}
  <2>1. /\ Room(u) \subseteq register[u]
        /\ register[u] \subseteq
             Room(u) \cup {d \in Sockets : Is(d, "stale") /\ sock[d].user = u}
    BY DEF RealtimeInv, RegisterOfRoom
  <2>2. CASE u = v  BY <1>1, <1>2, <2>2 DEF Room, Is
  <2>3. CASE u # v  BY <1>1, <1>2, <2>1, <2>3 DEF Room, Is
  <2> QED  BY <2>2, <2>3
<1>6. RegisterOfRoom'  BY <1>5 DEF RegisterOfRoom
<1> QED  BY <1>3, <1>4, <1>6 DEF RealtimeInv

LEMMA RestartKeeps ==
  ASSUME RealtimeInv, Restart
  PROVE  RealtimeInv'
<1>1. /\ sock' \in [Sockets -> SocketState]
      /\ \A c \in Sockets : sock'[c].state \in {"new", "closed"}
  BY DEF Restart, RealtimeInv, RealtimeTypeOK, SocketState, Is
<1>2. register' \in [Users -> SUBSET Sockets] /\ \A u \in Users : register'[u] = {}
  BY DEF Restart
<1>3. RealtimeTypeOK'  BY <1>1, <1>2 DEF RealtimeTypeOK
<1>4. Owned'  BY <1>1 DEF Owned
<1>5. RegisterOfRoom'  BY <1>1, <1>2 DEF RegisterOfRoom, Room, Is
<1> QED  BY <1>3, <1>4, <1>5 DEF RealtimeInv

LEMMA RealtimeKeeps ==
  ASSUME RealtimeInv, Realtime
  PROVE  RealtimeInv'
<1>1. ASSUME NEW c \in Sockets,
             (\E u \in Users : Connect(c, u)) \/ NoToken(c) \/ RefuseSocket(c)
               \/ Verified(c) \/ Close(c)
      PROVE  RealtimeInv'
  BY <1>1, ConnectKeeps, RefuseKeeps, VerifiedKeeps, CloseKeeps
<1> QED  BY <1>1, DisconnectKeeps DEF Realtime

LEMMA RealtimeSame ==
  ASSUME RealtimeInv, UNCHANGED realtimeVars
  PROVE  RealtimeInv'
  BY DEF RealtimeInv, RealtimeTypeOK, Owned, RegisterOfRoom, Room, Is, realtimeVars

----------------------------------------------------------------------------
(***************************************************************************)
(* The requests.                                                           *)
(***************************************************************************)
Tables ==
  /\ item \in [Items -> Item]
  /\ told \in [Items -> SUBSET Requests]
  /\ lastTold \in [Items -> Requests \cup {NULL}]
  /\ got \in [Requests -> SUBSET Sockets]
  /\ faults \in Nat

LEMMA BecomeKeeps ==
  ASSUME InboxInv, NEW r \in Requests, NEW x \in RequestState, Shape(x), Become(r, x),
         Tables', UNCHANGED realtimeVars
  PROVE  InboxInv'
<1>1. req' \in [Requests -> RequestState] /\ \A s \in Requests : Shape(req'[s])
  BY DEF InboxInv, TypeOK, Become
<1>2. RealtimeInv'  BY RealtimeSame DEF InboxInv
<1> QED  BY <1>1, <1>2 DEF InboxInv, TypeOK, Tables, RealtimeInv

\* A handler that writes its own request only.
LEMMA LooksKeeps ==
  ASSUME InboxInv, NEW r \in Requests, NEW x \in RequestState, Shape(x), Become(r, x),
         UNCHANGED item, Quiet, UNCHANGED realtimeVars
  PROVE  InboxInv'
<1>1. Tables'  BY DEF InboxInv, TypeOK, Tables, Quiet
<1> QED  BY <1>1, BecomeKeeps

LEMMA AnswerKeeps ==
  ASSUME InboxInv, NEW r \in Requests, NEW result \in Results, Answer(r, result),
         Tables', UNCHANGED realtimeVars
  PROVE  InboxInv'
<1> DEFINE x == [req[r] EXCEPT !.pc = "done", !.result = result]
<1>1. req[r] \in RequestState /\ Shape(req[r])  BY DEF InboxInv, TypeOK
<1>2. x \in RequestState  BY <1>1 DEF RequestState, Results
<1>3. Shape(x)  BY <1>1 DEF Shape, RequestState
<1>4. Become(r, x)  BY DEF Answer
<1> HIDE DEF x
<1> QED  BY <1>2, <1>3, <1>4, BecomeKeeps

LEMMA RefusalKeeps ==
  ASSUME InboxInv, NEW r \in Requests, NEW result \in Results, Answer(r, result),
         UNCHANGED item, Quiet, UNCHANGED realtimeVars
  PROVE  InboxInv'
<1>1. Tables'  BY DEF InboxInv, TypeOK, Tables, Quiet
<1> QED  BY <1>1, AnswerKeeps

LEMMA CreateKeeps ==
  ASSUME InboxInv, NEW r \in Requests, NEW u \in Users, NEW kind \in {"note", "task"},
         NEW to \in Users \cup {ALL}, Create(r, u, kind, to), UNCHANGED realtimeVars
  PROVE  InboxInv'
<1> DEFINE x == [req[r] EXCEPT !.pc = "insert", !.op = "create", !.by = u,
                   !.kind = kind, !.to = to]
<1>1. req[r] \in RequestState /\ Shape(req[r]) /\ At(r, "new")
  BY DEF InboxInv, TypeOK, Create
<1>2. x \in RequestState  BY <1>1 DEF RequestState
<1>3. Shape(x)  BY <1>1 DEF Shape, RequestState, At
<1>4. Become(r, x) \/ Answer(r, "notFound")  BY DEF Create
<1>5. UNCHANGED item /\ Quiet  BY DEF Create
<1> HIDE DEF x
<1> QED  BY <1>2, <1>3, <1>4, <1>5, LooksKeeps, RefusalKeeps DEF Results

LEMMA InsertKeeps ==
  ASSUME InboxInv, NEW r \in Requests, Insert(r), UNCHANGED realtimeVars
  PROVE  InboxInv'
<1> DEFINE x == [req[r] EXCEPT !.with = Sweeping(req[r].to),
             !.pc = IF req[r].kind = "note" /\ req[r].to # ALL THEN "names" ELSE "tell"]
           i == [ state |-> "present", kind |-> req[r].kind, from |-> req[r].by,
                  to |-> req[r].to, read |-> FALSE, status |-> NULL ]
<1>1. /\ req[r] \in RequestState /\ Shape(req[r]) /\ req[r].pc = "insert"
      /\ req[r].op = "create" /\ req[r].by \in Users /\ req[r].to \in Users \cup {ALL}
  BY DEF InboxInv, TypeOK, Insert, At, Shape
<1>2. Sweeping(req[r].to) \in SUBSET Requests  BY DEF Sweeping
<1>3. x \in RequestState  BY <1>1, <1>2 DEF RequestState
<1>4. Shape(x)  BY <1>1 DEF Shape, RequestState
<1>5. Become(r, x) /\ item' = [item EXCEPT ![r] = i] /\ Quiet  BY DEF Insert
<1>6. i \in Item  BY <1>1 DEF Item, RequestState
<1> HIDE DEF x, i
<1>7. Tables'  BY <1>5, <1>6 DEF InboxInv, TypeOK, Tables, Quiet
<1> QED  BY <1>3, <1>4, <1>5, <1>7, BecomeKeeps

LEMMA NamesKeeps ==
  ASSUME InboxInv, NEW r \in Requests, Names(r), UNCHANGED realtimeVars
  PROVE  InboxInv'
<1> DEFINE x == [req[r] EXCEPT !.pc = "tell"]
<1>1. /\ req[r] \in RequestState /\ Shape(req[r]) /\ req[r].pc = "names"
      /\ Become(r, x) /\ UNCHANGED item /\ Quiet
  BY DEF InboxInv, TypeOK, Names, At, Go
<1>2. x \in RequestState  BY <1>1 DEF RequestState
<1>3. Shape(x)  BY <1>1 DEF Shape, RequestState
<1> HIDE DEF x
<1> QED  BY <1>1, <1>2, <1>3, LooksKeeps

LEMMA ReadKeeps ==
  ASSUME InboxInv, NEW r \in Requests, NEW u \in Users, NEW i \in Items, Read(r, u, i),
         UNCHANGED realtimeVars
  PROVE  InboxInv'
<1> DEFINE x == [req[r] EXCEPT !.pc = "write", !.op = "read", !.by = u, !.id = i,
                   !.list = IF item[i].read THEN {} ELSE {i}]
<1>1. req[r] \in RequestState /\ Shape(req[r]) /\ At(r, "new")
  BY DEF InboxInv, TypeOK, Read
<1>2. x \in RequestState  BY <1>1 DEF RequestState
<1>3. Shape(x)  BY <1>1 DEF Shape, RequestState, At
<1>4. Become(r, x) \/ Answer(r, "notFound") \/ Answer(r, "forbidden")  BY DEF Read
<1>5. UNCHANGED item /\ Quiet  BY DEF Read
<1> HIDE DEF x
<1> QED  BY <1>2, <1>3, <1>4, <1>5, LooksKeeps, RefusalKeeps DEF Results

LEMMA ReadAllKeeps ==
  ASSUME InboxInv, NEW r \in Requests, NEW u \in Users, ReadAll(r, u), UNCHANGED realtimeVars
  PROVE  InboxInv'
<1> DEFINE x == [req[r] EXCEPT !.pc = "write", !.op = "readAll", !.by = u, !.list = Unread(u)]
<1>1. req[r] \in RequestState /\ Shape(req[r]) /\ At(r, "new")
  BY DEF InboxInv, TypeOK, ReadAll
<1>2. Unread(u) \in SUBSET Items  BY DEF Unread
<1>3. x \in RequestState  BY <1>1, <1>2 DEF RequestState
<1>4. Shape(x)  BY <1>1 DEF Shape, RequestState, At
<1>5. Become(r, x) /\ UNCHANGED item /\ Quiet  BY DEF ReadAll
<1> HIDE DEF x
<1> QED  BY <1>3, <1>4, <1>5, LooksKeeps

LEMMA StatusKeeps ==
  ASSUME InboxInv, NEW r \in Requests, NEW u \in Users, NEW i \in Items, Status(r, u, i),
         UNCHANGED realtimeVars
  PROVE  InboxInv'
<1> DEFINE x == [req[r] EXCEPT !.pc = "write", !.op = "status", !.by = u, !.id = i]
<1>1. req[r] \in RequestState /\ Shape(req[r]) /\ At(r, "new")
  BY DEF InboxInv, TypeOK, Status
<1>2. x \in RequestState  BY <1>1 DEF RequestState
<1>3. Shape(x)  BY <1>1 DEF Shape, RequestState, At
<1>4. Become(r, x) \/ Answer(r, "notFound") \/ Answer(r, "forbidden")  BY DEF Status
<1>5. UNCHANGED item /\ Quiet  BY DEF Status
<1> HIDE DEF x
<1> QED  BY <1>2, <1>3, <1>4, <1>5, LooksKeeps, RefusalKeeps DEF Results

LEMMA RemoveKeeps ==
  ASSUME InboxInv, NEW r \in Requests, NEW u \in Users, NEW i \in Items, Remove(r, u, i),
         UNCHANGED realtimeVars
  PROVE  InboxInv'
<1> DEFINE x == [req[r] EXCEPT !.pc = "delete", !.op = "remove", !.by = u, !.id = i]
<1>1. req[r] \in RequestState /\ Shape(req[r]) /\ At(r, "new")
  BY DEF InboxInv, TypeOK, Remove
<1>2. x \in RequestState  BY <1>1 DEF RequestState
<1>3. Shape(x)  BY <1>1 DEF Shape, RequestState, At
<1>4. Become(r, x) \/ Answer(r, "notFound") \/ Answer(r, "forbidden")  BY DEF Remove
<1>5. UNCHANGED item /\ Quiet  BY DEF Remove
<1> HIDE DEF x
<1> QED  BY <1>2, <1>3, <1>4, <1>5, LooksKeeps, RefusalKeeps DEF Results

LEMMA WriteKeeps ==
  ASSUME InboxInv, NEW r \in Requests, Write(r), UNCHANGED realtimeVars
  PROVE  InboxInv'
<1> DEFINE x == [req[r] EXCEPT !.pc = "tell", !.with = Overlapping(r)]
<1>1. req[r] \in RequestState /\ Shape(req[r]) /\ req[r].pc = "write" /\ Quiet
  BY DEF InboxInv, TypeOK, Write, At
<1>2. CASE req[r].op = "readAll" \/ Present(req[r].id)
  <2>1. Overlapping(r) \in SUBSET Requests  BY DEF Overlapping
  <2>2. x \in RequestState  BY <1>1, <2>1 DEF RequestState
  <2>3. Shape(x)  BY <1>1 DEF Shape, RequestState
  <2>4. Become(r, x)  BY <1>2 DEF Write
  <2>5. item' = [i \in Items |->
               IF i \notin Marked(r) THEN item[i]
               ELSE IF req[r].op = "status" THEN [item[i] EXCEPT !.status = r]
                                            ELSE [item[i] EXCEPT !.read = TRUE]]
    BY <1>2 DEF Write
  <2>6. ASSUME NEW i \in Items
        PROVE  /\ item[i] \in Item
               /\ [item[i] EXCEPT !.status = r] \in Item
               /\ [item[i] EXCEPT !.read = TRUE] \in Item
    BY DEF InboxInv, TypeOK, Item
  <2>7. item' \in [Items -> Item]  BY <2>5, <2>6
  <2>8. Tables'  BY <1>1, <2>7 DEF InboxInv, TypeOK, Tables, Quiet
  <2> HIDE DEF x
  <2> QED  BY <2>2, <2>3, <2>4, <2>8, BecomeKeeps
<1>3. CASE ~(req[r].op = "readAll" \/ Present(req[r].id))
  <2>1. Answer(r, "notFound") /\ UNCHANGED item  BY <1>3 DEF Write
  <2> QED  BY <1>1, <2>1, RefusalKeeps DEF Results
<1> QED  BY <1>2, <1>3

LEMMA DeleteKeeps ==
  ASSUME InboxInv, NEW r \in Requests, Delete(r), UNCHANGED realtimeVars
  PROVE  InboxInv'
<1>1. Shape(req[r]) /\ req[r].pc = "delete" /\ Quiet  BY DEF InboxInv, Delete, At
<1>2. req[r].id \in Items  BY <1>1 DEF Shape
<1> DEFINE i == [item[req[r].id] EXCEPT !.state = "deleted"]
<1>3. i \in Item  BY <1>2 DEF InboxInv, TypeOK, Item
<1>4. UNCHANGED item \/ item' = [item EXCEPT ![req[r].id] = i]  BY DEF Delete
<1> HIDE DEF i
<1>5. item' \in [Items -> Item]  BY <1>2, <1>3, <1>4 DEF InboxInv, TypeOK
<1>6. Tables'  BY <1>1, <1>5 DEF InboxInv, TypeOK, Tables, Quiet
<1>7. Answer(r, "ok") \/ Answer(r, "notFound")  BY DEF Delete
<1> QED  BY <1>6, <1>7, AnswerKeeps DEF Results

\* Whom an announcement is for and whom it reaches.
LEMMA AudienceOfTell ==
  ASSUME InboxInv, NEW r \in Requests, At(r, "tell")
  PROVE  LET rooms == UNION {Room(u) : u \in Addressees(r)}
         IN  /\ rooms \subseteq Audience(r)
             /\ Audience(r) \subseteq rooms \cup IF req[r].to = ALL
                                                THEN {c \in Sockets : Is(c, "verifying")}
                                                ELSE {}
             /\ Audience(r) \subseteq Sockets
<1>1. ASSUME NEW u \in Users PROVE Reached(u) = Room(u)
  BY DEF Reached, InboxInv, RealtimeInv, RegisterOfRoom
<1>2. Everybody = (UNION {Room(u) : u \in Users}) \cup {c \in Sockets : Is(c, "verifying")}
  BY DEF Everybody, Room, InboxInv, RealtimeInv, Owned, Is
<1>3. Shape(req[r]) /\ req[r].pc = "tell" /\ req[r] \in RequestState
  BY DEF InboxInv, TypeOK, At
<1>4. /\ req[r].op \in {"create", "read", "readAll", "status"}
      /\ req[r].op = "create" => req[r].to \in Users \cup {ALL}
      /\ req[r].op = "status" => req[r].id \in Items
      /\ req[r].list \subseteq Items
  BY <1>3 DEF Shape, RequestState
<1>5. ASSUME NEW i \in Items PROVE item[i].from \in Users
  BY DEF InboxInv, TypeOK, Item
<1>6. ASSUME NEW u \in Users PROVE Room(u) \subseteq Sockets  BY DEF Room
<1>7. CASE req[r].op = "create" /\ req[r].to = ALL
  <2>1. Audience(r) = Everybody /\ Addressees(r) = Users
    BY <1>7 DEF Audience, Addressees
  <2> QED  BY <1>2, <1>6, <1>7, <2>1
<1>8. CASE req[r].op = "create" /\ req[r].to # ALL
  <2>1. Audience(r) = Reached(req[r].to) /\ Addressees(r) = {req[r].to}
    BY <1>8 DEF Audience, Addressees
  <2> QED  BY <1>1, <1>4, <1>6, <1>8, <2>1
<1>9. CASE req[r].op = "status"
  <2>1. Audience(r) = Reached(item[req[r].id].from)
    BY <1>9 DEF Audience
  <2>2. Addressees(r) = {item[req[r].id].from}
    BY <1>9 DEF Addressees
  <2> QED  BY <1>1, <1>4, <1>5, <1>6, <1>9, <2>1, <2>2
<1>10. CASE req[r].op \in {"read", "readAll"}
  <2>1. Audience(r) = UNION {Reached(item[i].from) : i \in req[r].list}
    BY <1>10 DEF Audience
  <2>2. Addressees(r) = {item[i].from : i \in req[r].list}
    BY <1>10 DEF Addressees
  <2>3. \A i \in req[r].list :
          /\ item[i].from \in Users
          /\ Reached(item[i].from) = Room(item[i].from)
          /\ Room(item[i].from) \subseteq Sockets
    BY <1>1, <1>4, <1>5, <1>6
  <2> QED  BY <2>1, <2>2, <2>3
<1> QED  BY <1>4, <1>7, <1>8, <1>9, <1>10

LEMMA TellKeeps ==
  ASSUME InboxInv, NEW r \in Requests, Tell(r), UNCHANGED realtimeVars
  PROVE  InboxInv'
<1>1. /\ Shape(req[r]) /\ req[r].pc = "tell" /\ Answer(r, "ok")
      /\ UNCHANGED <<item, faults>>
  BY DEF InboxInv, Tell, At
<1>2. Audience(r) \subseteq Sockets  BY <1>1, AudienceOfTell DEF At
<1>3. got' \in [Requests -> SUBSET Sockets]  BY <1>2 DEF Tell, InboxInv, TypeOK
<1>4. told' \in [Items -> SUBSET Requests]  BY DEF Tell, InboxInv, TypeOK
<1>5. lastTold' \in [Items -> Requests \cup {NULL}]
  BY DEF Tell, InboxInv, TypeOK
<1>6. Tables'  BY <1>1, <1>3, <1>4, <1>5 DEF InboxInv, TypeOK, Tables
<1> QED  BY <1>1, <1>6, AnswerKeeps DEF Results

LEMMA FailKeeps ==
  ASSUME InboxInv, NEW r \in Requests, Fail(r), UNCHANGED realtimeVars
  PROVE  InboxInv'
<1>1. Tables'  BY FaultBound DEF Fail, Fault, InboxInv, TypeOK, Tables
<1> QED  BY <1>1, AnswerKeeps DEF Fail, Results

LEMMA DieKeeps ==
  ASSUME InboxInv, Die
  PROVE  InboxInv'
<1>1. RealtimeInv'  BY RestartKeeps DEF Die, InboxInv
<1>2. Tables'
  <2>1. UNCHANGED <<item, told, lastTold, got>> /\ faults' = faults + 1  BY DEF Die, Fault
  <2> QED  BY <2>1 DEF InboxInv, TypeOK, Tables
<1>3. ASSUME NEW r \in Requests
      PROVE  req'[r] \in RequestState /\ Shape(req'[r])
  <2>1. req[r] \in RequestState /\ Shape(req[r])  BY DEF InboxInv, TypeOK
  <2>2. CASE InFlight(r)
    <3>1. req'[r] = [req[r] EXCEPT !.pc = "done", !.result = "failed"]
      BY <2>2 DEF Die
    <3> QED  BY <2>1, <3>1 DEF RequestState, Shape
  <2>3. CASE ~InFlight(r)
    <3>1. req'[r] = req[r]  BY <2>3 DEF Die
    <3> QED  BY <2>1, <3>1
  <2> QED  BY <2>2, <2>3
<1>4. req' \in [Requests -> RequestState]
  <2>1. \E f : req' = [r \in Requests |-> f[r]]
    <3> DEFINE f == [r \in Requests |->
          IF InFlight(r) THEN [req[r] EXCEPT !.pc = "done", !.result = "failed"] ELSE req[r]]
    <3>1. req' = f  BY DEF Die
    <3>2. f = [r \in Requests |-> f[r]]  OBVIOUS
    <3> HIDE DEF f
    <3> QED  BY <3>1, <3>2
  <2> QED  BY <1>3, <2>1
<1> QED  BY <1>1, <1>2, <1>3, <1>4 DEF InboxInv, TypeOK, Tables, RealtimeInv

LEMMA InboxSame ==
  ASSUME InboxInv, UNCHANGED vars
  PROVE  InboxInv'
<1>1. RealtimeInv'  BY RealtimeSame DEF InboxInv, vars
<1>2. UNCHANGED <<item, req, told, lastTold, got, faults>>  BY DEF vars, inboxVars
<1> QED  BY <1>1, <1>2 DEF InboxInv, TypeOK, RealtimeInv

LEMMA HandleKeeps ==
  ASSUME InboxInv, NEW r \in Requests, Handle(r), UNCHANGED realtimeVars
  PROVE  InboxInv'
<1>1. ASSUME NEW u \in Users, NEW kind \in {"note", "task"}, NEW to \in Users \cup {ALL},
             Create(r, u, kind, to)
      PROVE  InboxInv'
  BY <1>1, CreateKeeps
<1>2. ASSUME NEW u \in Users, NEW i \in Items, Read(r, u, i) \/ Status(r, u, i) \/ Remove(r, u, i)
      PROVE  InboxInv'
  BY <1>2, ReadKeeps, StatusKeeps, RemoveKeeps
<1>3. ASSUME NEW u \in Users, ReadAll(r, u) PROVE InboxInv'  BY <1>3, ReadAllKeeps
<1>4. ASSUME Insert(r) \/ Names(r) \/ Write(r) \/ Delete(r) \/ Tell(r) \/ Fail(r)
      PROVE  InboxInv'
  BY <1>4, InsertKeeps, NamesKeeps, WriteKeeps, DeleteKeeps, TellKeeps, FailKeeps
<1> QED  BY <1>1, <1>2, <1>3, <1>4 DEF Handle

----------------------------------------------------------------------------
LEMMA InitInv == Init => InboxInv
<1> SUFFICES ASSUME Init PROVE InboxInv  OBVIOUS
<1>1. RealtimeInv
  BY DEF Init, RealtimeInit, RealtimeInv, RealtimeTypeOK, SocketState, Owned,
         RegisterOfRoom, Room, Is
<1>2. item \in [Items -> Item]
  <2>1. PICK from \in Senders, to \in Users \cup {ALL}, kind \in {"note", "task"} :
          item = [i \in Items |->
                    IF i \in Seeds
                    THEN [NoItem(from) EXCEPT !.state = "present", !.kind = kind, !.to = to]
                    ELSE NoItem(from)]
    BY DEF Init
  <2>2. from \in Users  BY SendersAreUsers
  <2>3. NoItem(from) \in Item  BY <2>2 DEF NoItem, Item
  <2>4. [NoItem(from) EXCEPT !.state = "present", !.kind = kind, !.to = to] \in Item
    BY <2>3 DEF Item
  <2> QED  BY <2>1, <2>3, <2>4
<1>3. NewRequest \in RequestState /\ Shape(NewRequest)
  BY DEF NewRequest, RequestState, Shape
<1>4. req \in [Requests -> RequestState] /\ \A r \in Requests : Shape(req[r])
  BY <1>3 DEF Init
<1>5. /\ told \in [Items -> SUBSET Requests]
      /\ lastTold \in [Items -> Requests \cup {NULL}]
      /\ got \in [Requests -> SUBSET Sockets]
      /\ faults \in Nat
  BY DEF Init
<1> QED  BY <1>1, <1>2, <1>4, <1>5 DEF InboxInv, TypeOK, RealtimeInv

LEMMA NextInv == InboxInv /\ [Next]_vars => InboxInv'
<1>1. ASSUME InboxInv, Realtime, UNCHANGED inboxVars PROVE InboxInv'
  <2>1. RealtimeInv'  BY <1>1, RealtimeKeeps DEF InboxInv
  <2> QED  BY <1>1, <2>1 DEF InboxInv, TypeOK, RealtimeInv, inboxVars
<1>2. ASSUME InboxInv, NEW r \in Requests, Handle(r), UNCHANGED realtimeVars PROVE InboxInv'
  BY <1>2, HandleKeeps
<1>3. ASSUME InboxInv, Terminated PROVE InboxInv'  BY <1>3, InboxSame DEF Terminated
<1> QED  BY <1>1, <1>2, <1>3, DieKeeps, InboxSame DEF Next

LEMMA InboxAlways == Spec => []InboxInv  BY InitInv, NextInv, PTL DEF Spec

(***************************************************************************)
(* Every variable keeps its type.                                          *)
(***************************************************************************)
THEOREM InboxTypeCorrect == Spec => []TypeOK
<1>1. InboxInv => TypeOK  BY DEF InboxInv
<1> QED  BY <1>1, InboxAlways, PTL

(***************************************************************************)
(* The register never misses a socket of a room, and lists beyond them     *)
(* only sockets left during the verification (realtime.gateway.ts:62-97).  *)
(***************************************************************************)
THEOREM RegisterCorrect == Spec => []RegisterOfRoom
<1>1. InboxInv => RegisterOfRoom  BY DEF InboxInv, RealtimeInv
<1> QED  BY <1>1, InboxAlways, PTL

(***************************************************************************)
(* An announcement reaches exactly the sockets it is for                   *)
(* (realtime.gateway.ts:96-113).                                           *)
(***************************************************************************)
THEOREM HeardCorrect == Spec => HeardByAll
<1> DEFINE Heard ==
      \A r \in Requests : At(r, "tell") /\ req'[r].result = "ok" =>
        LET rooms == UNION {Room(u) : u \in Addressees(r)}
        IN  /\ rooms \subseteq got'[r]
            /\ got'[r] \subseteq rooms \cup IF req[r].to = ALL
                                           THEN {c \in Sockets : Is(c, "verifying")} ELSE {}
<1>1. ASSUME InboxInv, Next, NEW r \in Requests, At(r, "tell"), req'[r].result = "ok"
      PROVE  Tell(r)
  <2>1. req[r].result = "none" /\ req[r] \in RequestState
    BY <1>1 DEF InboxInv, TypeOK, Shape, At
  <2>2. req'[r] # req[r]  BY <1>1, <2>1
  <2>3. ~Terminated /\ ~UNCHANGED inboxVars
    BY <2>2 DEF Terminated, vars, inboxVars
  <2>4. ~Die
    <3>1. SUFFICES ASSUME Die PROVE FALSE  OBVIOUS
    <3>2. InFlight(r)  BY <1>1 DEF InFlight, At
    <3>3. req'[r] = [req[r] EXCEPT !.pc = "done", !.result = "failed"]
      BY <3>1, <3>2 DEF Die
    <3>4. req'[r].result = "failed"  BY <2>1, <3>3 DEF RequestState
    <3> QED  BY <1>1, <3>4
  <2>5. PICK q \in Requests : Handle(q)  BY <1>1, <2>3, <2>4 DEF Next
  <2>6. \E x : Become(q, x)
    <3>1. ASSUME NEW result, Answer(q, result) PROVE \E x : Become(q, x)
      BY <3>1 DEF Answer
    <3>2. ASSUME NEW u \in Users, NEW kind \in {"note", "task"},
                 NEW to \in Users \cup {ALL}, Create(q, u, kind, to)
          PROVE  \E x : Become(q, x)
      BY <3>1, <3>2 DEF Create
    <3>3. ASSUME NEW u \in Users, NEW i \in Items, Read(q, u, i) PROVE \E x : Become(q, x)
      BY <3>1, <3>3 DEF Read
    <3>4. ASSUME NEW u \in Users, NEW i \in Items, Status(q, u, i) PROVE \E x : Become(q, x)
      BY <3>1, <3>4 DEF Status
    <3>5. ASSUME NEW u \in Users, NEW i \in Items, Remove(q, u, i) PROVE \E x : Become(q, x)
      BY <3>1, <3>5 DEF Remove
    <3>6. ASSUME NEW u \in Users, ReadAll(q, u) PROVE \E x : Become(q, x)
      BY <3>6 DEF ReadAll
    <3>7. ASSUME Insert(q) \/ Names(q) PROVE \E x : Become(q, x)
      BY <3>7 DEF Insert, Names, Go
    <3>8. ASSUME Write(q) \/ Delete(q) PROVE \E x : Become(q, x)
      BY <3>1, <3>8 DEF Write, Delete
    <3>9. ASSUME Tell(q) \/ Fail(q) PROVE \E x : Become(q, x)
      BY <3>1, <3>9 DEF Tell, Fail
    <3> QED  BY <2>5, <3>2, <3>3, <3>4, <3>5, <3>6, <3>7, <3>8, <3>9 DEF Handle
  <2>7. q = r
    <3>1. PICK x : Become(q, x)  BY <2>6
    <3>2. q # r => req'[r] = req[r]  BY <1>1, <3>1 DEF Become, InboxInv, TypeOK
    <3> QED  BY <2>2, <3>2
  <2>8. ~Fail(r)
    <3>1. SUFFICES ASSUME Fail(r) PROVE FALSE  OBVIOUS
    <3>2. req'[r].result = "failed"
      BY <1>1, <2>1, <3>1 DEF Fail, Answer, Become, InboxInv, TypeOK, RequestState
    <3> QED  BY <1>1, <3>2
  <2> QED
    BY <1>1, <2>5, <2>7, <2>8
    DEF Handle, Create, Read, ReadAll, Status, Remove, Insert, Names, Write, Delete, At
<1>2. InboxInv /\ [Next]_vars => [Heard]_vars
  <2>1. ASSUME InboxInv, Next, NEW r \in Requests, At(r, "tell"), req'[r].result = "ok"
        PROVE  got'[r] = Audience(r)
    BY <1>1, <2>1 DEF Tell, InboxInv, TypeOK
  <2>2. ASSUME InboxInv, Next PROVE Heard  BY <2>1, <2>2, AudienceOfTell
  <2> QED  BY <2>2
<1>3. Spec => [][Heard]_vars  BY <1>2, InboxAlways, PTL DEF Spec
<1> QED  BY <1>3 DEF HeardByAll

----------------------------------------------------------------------------
(***************************************************************************)
(* What the senders are told.  with names, at each write, the requests it  *)
(* overlapped; whatever was told twice, not at all or in the other order   *)
(* has such a name to blame.                                               *)
(***************************************************************************)
\* The item that a request is to create is absent until it does.
Unborn(r) ==
  req[r].pc \in {"new", "insert", "write", "delete"} => item[r].state = "absent"

\* What a request found unread.
Fits(r) ==
  /\ At(r, "new") => req[r].op = "none"
  /\ req[r].op \notin {"read", "readAll"} => req[r].list = {}
  /\ At(r, "write") /\ req[r].op = "read" =>
       \/ req[r].list = {req[r].id}
       \/ /\ req[r].list = {} /\ item[req[r].id].read
          /\ item[req[r].id].state # "absent"
  /\ At(r, "write") /\ req[r].op = "readAll" =>
       \A i \in req[r].list : item[i].kind = "note" /\ Recipient(i, req[r].by)
  /\ At(r, "write") => \A i \in req[r].list : item[i].state # "absent"

\* What markAllRead will mark besides arrived after it had made its list.
Late(r) ==
  At(r, "write") /\ req[r].op = "readAll" =>
    \A i \in Unread(req[r].by) \ req[r].list : i \in Requests /\ req[i].with # {}

\* r has written that i was read, and is about to tell or has told.
Past(r, i) == i \in req[r].list /\ (At(r, "tell") \/ r \in told[i])

PastRead(r, i) ==
  /\ r \in told[i] => At(r, "done") /\ i \in req[r].list
  /\ Past(r, i) =>
       item[i].state = "deleted" \/ (item[i].state = "present" /\ item[i].read)

\* A request that found i unread and has not written when s does is in with.
Overtaken(r, s, i) ==
  At(r, "write") /\ i \in req[r].list /\ Past(s, i) => r \in req[s].with

BothTell(r, s, i) ==
  r # s /\ Past(r, i) /\ Past(s, i) => r \in req[s].with \/ s \in req[r].with

\* If i was marked as read, somebody tells it or has an excuse.
Announced(i) ==
  Present(i) /\ item[i].read /\ told[i] = {} =>
    \/ i \in Requests /\ req[i].with # {}
    \/ \E r \in Requests : i \in req[r].list /\ (At(r, "tell") \/ req[r].result = "failed")

ToldInv ==
  /\ \A r \in Requests : Unborn(r) /\ Fits(r) /\ Late(r)
  /\ \A i \in Items :
       /\ Announced(i)
       /\ \A r \in Requests : PastRead(r, i)
       /\ \A r, s \in Requests : Overtaken(r, s, i) /\ BothTell(r, s, i)

(***************************************************************************)
(* The statuses of tasks: whoever set one and has not told it yet was      *)
(* followed by those only whose write saw it waiting.                      *)
(***************************************************************************)
StatusSet(i, s) ==
  item[i].status = s =>
    /\ req[s].op = "status" /\ req[s].id = i /\ req[s].pc \in {"tell", "done"}
    /\ item[i].state # "absent"

StatusWaits(r, i) ==
  req[r].op = "status" /\ req[r].id = i =>
    /\ req[r].pc \in {"write", "tell"} => item[i].state # "absent"
    /\ At(r, "tell") =>
         item[i].status # NULL /\ (item[i].status = r \/ r \in req[item[i].status].with)

ShownSet(i) ==
  lastTold[i] # NULL => item[i].state # "absent" /\ item[i].status # NULL

Shown(i, s) ==
  item[i].status = s /\ Present(i) /\ lastTold[i] # s =>
    At(s, "tell") \/ req[s].result = "failed" \/ lastTold[i] \in req[s].with

StatusInv ==
  \A i \in Items :
    /\ ShownSet(i)
    /\ \A r \in Requests : StatusSet(i, r) /\ StatusWaits(r, i) /\ Shown(i, r)

----------------------------------------------------------------------------
(***************************************************************************)
(* Steps that end requests without telling: refusals, failures, deletes.   *)
(***************************************************************************)
Kept(q) ==
  /\ req'[q].op = req[q].op /\ req'[q].id = req[q].id /\ req'[q].by = req[q].by
  /\ req'[q].list = req[q].list /\ req'[q].with = req[q].with

Ended(q) ==
  /\ ~At(q, "done") /\ At(q, "done")' /\ Kept(q)
  /\ At(q, "tell") => req'[q].result = "failed"

Gone(i) ==
  /\ Present(i) /\ item'[i].state = "deleted"
  /\ item'[i].kind = item[i].kind /\ item'[i].to = item[i].to
  /\ item'[i].read = item[i].read /\ item'[i].status = item[i].status

Ending ==
  /\ \A q \in Requests : req'[q] = req[q] \/ Ended(q)
  /\ \A i \in Items : item'[i] = item[i] \/ Gone(i)
  /\ UNCHANGED <<told, lastTold>>

\* The domains of what the invariants speak of.
LEMMA Domains ==
  ASSUME InboxInv
  PROVE  /\ Requests \subseteq Items /\ NULL \notin Requests
         /\ \A i \in Items : /\ item[i].state \in {"absent", "present", "deleted"}
                             /\ item[i].status \in Requests \cup {NULL}
                             /\ lastTold[i] \in Requests \cup {NULL}
                             /\ told[i] \subseteq Requests
         /\ \A r \in Requests : req[r].list \subseteq Items
  BY SeedsAreNoRequests DEF Items, InboxInv, TypeOK, Item, RequestState

LEMMA EndingTold ==
  ASSUME InboxInv, ToldInv, Ending
  PROVE  ToldInv'
<1>1. \A q \in Requests : Kept(q) /\ (At(q, "done")' \/ req'[q] = req[q])
  BY DEF Ending, Ended, Kept
<1>2. \A i \in Items :
        /\ item[i].state \in {"absent", "present", "deleted"}
        /\ item'[i].state = "absent" <=> item[i].state = "absent"
        /\ item[i].state = "deleted" => item'[i].state = "deleted"
        /\ item'[i].state # item[i].state => item'[i].state = "deleted"
        /\ item'[i].kind = item[i].kind /\ item'[i].to = item[i].to
        /\ item'[i].read = item[i].read /\ told'[i] = told[i]
  BY Domains DEF Ending, Gone, Present
<1>3. ASSUME NEW r \in Requests PROVE Unborn(r)'
  BY <1>1, <1>2, <1>3, Domains DEF ToldInv, Unborn, At
<1>4. ASSUME NEW r \in Requests PROVE Fits(r)'
  <2>1. Fits(r) /\ req[r].list \subseteq Items  BY Domains DEF ToldInv
  <2>2. CASE req'[r] = req[r]
    <3>1. req[r].op = "read" /\ At(r, "write") => req[r].id \in Items
      BY DEF InboxInv, Shape, At
    <3> QED  BY <1>2, <2>1, <2>2, <3>1 DEF Fits, At, Recipient
  <2>3. CASE At(r, "done")' /\ Kept(r)  BY <2>1, <2>3 DEF Fits, At, Kept
  <2> QED  BY <1>1, <2>2, <2>3
<1>5. ASSUME NEW r \in Requests PROVE Late(r)'
  <2> SUFFICES ASSUME At(r, "write")', req'[r].op = "readAll",
                      NEW i \in Unread(req[r].by)' \ req'[r].list
               PROVE  i \in Requests /\ req'[i].with # {}
    <3>1. req'[r].by = req[r].by  BY <1>1 DEF Kept
    <3> QED  BY <3>1 DEF Late, Unread, Recipient, Present
  <2>1. req'[r] = req[r]  BY <1>1 DEF At
  <2>2. i \in Unread(req[r].by) \ req[r].list
    BY <1>2, <2>1 DEF Unread, Recipient, Present
  <2>3. i \in Requests /\ req[i].with # {}  BY <2>1, <2>2 DEF ToldInv, Late, At
  <2> QED  BY <1>1, <2>3 DEF Kept
<1>6. ASSUME NEW i \in Items, NEW r \in Requests
      PROVE  (Past(r, i)' => Past(r, i)) /\ PastRead(r, i)'
  <2>1. Past(r, i)' => Past(r, i)  BY <1>1, <1>2 DEF Past, At, Kept
  <2>2. PastRead(r, i)  BY DEF ToldInv
  <2>3. r \in told[i] => req'[r] = req[r]  BY <2>2 DEF PastRead, Ending, Ended
  <2> QED  BY <1>2, <2>1, <2>2, <2>3 DEF PastRead, At
<1>7. ASSUME NEW i \in Items, NEW r \in Requests, NEW s \in Requests
      PROVE  Overtaken(r, s, i)' /\ BothTell(r, s, i)'
  <2>1. Overtaken(r, s, i) /\ BothTell(r, s, i)  BY DEF ToldInv
  <2> QED  BY <1>1, <1>6, <2>1 DEF Overtaken, BothTell, Kept, At
<1>8. ASSUME NEW i \in Items PROVE Announced(i)'
  <2> SUFFICES ASSUME Present(i)', item'[i].read, told'[i] = {}
               PROVE  \/ i \in Requests /\ req'[i].with # {}
                      \/ \E r \in Requests :
                           i \in req'[r].list /\ (At(r, "tell")' \/ req'[r].result = "failed")
    BY DEF Announced
  <2>1. Present(i) /\ item[i].read /\ told[i] = {}  BY <1>2 DEF Present
  <2>2. CASE i \in Requests /\ req[i].with # {}  BY <1>1, <2>2 DEF Kept
  <2>3. ASSUME NEW r \in Requests, i \in req[r].list,
               At(r, "tell") \/ req[r].result = "failed"
        PROVE  i \in req'[r].list /\ (At(r, "tell")' \/ req'[r].result = "failed")
    <3>1. req[r].result = "failed" => At(r, "done")  BY DEF InboxInv, Shape, At
    <3> QED  BY <1>1, <2>3, <3>1 DEF Ending, Ended, Kept, At
  <2>4. Announced(i)  BY DEF ToldInv
  <2> QED  BY <2>1, <2>2, <2>3, <2>4 DEF Announced
<1> QED  BY <1>3, <1>4, <1>5, <1>6, <1>7, <1>8 DEF ToldInv

LEMMA EndingStatus ==
  ASSUME InboxInv, StatusInv, Ending
  PROVE  StatusInv'
<1>1. \A q \in Requests : Kept(q) /\ (At(q, "done")' \/ req'[q] = req[q])
  BY DEF Ending, Ended, Kept
<1>2. \A i \in Items :
        /\ item'[i].state = "absent" <=> item[i].state = "absent"
        /\ Present(i)' => Present(i)
        /\ item'[i].status = item[i].status /\ lastTold'[i] = lastTold[i]
        /\ item[i].status \in Requests \cup {NULL}
  BY Domains DEF Ending, Gone, Present
<1>3. ASSUME NEW i \in Items PROVE ShownSet(i)'
  BY <1>2 DEF StatusInv, ShownSet
<1>4. ASSUME NEW i \in Items, NEW r \in Requests
      PROVE  StatusSet(i, r)' /\ StatusWaits(r, i)' /\ Shown(i, r)'
  <2>1. StatusSet(i, r) /\ StatusWaits(r, i) /\ Shown(i, r)  BY DEF StatusInv
  <2>2. StatusSet(i, r)'  BY <1>1, <1>2, <2>1 DEF StatusSet, Kept, At
  <2>3. StatusWaits(r, i)'  BY <1>1, <1>2, <2>1 DEF StatusWaits, Kept, At
  <2>4. Shown(i, r)'
    <3>1. req[r].result = "failed" => At(r, "done")  BY DEF InboxInv, Shape, At
    <3> QED  BY <1>1, <1>2, <2>1, <3>1 DEF Shown, Ending, Ended, Kept, At
  <2> QED  BY <2>2, <2>3, <2>4
<1> QED  BY <1>3, <1>4 DEF StatusInv

----------------------------------------------------------------------------
(***************************************************************************)
(* Steps with which a request begins its work, on items that are there.    *)
(***************************************************************************)
Beside(r) == \A q \in Requests \ {r} : req'[q] = req[q]

Beginning(r) ==
  /\ Beside(r) /\ req'[r].with = req[r].with
  /\ \/ At(r, "new") /\ req'[r].pc \in {"insert", "write", "delete"}
     \/ At(r, "names") /\ At(r, "tell")' /\ Kept(r)
  /\ UNCHANGED <<item, told, lastTold>>
  /\ Fits(r)'
  /\ \A i \in req'[r].list : Present(i) /\ ~item[i].read
  /\ At(r, "write")' /\ req'[r].op = "readAll" => Unread(req'[r].by) \subseteq req'[r].list
  /\ At(r, "write")' /\ req'[r].op = "status" =>
       req'[r].id \in Items /\ item[req'[r].id].state # "absent"

LEMMA BeginningTold ==
  ASSUME InboxInv, ToldInv, NEW r \in Requests, Beginning(r)
  PROVE  ToldInv'
<1>1. /\ item' = item /\ told' = told /\ req'[r].with = req[r].with
      /\ req[r].pc \in {"new", "names"}
      /\ \A q \in Requests \ {r} : req'[q] = req[q]
  BY DEF Beginning, Beside, At
<1>2. req[r].list = {} /\ (At(r, "tell")' => req'[r].list = {})
  <2>1. Fits(r) /\ Shape(req[r])  BY DEF ToldInv, InboxInv
  <2>2. req[r].list = {}  BY <1>1, <2>1 DEF Fits, Shape, At
  <2> QED  BY <2>2 DEF Beginning, Kept, At
<1>3. \A i \in Items : r \notin told[i]  BY <1>2 DEF ToldInv, PastRead
<1>4. ASSUME NEW q \in Requests PROVE Unborn(q)'
  <2>1. Unborn(q)  BY DEF ToldInv
  <2>2. CASE q = r  BY <1>1, <2>1, <2>2 DEF Unborn, Beginning, At
  <2>3. CASE q # r  BY <1>1, <2>1, <2>3 DEF Unborn
  <2> QED  BY <2>2, <2>3
<1>5. ASSUME NEW q \in Requests PROVE Fits(q)'
  <2>1. CASE q = r  BY <2>1 DEF Beginning
  <2>2. CASE q # r
    <3>1. Fits(q) /\ req'[q] = req[q]  BY <1>1, <2>2 DEF ToldInv
    <3> QED  BY <1>1, <3>1 DEF Fits, At, Recipient
  <2> QED  BY <2>1, <2>2
<1>7. ASSUME NEW q \in Requests PROVE Late(q)'
  <2> SUFFICES ASSUME At(q, "write")', req'[q].op = "readAll", NEW i \in Items,
                      i \notin req'[q].list, Present(i)', item'[i].kind = "note",
                      item'[i].to \in {req'[q].by, ALL}, ~item'[i].read
               PROVE  i \in Requests /\ req'[i].with # {}
    BY DEF Late, Unread, Recipient
  <2>1. i \in Unread(req'[q].by)  BY <1>1 DEF Unread, Recipient, Present
  <2>2. q # r  BY <2>1 DEF Beginning
  <2>3. req'[q] = req[q] /\ Late(q)  BY <1>1, <2>2 DEF ToldInv
  <2>4. i \in Requests /\ req[i].with # {}  BY <2>1, <2>3 DEF Late, At
  <2> QED  BY <1>1, <2>4
<1>8. ASSUME NEW i \in Items, NEW q \in Requests
      PROVE  /\ Past(q, i)' => q # r /\ Past(q, i)
             /\ PastRead(q, i)'
  <2>1. Past(q, i)' => q # r /\ Past(q, i)
    BY <1>1, <1>2, <1>3 DEF Past, At
  <2>2. PastRead(q, i)  BY DEF ToldInv
  <2> QED  BY <1>1, <1>3, <2>1, <2>2 DEF PastRead, At
<1>9. ASSUME NEW i \in Items, NEW q \in Requests, NEW s \in Requests
      PROVE  Overtaken(q, s, i)' /\ BothTell(q, s, i)'
  <2>1. Overtaken(q, s, i) /\ BothTell(q, s, i) /\ PastRead(s, i)  BY DEF ToldInv
  <2>2. Past(s, i) => ~(i \in req'[r].list)
    BY <2>1 DEF PastRead, Beginning, Present
  <2>3. Overtaken(q, s, i)'
    <3> SUFFICES ASSUME At(q, "write")', i \in req'[q].list, Past(s, i)'
                 PROVE  q \in req'[s].with
      BY DEF Overtaken
    <3>1. s # r /\ Past(s, i) /\ req'[s] = req[s]  BY <1>1, <1>8
    <3>2. q # r  BY <2>2, <3>1
    <3>3. req'[q] = req[q]  BY <1>1, <3>2
    <3> QED  BY <2>1, <3>1, <3>3 DEF Overtaken, At
  <2>4. BothTell(q, s, i)'
    <3> SUFFICES ASSUME q # s, Past(q, i)', Past(s, i)'
                 PROVE  q \in req'[s].with \/ s \in req'[q].with
      BY DEF BothTell
    <3>1. q # r /\ s # r /\ Past(q, i) /\ Past(s, i)  BY <1>8
    <3> QED  BY <1>1, <2>1, <3>1 DEF BothTell
  <2> QED  BY <2>3, <2>4
<1>10. ASSUME NEW i \in Items PROVE Announced(i)'
  <2> SUFFICES ASSUME Present(i), item[i].read, told[i] = {}
               PROVE  \/ i \in Requests /\ req'[i].with # {}
                      \/ \E q \in Requests :
                           i \in req'[q].list /\ (At(q, "tell")' \/ req'[q].result = "failed")
    BY <1>1 DEF Announced, Present
  <2>1. Announced(i)  BY DEF ToldInv
  <2>2. CASE i \in Requests /\ req[i].with # {}  BY <1>1, <2>2
  <2>3. ASSUME NEW q \in Requests, i \in req[q].list, At(q, "tell") \/ req[q].result = "failed"
        PROVE  i \in req'[q].list /\ (At(q, "tell")' \/ req'[q].result = "failed")
    <3>1. req'[q] = req[q]  BY <1>1, <1>2, <2>3
    <3> QED  BY <2>3, <3>1 DEF At
  <2> QED  BY <2>1, <2>2, <2>3 DEF Announced
<1> QED  BY <1>4, <1>5, <1>7, <1>8, <1>9, <1>10 DEF ToldInv

LEMMA BeginningStatus ==
  ASSUME InboxInv, StatusInv, NEW r \in Requests, Beginning(r)
  PROVE  StatusInv'
<1>1. /\ item' = item /\ lastTold' = lastTold /\ req'[r].with = req[r].with
      /\ req[r].pc \in {"new", "names"} /\ req'[r].pc \in {"insert", "write", "delete", "tell"}
      /\ \A q \in Requests \ {r} : req'[q] = req[q]
  BY DEF Beginning, Beside, At
<1>2. ASSUME NEW i \in Items PROVE ShownSet(i)'
  BY <1>1 DEF StatusInv, ShownSet
<1>3. ASSUME NEW i \in Items PROVE item[i].status # r
  <2>1. StatusSet(i, r) /\ Shape(req[r])  BY DEF StatusInv, InboxInv
  <2> QED  BY <1>1, <2>1 DEF StatusSet, Shape
<1>4. ASSUME NEW i \in Items, NEW q \in Requests
      PROVE  StatusSet(i, q)' /\ StatusWaits(q, i)' /\ Shown(i, q)'
  <2>1. StatusSet(i, q) /\ StatusWaits(q, i) /\ Shown(i, q)  BY DEF StatusInv
  <2>2. StatusSet(i, q)'  BY <1>1, <1>3, <2>1 DEF StatusSet
  <2>3. Shown(i, q)'  BY <1>1, <1>3, <2>1 DEF Shown, At, Present
  <2>4. StatusWaits(q, i)'
    <3>1. CASE q = r
      <4>1. At(r, "tell")' => req'[r].op = "create"
        <5>1. Shape(req[r])  BY DEF InboxInv
        <5> QED  BY <5>1 DEF Beginning, Kept, Shape, At
      <4> QED  BY <1>1, <3>1, <4>1 DEF StatusWaits, Beginning, At
    <3>2. CASE q # r
      <4>1. req'[q] = req[q]  BY <1>1, <3>2
      <4>2. item[i].status \in Requests \cup {NULL}  BY Domains
      <4>3. \A s \in Requests : req'[s].with = req[s].with  BY <1>1
      <4> QED  BY <1>1, <2>1, <4>1, <4>2, <4>3 DEF StatusWaits, At
    <3> QED  BY <3>1, <3>2
  <2> QED  BY <2>2, <2>3, <2>4
<1> QED  BY <1>2, <1>4 DEF StatusInv

----------------------------------------------------------------------------
(***************************************************************************)
(* A new item has no status, and is not read.                              *)
(***************************************************************************)
LEMMA InsertTold ==
  ASSUME InboxInv, ToldInv, StatusInv, NEW r \in Requests, Insert(r)
  PROVE  ToldInv' /\ StatusInv'
<1> DEFINE pc == IF req[r].kind = "note" /\ req[r].to # ALL THEN "names" ELSE "tell"
           x == [req[r] EXCEPT !.with = Sweeping(req[r].to), !.pc = pc]
           new == [ state |-> "present", kind |-> req[r].kind, from |-> req[r].by,
                    to |-> req[r].to, read |-> FALSE, status |-> NULL ]
<1>1. /\ At(r, "insert") /\ Become(r, x) /\ item' = [item EXCEPT ![r] = new]
      /\ told' = told /\ lastTold' = lastTold
  BY DEF Insert, Quiet
<1>2. pc \in {"names", "tell"}  OBVIOUS
<1> HIDE DEF pc
<1>3. /\ x.pc = pc /\ x.with = Sweeping(req[r].to) /\ x.op = req[r].op
      /\ x.list = req[r].list /\ x.id = req[r].id /\ x.result = req[r].result
  BY DEF InboxInv, TypeOK, RequestState
<1> HIDE DEF x
<1>4. req'[r] = x /\ \A q \in Requests \ {r} : req'[q] = req[q]
  BY <1>1 DEF Become, InboxInv, TypeOK
<1>5. /\ req[r].op = "create" /\ req[r].list = {} /\ item[r].state = "absent" /\ r \in Items
      /\ req'[r].list = {} /\ req'[r].op = "create"
  <2>1. Shape(req[r]) /\ Fits(r) /\ Unborn(r) /\ r \in Items
    BY Domains DEF InboxInv, ToldInv
  <2>2. req[r].op = "create"  BY <1>1, <2>1 DEF Shape, At
  <2> QED  BY <1>1, <1>3, <1>4, <2>1, <2>2 DEF Fits, Unborn, At
<1>6. /\ item'[r] = new /\ \A i \in Items \ {r} : item'[i] = item[i]
      /\ new.state = "present" /\ new.read = FALSE /\ new.status = NULL /\ new.to = req[r].to
  BY <1>1, <1>5 DEF InboxInv, TypeOK
<1> HIDE DEF new
<1>7. ASSUME NEW q \in Requests PROVE Unborn(q)'
  <2>1. CASE q = r  BY <1>2, <1>3, <1>4, <2>1 DEF Unborn
  <2>2. CASE q # r  BY <1>4, <1>6, <2>2, Domains DEF ToldInv, Unborn
  <2> QED  BY <2>1, <2>2
<1>8. ASSUME NEW q \in Requests PROVE Fits(q)'
  <2>1. CASE q = r  BY <1>2, <1>3, <1>4, <1>5, <2>1 DEF Fits, At
  <2>2. CASE q # r
    <3>1. Fits(q) /\ req'[q] = req[q] /\ req[q].list \subseteq Items
      BY <1>4, <2>2, Domains DEF ToldInv
    <3>2. At(q, "write") => r \notin req[q].list
      BY <1>5, <3>1 DEF Fits
    <3>3. At(q, "write") /\ req[q].op = "read" => req[q].id \in Items
      BY DEF InboxInv, Shape, At
    <3>4. At(q, "write") /\ req[q].op = "read" /\ req[q].list = {} => req[q].id # r
      BY <1>5, <3>1 DEF Fits
    <3> QED  BY <1>6, <3>1, <3>2, <3>3, <3>4 DEF Fits, At, Recipient
  <2> QED  BY <2>1, <2>2
<1>9. ASSUME NEW q \in Requests PROVE Late(q)'
  <2> SUFFICES ASSUME At(q, "write")', req'[q].op = "readAll", NEW i \in Items,
                      i \notin req'[q].list, Present(i)', item'[i].kind = "note",
                      item'[i].to \in {req'[q].by, ALL}, ~item'[i].read
               PROVE  i \in Requests /\ req'[i].with # {}
    BY DEF Late, Unread, Recipient
  <2>1. q # r  BY <1>5
  <2>2. req'[q] = req[q] /\ At(q, "write") /\ Late(q)  BY <1>4, <2>1 DEF ToldInv, At
  <2>3. CASE i = r
    <3>1. q \in Sweeping(req[r].to)  BY <1>6, <2>2, <2>3 DEF Sweeping
    <3> QED  BY <1>3, <1>4, <2>3, <3>1
  <2>4. CASE i # r
    <3>1. i \in Unread(req[q].by) \ req[q].list
      BY <1>6, <2>2, <2>4 DEF Unread, Recipient, Present
    <3>2. i \in Requests /\ req[i].with # {}  BY <2>2, <3>1 DEF Late
    <3> QED  BY <1>4, <2>4, <3>2
  <2> QED  BY <2>3, <2>4
<1>10. ASSUME NEW i \in Items, NEW q \in Requests
       PROVE  /\ Past(q, i)' => q # r /\ i # r /\ Past(q, i)
              /\ PastRead(q, i)'
  <2>1. PastRead(q, i) /\ PastRead(r, i)  BY DEF ToldInv
  <2>2. Past(q, i)' => q # r /\ Past(q, i)
    BY <1>1, <1>4, <1>5, <2>1 DEF Past, At
  <2>3. Past(q, i) => i # r  BY <1>5, <2>1 DEF PastRead
  <2>4. r \notin told[i]  BY <1>5, <2>1 DEF PastRead
  <2> QED  BY <1>1, <1>4, <1>6, <2>1, <2>2, <2>3, <2>4 DEF PastRead, At
<1>11. ASSUME NEW i \in Items, NEW q \in Requests, NEW s \in Requests
       PROVE  Overtaken(q, s, i)' /\ BothTell(q, s, i)'
  <2>1. Overtaken(q, s, i) /\ BothTell(q, s, i)  BY DEF ToldInv
  <2> QED  BY <1>4, <1>5, <1>10, <2>1 DEF Overtaken, BothTell, At
<1>12. ASSUME NEW i \in Items PROVE Announced(i)'
  <2> SUFFICES ASSUME Present(i)', item'[i].read, told'[i] = {}
               PROVE  \/ i \in Requests /\ req'[i].with # {}
                      \/ \E q \in Requests :
                           i \in req'[q].list /\ (At(q, "tell")' \/ req'[q].result = "failed")
    BY DEF Announced
  <2>1. i # r /\ item'[i] = item[i]  BY <1>6
  <2>2. CASE i \in Requests /\ req[i].with # {}  BY <1>4, <2>1, <2>2
  <2>3. ASSUME NEW q \in Requests, i \in req[q].list, At(q, "tell") \/ req[q].result = "failed"
        PROVE  i \in req'[q].list /\ (At(q, "tell")' \/ req'[q].result = "failed")
    <3>1. req'[q] = req[q]  BY <1>4, <1>5, <2>3
    <3> QED  BY <2>3, <3>1 DEF At
  <2>4. Announced(i)  BY DEF ToldInv
  <2> QED  BY <1>1, <2>1, <2>2, <2>3, <2>4 DEF Announced, Present
<1>13. ToldInv'  BY <1>7, <1>8, <1>9, <1>10, <1>11, <1>12 DEF ToldInv
<1>14. ASSUME NEW i \in Items
       PROVE  /\ ShownSet(i)'
              /\ i # r => item'[i] = item[i]
              /\ i = r => item'[i].status = NULL /\ lastTold[i] = NULL
              /\ item[i].status # r
  <2>1. ShownSet(i) /\ StatusSet(i, r)  BY DEF StatusInv
  <2> QED  BY <1>1, <1>5, <1>6, <2>1 DEF ShownSet, StatusSet
<1>15. ASSUME NEW i \in Items, NEW q \in Requests
       PROVE  StatusSet(i, q)' /\ StatusWaits(q, i)' /\ Shown(i, q)'
  <2>1. StatusSet(i, q) /\ StatusWaits(q, i) /\ Shown(i, q)  BY DEF StatusInv
  <2>2. NULL \notin Requests  BY SeedsAreNoRequests
  <2>3. StatusSet(i, q)'  BY <1>4, <1>14, <2>1, <2>2 DEF StatusSet
  <2>4. Shown(i, q)'  BY <1>1, <1>4, <1>14, <2>1, <2>2 DEF Shown, At, Present
  <2>5. StatusWaits(q, i)'
    <3>1. CASE q = r  BY <1>5, <3>1 DEF StatusWaits
    <3>2. CASE q # r /\ i = r
      BY <1>4, <1>5, <2>1, <3>2 DEF StatusWaits, At
    <3>3. CASE q # r /\ i # r
      <4>1. item'[i] = item[i] /\ req'[q] = req[q]  BY <1>4, <1>14, <3>3
      <4>2. item[i].status # NULL => req'[item[i].status] = req[item[i].status]
        BY <1>4, <1>14, Domains
      <4> QED  BY <2>1, <4>1, <4>2 DEF StatusWaits, At
    <3> QED  BY <3>1, <3>2, <3>3
  <2> QED  BY <2>3, <2>4, <2>5
<1>16. StatusInv'  BY <1>14, <1>15 DEF StatusInv
<1> QED  BY <1>13, <1>16

----------------------------------------------------------------------------
(***************************************************************************)
(* The write: what it overlaps is with, what it marks it had listed, or    *)
(* somebody else has told or will.                                         *)
(***************************************************************************)
Writes(r) ==
  /\ Write(r) /\ (req[r].op = "readAll" \/ Present(req[r].id))

LEMMA WriteFields ==
  ASSUME InboxInv, ToldInv, NEW r \in Requests, Writes(r)
  PROVE  /\ At(r, "write") /\ req[r].op \in {"read", "readAll", "status"}
         /\ req[r].op # "readAll" => req[r].id \in Items /\ Present(req[r].id)
         /\ req[r].result # "failed" /\ item[r].state = "absent"
         /\ At(r, "tell")' /\ req'[r].with = Overlapping(r)
         /\ req'[r].op = req[r].op /\ req'[r].id = req[r].id
         /\ req'[r].list = req[r].list /\ req[r].list \subseteq Items
         /\ Beside(r) /\ UNCHANGED <<told, lastTold>>
         /\ \A i \in Items :
              /\ item'[i].state = item[i].state /\ item'[i].kind = item[i].kind
              /\ item'[i].to = item[i].to
              /\ i \in Marked(r) /\ req[r].op # "status" => item'[i].read = TRUE
              /\ i \notin Marked(r) \/ req[r].op = "status" =>
                   item'[i].read = item[i].read
              /\ i \in Marked(r) /\ req[r].op = "status" => item'[i].status = r
              /\ i \notin Marked(r) \/ req[r].op # "status" =>
                   item'[i].status = item[i].status
<1> DEFINE x == [req[r] EXCEPT !.pc = "tell", !.with = Overlapping(r)]
<1>1. /\ At(r, "write") /\ Become(r, x) /\ UNCHANGED <<told, lastTold>>
      /\ item' = [i \in Items |->
               IF i \notin Marked(r) THEN item[i]
               ELSE IF req[r].op = "status" THEN [item[i] EXCEPT !.status = r]
                                            ELSE [item[i] EXCEPT !.read = TRUE]]
  BY DEF Writes, Write, Quiet
<1>2. Shape(req[r]) /\ Unborn(r) /\ req[r] \in RequestState
  BY DEF InboxInv, TypeOK, ToldInv
<1>3. /\ x.pc = "tell" /\ x.with = Overlapping(r) /\ x.op = req[r].op /\ x.id = req[r].id
      /\ x.list = req[r].list
  BY <1>2 DEF RequestState
<1> HIDE DEF x
<1>4. req'[r] = x /\ Beside(r)  BY <1>1 DEF Become, Beside, InboxInv, TypeOK
<1>5. ASSUME NEW i \in Items
      PROVE  /\ item'[i].state = item[i].state /\ item'[i].kind = item[i].kind
             /\ item'[i].to = item[i].to
             /\ i \in Marked(r) /\ req[r].op # "status" => item'[i].read = TRUE
             /\ i \notin Marked(r) \/ req[r].op = "status" =>
                  item'[i].read = item[i].read
             /\ i \in Marked(r) /\ req[r].op = "status" => item'[i].status = r
             /\ i \notin Marked(r) \/ req[r].op # "status" =>
                  item'[i].status = item[i].status
  <2>1. item[i] \in Item  BY DEF InboxInv, TypeOK
  <2>2. item'[i] = IF i \notin Marked(r) THEN item[i]
                   ELSE IF req[r].op = "status" THEN [item[i] EXCEPT !.status = r]
                                                ELSE [item[i] EXCEPT !.read = TRUE]
    BY <1>1
  <2> QED  BY <2>1, <2>2 DEF Item
<1>6. /\ req[r].op \in {"read", "readAll", "status"}
      /\ req[r].op # "readAll" => req[r].id \in Items
      /\ req[r].result # "failed" /\ item[r].state = "absent"
  BY <1>1, <1>2 DEF Shape, Unborn, At
<1> QED  BY <1>1, <1>2, <1>3, <1>4, <1>5, <1>6, Domains DEF Writes, At

LEMMA WriteTold ==
  ASSUME InboxInv, ToldInv, NEW r \in Requests, Writes(r)
  PROVE  ToldInv'
<1>1. /\ At(r, "write") /\ req[r].op \in {"read", "readAll", "status"}
      /\ req[r].op # "readAll" => req[r].id \in Items /\ Present(req[r].id)
      /\ req[r].result # "failed" /\ item[r].state = "absent"
      /\ At(r, "tell")' /\ req'[r].with = Overlapping(r)
      /\ req'[r].op = req[r].op /\ req'[r].id = req[r].id
      /\ req'[r].list = req[r].list /\ req[r].list \subseteq Items
      /\ \A q \in Requests \ {r} : req'[q] = req[q]
      /\ told' = told
  BY WriteFields DEF Beside
<1>2. \A i \in Items :
        /\ item'[i].state = item[i].state /\ item'[i].kind = item[i].kind
        /\ item'[i].to = item[i].to
        /\ item[i].read => item'[i].read
        /\ i \in Marked(r) /\ req[r].op # "status" => item'[i].read = TRUE
        /\ i \notin Marked(r) \/ req[r].op = "status" => item'[i].read = item[i].read
  BY WriteFields
<1>3. Fits(r) /\ Late(r) /\ r \in Items  BY Domains DEF ToldInv
<1>4. Marked(r) = IF req[r].op = "readAll" THEN Unread(req[r].by) ELSE {req[r].id}
  BY DEF Marked
<1>5. ASSUME NEW q \in Requests PROVE Unborn(q)'
  <2>1. CASE q = r  BY <1>1, <2>1 DEF Unborn, At
  <2>2. CASE q # r  BY <1>1, <1>2, <2>2, Domains DEF ToldInv, Unborn
  <2> QED  BY <2>1, <2>2
<1>6. ASSUME NEW q \in Requests PROVE Fits(q)'
  <2>1. CASE q = r  BY <1>1, <1>3, <2>1 DEF Fits, At
  <2>2. CASE q # r
    <3>1. Fits(q) /\ req'[q] = req[q] /\ req[q].list \subseteq Items
      BY <1>1, <2>2, Domains DEF ToldInv
    <3>2. At(q, "write") /\ req[q].op = "read" => req[q].id \in Items
      BY DEF InboxInv, Shape, At
    <3> QED  BY <1>2, <3>1, <3>2 DEF Fits, At, Recipient
  <2> QED  BY <2>1, <2>2
<1>7. ASSUME NEW q \in Requests PROVE Late(q)'
  <2> SUFFICES ASSUME At(q, "write")', req'[q].op = "readAll", NEW i \in Items,
                      i \notin req'[q].list, Present(i)', item'[i].kind = "note",
                      item'[i].to \in {req'[q].by, ALL}, ~item'[i].read
               PROVE  i \in Requests /\ req'[i].with # {}
    BY DEF Late, Unread, Recipient
  <2>1. q # r  BY <1>1 DEF At
  <2>2. req'[q] = req[q] /\ At(q, "write") /\ Late(q)  BY <1>1, <2>1 DEF ToldInv, At
  <2>3. i \in Unread(req[q].by) \ req[q].list
    BY <1>2, <2>2 DEF Unread, Recipient, Present
  <2>4. i \in Requests /\ req[i].with # {}  BY <2>2, <2>3 DEF Late
  <2>5. i # r  BY <1>1, <2>3 DEF Unread, Present
  <2> QED  BY <1>1, <2>4, <2>5
<1>8. ASSUME NEW i \in Items, i \in req[r].list
      PROVE  item'[i].state = "deleted" \/ (item'[i].state = "present" /\ item'[i].read)
  <2>1. item[i].state # "absent" /\ item[i].state \in {"absent", "present", "deleted"}
    BY <1>1, <1>3, <1>8, Domains DEF Fits
  <2>2. CASE req[r].op = "read"
    <3>1. i = req[r].id  BY <1>1, <1>3, <1>8, <2>2 DEF Fits
    <3> QED  BY <1>1, <1>2, <1>4, <2>2, <3>1 DEF Present
  <2>3. CASE req[r].op = "readAll"
    <3>1. item[i].kind = "note" /\ Recipient(i, req[r].by)
      BY <1>1, <1>3, <1>8, <2>3 DEF Fits
    <3>2. Present(i) /\ ~item[i].read => i \in Marked(r)
      BY <1>4, <2>3, <3>1 DEF Unread
    <3> QED  BY <1>2, <2>1, <2>3, <3>2 DEF Present
  <2>4. req[r].op # "status"  BY <1>3, <1>8 DEF Fits
  <2> QED  BY <1>1, <2>2, <2>3, <2>4
<1>9. ASSUME NEW i \in Items, NEW q \in Requests
      PROVE  /\ Past(q, i)' => Past(q, i) \/ (q = r /\ i \in req[r].list)
             /\ PastRead(q, i)'
  <2>1. PastRead(q, i)  BY DEF ToldInv
  <2>2. CASE q = r  BY <1>1, <1>8, <2>1, <2>2 DEF Past, PastRead, At
  <2>3. CASE q # r  BY <1>1, <1>2, <2>1, <2>3 DEF Past, PastRead, At
  <2> QED  BY <2>2, <2>3
<1>10. ASSUME NEW i \in Items, ~(i \in req[r].list /\ r \in told[i])
       PROVE  ~Past(r, i)
  BY <1>1, <1>10 DEF Past, At
<1>11. ASSUME NEW i \in Items PROVE r \notin told[i]
  BY <1>1 DEF ToldInv, PastRead, At
<1>12. ASSUME NEW i \in Items, NEW q \in Requests, NEW s \in Requests
       PROVE  Overtaken(q, s, i)' /\ BothTell(q, s, i)'
  <2>1. /\ Overtaken(q, s, i) /\ BothTell(q, s, i)
        /\ Overtaken(r, s, i) /\ Overtaken(r, q, i)
    BY DEF ToldInv
  <2>2. Overtaken(q, s, i)'
    <3> SUFFICES ASSUME At(q, "write")', i \in req'[q].list, Past(s, i)'
                 PROVE  q \in req'[s].with
      BY DEF Overtaken
    <3>1. q # r /\ req'[q] = req[q] /\ At(q, "write")  BY <1>1 DEF At
    <3>2. CASE s = r
      <4>1. i \in req[r].list  BY <1>9, <1>10, <1>11, <3>2
      <4> QED  BY <1>1, <3>1, <3>2, <4>1 DEF Overlapping
    <3>3. CASE s # r
      <4>1. Past(s, i) /\ req'[s] = req[s]  BY <1>1, <1>9, <3>3
      <4> QED  BY <2>1, <3>1, <4>1 DEF Overtaken
    <3> QED  BY <3>2, <3>3
  <2>3. BothTell(q, s, i)'
    <3> SUFFICES ASSUME q # s, Past(q, i)', Past(s, i)'
                 PROVE  q \in req'[s].with \/ s \in req'[q].with
      BY DEF BothTell
    <3>1. CASE q = r
      <4>1. i \in req[r].list  BY <1>9, <1>10, <1>11, <3>1
      <4>2. Past(s, i) /\ req'[s] = req[s]  BY <1>1, <1>9, <3>1
      <4> QED  BY <1>1, <2>1, <3>1, <4>1, <4>2 DEF Overtaken
    <3>2. CASE s = r
      <4>1. i \in req[r].list  BY <1>9, <1>10, <1>11, <3>2
      <4>2. Past(q, i) /\ req'[q] = req[q]  BY <1>1, <1>9, <3>2
      <4> QED  BY <1>1, <2>1, <3>2, <4>1, <4>2 DEF Overtaken
    <3>3. CASE q # r /\ s # r
      <4>1. Past(q, i) /\ Past(s, i)  BY <1>9, <3>3
      <4> QED  BY <1>1, <2>1, <3>3, <4>1 DEF BothTell
    <3> QED  BY <3>1, <3>2, <3>3
  <2> QED  BY <2>2, <2>3
<1>13. ASSUME NEW i \in Items PROVE Announced(i)'
  <2> SUFFICES ASSUME Present(i)', item'[i].read, told'[i] = {}
               PROVE  \/ i \in Requests /\ req'[i].with # {}
                      \/ \E q \in Requests :
                           i \in req'[q].list /\ (At(q, "tell")' \/ req'[q].result = "failed")
    BY DEF Announced
  <2>1. Present(i) /\ told[i] = {} /\ i # r  BY <1>1, <1>2 DEF Present
  <2>2. CASE i \in Requests /\ req[i].with # {}  BY <1>1, <2>1, <2>2
  <2>3. CASE i \in req[r].list  BY <1>1, <2>3
  <2>4. CASE item[i].read
    <3>1. ASSUME NEW q \in Requests, i \in req[q].list,
                 At(q, "tell") \/ req[q].result = "failed"
          PROVE  i \in req'[q].list /\ (At(q, "tell")' \/ req'[q].result = "failed")
      <4>1. q # r  BY <1>1, <3>1 DEF At
      <4> QED  BY <1>1, <3>1, <4>1 DEF At
    <3>2. Announced(i)  BY DEF ToldInv
    <3> QED  BY <2>1, <2>2, <2>4, <3>1, <3>2 DEF Announced
  <2>5. CASE ~item[i].read /\ i \notin req[r].list
    <3>1. i \in Marked(r) /\ req[r].op # "status"  BY <1>2, <2>5
    <3>2. CASE req[r].op = "read"
      <4>1. i = req[r].id  BY <1>4, <3>1, <3>2
      <4> QED  BY <1>1, <1>3, <2>5, <3>2, <4>1 DEF Fits
    <3>3. CASE req[r].op = "readAll"
      <4>1. i \in Unread(req[r].by) \ req[r].list  BY <1>4, <2>5, <3>1, <3>3
      <4>2. i \in Requests /\ req[i].with # {}  BY <1>1, <1>3, <3>3, <4>1 DEF Late
      <4> QED  BY <2>2, <4>2
    <3> QED  BY <1>1, <3>1, <3>2, <3>3
  <2> QED  BY <2>3, <2>4, <2>5
<1> QED  BY <1>5, <1>6, <1>7, <1>9, <1>12, <1>13 DEF ToldInv

LEMMA WriteStatus ==
  ASSUME InboxInv, ToldInv, StatusInv, NEW r \in Requests, Writes(r)
  PROVE  StatusInv'
<1>1. /\ At(r, "write") /\ At(r, "tell")' /\ req'[r].with = Overlapping(r)
      /\ req'[r].op = req[r].op /\ req'[r].id = req[r].id
      /\ \A q \in Requests \ {r} : req'[q] = req[q]
      /\ lastTold' = lastTold /\ item[r].state = "absent"
      /\ req[r].op = "status" => Present(req[r].id)
  BY WriteFields DEF Beside
<1>2. ASSUME NEW i \in Items
      PROVE  /\ item'[i].state = item[i].state
             /\ req[r].op = "status" /\ i = req[r].id => item'[i].status = r
             /\ ~(req[r].op = "status" /\ i = req[r].id) => item'[i].status = item[i].status
  BY WriteFields DEF Marked
<1>3. ASSUME NEW i \in Items PROVE item[i].status # r
  <2>1. StatusSet(i, r)  BY DEF StatusInv
  <2> QED  BY <1>1, <2>1 DEF StatusSet, At
<1>4. NULL \notin Requests  BY Domains
<1>5. ASSUME NEW i \in Items PROVE ShownSet(i)'
  BY <1>1, <1>2, <1>4 DEF StatusInv, ShownSet
<1>6. ASSUME NEW i \in Items, NEW q \in Requests
      PROVE  StatusSet(i, q)' /\ StatusWaits(q, i)' /\ Shown(i, q)'
  <2>1. StatusSet(i, q) /\ StatusWaits(q, i) /\ Shown(i, q)  BY DEF StatusInv
  <2>2. CASE req[r].op = "status" /\ i = req[r].id
    <3>1. item'[i].status = r /\ item'[i].state # "absent"
      BY <1>1, <1>2, <2>2 DEF Present
    <3>2. StatusSet(i, q)'  BY <1>1, <2>2, <3>1 DEF StatusSet, At
    <3>3. Shown(i, q)'  BY <1>1, <3>1 DEF Shown
    <3>4. StatusWaits(q, i)'
      <4>1. CASE q = r  BY <1>4, <3>1, <4>1 DEF StatusWaits
      <4>2. CASE q # r
        <5>1. req'[q] = req[q]  BY <1>1, <4>2
        <5>2. At(q, "tell") /\ req[q].op = "status" /\ req[q].id = i => q \in Overlapping(r)
          BY <2>2, <4>2 DEF Overlapping
        <5> QED  BY <1>1, <1>4, <3>1, <5>1, <5>2 DEF StatusWaits, At
      <4> QED  BY <4>1, <4>2
    <3> QED  BY <3>2, <3>3, <3>4
  <2>3. CASE ~(req[r].op = "status" /\ i = req[r].id)
    <3>1. item'[i].status = item[i].status /\ item'[i].state = item[i].state
      BY <1>2, <2>3
    <3>2. item[i].status = q => req'[q] = req[q]  BY <1>1, <1>3
    <3>3. StatusSet(i, q)'  BY <2>1, <3>1, <3>2 DEF StatusSet
    <3>4. Shown(i, q)'  BY <1>1, <2>1, <3>1, <3>2 DEF Shown, Present, At
    <3>5. StatusWaits(q, i)'
      <4>1. CASE q = r  BY <1>1, <2>3, <4>1 DEF StatusWaits
      <4>2. CASE q # r
        <5>1. item[i].status # NULL => req'[item[i].status] = req[item[i].status]
          BY <1>1, <1>3, Domains
        <5> QED  BY <1>1, <2>1, <3>1, <4>2, <5>1 DEF StatusWaits, At
      <4> QED  BY <4>1, <4>2
    <3> QED  BY <3>3, <3>4, <3>5
  <2> QED  BY <2>2, <2>3
<1> QED  BY <1>5, <1>6 DEF StatusInv

----------------------------------------------------------------------------
(***************************************************************************)
(* The announcement.                                                       *)
(***************************************************************************)
LEMMA TellFields ==
  ASSUME InboxInv, NEW r \in Requests, Tell(r)
  PROVE  /\ At(r, "tell") /\ At(r, "done")' /\ req'[r].result = "ok"
         /\ Kept(r) /\ Beside(r) /\ item' = item /\ req[r].result = "none"
         /\ \A i \in Items :
              told'[i] = IF i \in req[r].list THEN told[i] \cup {r} ELSE told[i]
         /\ req[r].op = "status" => req[r].id \in Items
         /\ \A i \in Items :
              lastTold'[i] = IF req[r].op = "status" /\ i = req[r].id THEN r ELSE lastTold[i]
<1> DEFINE x == [req[r] EXCEPT !.pc = "done", !.result = "ok"]
<1>1. At(r, "tell") /\ Become(r, x) /\ item' = item  BY DEF Tell, Answer
<1>2. Shape(req[r]) /\ req[r] \in RequestState  BY DEF InboxInv, TypeOK
<1>3. /\ x.pc = "done" /\ x.result = "ok" /\ x.op = req[r].op /\ x.id = req[r].id
      /\ x.by = req[r].by /\ x.list = req[r].list /\ x.with = req[r].with
  BY <1>2 DEF RequestState
<1> HIDE DEF x
<1>4. req'[r] = x /\ Beside(r)  BY <1>1 DEF Become, Beside, InboxInv, TypeOK
<1>5. \A i \in Items : told'[i] = IF i \in req[r].list THEN told[i] \cup {r} ELSE told[i]
  BY DEF Tell
<1>6. /\ req[r].result = "none"
      /\ req[r].op = "status" => req[r].id \in Items
  BY <1>1, <1>2 DEF Shape, At
<1>7. \A i \in Items :
        lastTold'[i] = IF req[r].op = "status" /\ i = req[r].id THEN r ELSE lastTold[i]
  BY <1>6 DEF Tell, InboxInv, TypeOK
<1> QED  BY <1>1, <1>3, <1>4, <1>5, <1>6, <1>7 DEF At, Kept

LEMMA TellTold ==
  ASSUME InboxInv, ToldInv, NEW r \in Requests, Tell(r)
  PROVE  ToldInv'
<1>1. /\ At(r, "tell") /\ At(r, "done")' /\ item' = item
      /\ \A q \in Requests : Kept(q)
      /\ \A q \in Requests \ {r} : req'[q] = req[q]
  BY TellFields DEF Beside, Kept
<1>2. \A i \in Items : told'[i] = IF i \in req[r].list THEN told[i] \cup {r} ELSE told[i]
  BY TellFields
<1>3. ASSUME NEW q \in Requests PROVE Unborn(q)'
  <2>1. Unborn(q)  BY DEF ToldInv
  <2> QED  BY <1>1, <2>1 DEF Unborn, At
<1>4. ASSUME NEW q \in Requests PROVE Fits(q)'
  <2>1. Fits(q)  BY DEF ToldInv
  <2>2. CASE q = r  BY <1>1, <2>1, <2>2 DEF Fits, At, Kept
  <2>3. CASE q # r
    <3>1. req'[q] = req[q]  BY <1>1, <2>3
    <3> QED  BY <1>1, <2>1, <3>1 DEF Fits, At, Recipient
  <2> QED  BY <2>2, <2>3
<1>5. ASSUME NEW q \in Requests PROVE Late(q)'
  <2> SUFFICES ASSUME At(q, "write")', req'[q].op = "readAll", NEW i \in Items,
                      i \notin req'[q].list, Present(i)', item'[i].kind = "note",
                      item'[i].to \in {req'[q].by, ALL}, ~item'[i].read
               PROVE  i \in Requests /\ req'[i].with # {}
    BY DEF Late, Unread, Recipient
  <2>1. req'[q] = req[q] /\ Late(q)  BY <1>1 DEF ToldInv, At
  <2>2. i \in Unread(req[q].by) \ req[q].list
    BY <1>1, <2>1 DEF Unread, Recipient, Present
  <2>3. i \in Requests /\ req[i].with # {}  BY <2>1, <2>2 DEF Late, At
  <2> QED  BY <1>1, <2>3 DEF Kept
<1>6. ASSUME NEW i \in Items, NEW q \in Requests
      PROVE  (Past(q, i)' => Past(q, i)) /\ PastRead(q, i)'
  <2>1. PastRead(q, i)  BY DEF ToldInv
  <2>2. Kept(q) /\ told'[i] = IF i \in req[r].list THEN told[i] \cup {r} ELSE told[i]
    BY <1>1, <1>2
  <2>3. CASE q = r
    <3>1. Past(q, i)' => Past(q, i)  BY <1>1, <2>2, <2>3 DEF Past, At, Kept
    <3>2. q \in told'[i] => At(q, "done")' /\ i \in req'[q].list
      BY <1>1, <2>1, <2>2, <2>3 DEF PastRead, At, Kept
    <3> QED  BY <1>1, <2>1, <3>1, <3>2 DEF PastRead
  <2>4. CASE q # r
    <3>1. req'[q] = req[q] /\ (q \in told'[i] <=> q \in told[i])  BY <1>1, <2>2, <2>4
    <3> QED  BY <1>1, <2>1, <3>1 DEF PastRead, Past, At
  <2> QED  BY <2>3, <2>4
<1>7. ASSUME NEW i \in Items, NEW q \in Requests, NEW s \in Requests
      PROVE  Overtaken(q, s, i)' /\ BothTell(q, s, i)'
  <2>1. Overtaken(q, s, i) /\ BothTell(q, s, i)  BY DEF ToldInv
  <2>2. At(q, "write")' => req'[q] = req[q]  BY <1>1 DEF At
  <2> QED  BY <1>1, <1>6, <2>1, <2>2 DEF Overtaken, BothTell, Kept, At
<1>8. ASSUME NEW i \in Items PROVE Announced(i)'
  <2> SUFFICES ASSUME Present(i), item[i].read, told'[i] = {}
               PROVE  \/ i \in Requests /\ req'[i].with # {}
                      \/ \E q \in Requests :
                           i \in req'[q].list /\ (At(q, "tell")' \/ req'[q].result = "failed")
    BY <1>1 DEF Announced, Present
  <2>1. told[i] = {} /\ i \notin req[r].list  BY <1>2
  <2>2. CASE i \in Requests /\ req[i].with # {}  BY <1>1, <2>2 DEF Kept
  <2>3. ASSUME NEW q \in Requests, i \in req[q].list, At(q, "tell") \/ req[q].result = "failed"
        PROVE  i \in req'[q].list /\ (At(q, "tell")' \/ req'[q].result = "failed")
    <3>1. req'[q] = req[q]  BY <1>1, <2>1, <2>3
    <3> QED  BY <2>3, <3>1 DEF At
  <2>4. Announced(i)  BY DEF ToldInv
  <2> QED  BY <2>1, <2>2, <2>3, <2>4 DEF Announced
<1> QED  BY <1>3, <1>4, <1>5, <1>6, <1>7, <1>8 DEF ToldInv

LEMMA TellStatus ==
  ASSUME InboxInv, StatusInv, NEW r \in Requests, Tell(r)
  PROVE  StatusInv'
<1>1. /\ At(r, "tell") /\ At(r, "done")' /\ item' = item /\ req[r].result = "none"
      /\ \A q \in Requests : Kept(q)
      /\ \A q \in Requests \ {r} : req'[q] = req[q]
  BY TellFields DEF Beside, Kept
<1>2. \A i \in Items :
        lastTold'[i] = IF req[r].op = "status" /\ i = req[r].id THEN r ELSE lastTold[i]
  BY TellFields
<1>3. ASSUME NEW i \in Items PROVE ShownSet(i)'
  <2>1. ShownSet(i) /\ StatusWaits(r, i)  BY DEF StatusInv
  <2> QED  BY <1>1, <1>2, <2>1 DEF ShownSet, StatusWaits, At
<1>4. ASSUME NEW i \in Items, NEW q \in Requests
      PROVE  StatusSet(i, q)' /\ StatusWaits(q, i)' /\ Shown(i, q)'
  <2>1. StatusSet(i, q) /\ StatusWaits(q, i) /\ Shown(i, q)  BY DEF StatusInv
  <2>2. StatusSet(i, q)'
    <3>1. CASE q = r  BY <1>1, <2>1, <3>1 DEF StatusSet, At, Kept
    <3>2. CASE q # r  BY <1>1, <2>1, <3>2 DEF StatusSet
    <3> QED  BY <3>1, <3>2
  <2>3. StatusWaits(q, i)'
    <3>1. CASE q = r  BY <1>1, <3>1 DEF StatusWaits, At
    <3>2. CASE q # r
      <4>1. item[i].status # NULL => req'[item[i].status].with = req[item[i].status].with
        BY <1>1, Domains DEF Kept
      <4>2. req'[q] = req[q]  BY <1>1, <3>2
      <4> QED  BY <1>1, <2>1, <4>1, <4>2 DEF StatusWaits, At
    <3> QED  BY <3>1, <3>2
  <2>4. Shown(i, q)'
    <3> SUFFICES ASSUME item[i].status = q, Present(i), lastTold'[i] # q
                 PROVE  At(q, "tell")' \/ req'[q].result = "failed" \/ lastTold'[i] \in req'[q].with
      BY <1>1 DEF Shown, Present
    <3>1. CASE req[r].op = "status" /\ i = req[r].id
      <4>1. StatusWaits(r, i)  BY DEF StatusInv
      <4>2. r \in req[q].with  BY <1>1, <1>2, <3>1, <4>1 DEF StatusWaits
      <4> QED  BY <1>1, <1>2, <3>1, <4>2 DEF Kept
    <3>2. CASE ~(req[r].op = "status" /\ i = req[r].id)
      <4>1. q # r  BY <2>1, <3>2 DEF StatusSet
      <4> QED  BY <1>1, <1>2, <2>1, <3>2, <4>1 DEF Shown, At
    <3> QED  BY <3>1, <3>2
  <2> QED  BY <2>2, <2>3, <2>4
<1> QED  BY <1>3, <1>4 DEF StatusInv

----------------------------------------------------------------------------
(***************************************************************************)
(* Which kind of step each action is.                                      *)
(***************************************************************************)
LEMMA AnswerEnds ==
  ASSUME InboxInv, NEW r \in Requests, NEW result \in Results, Answer(r, result),
         ~At(r, "done"), At(r, "tell") => result = "failed",
         \A i \in Items : item'[i] = item[i] \/ Gone(i), UNCHANGED <<told, lastTold>>
  PROVE  Ending
<1> DEFINE x == [req[r] EXCEPT !.pc = "done", !.result = result]
<1>1. req[r] \in RequestState /\ Become(r, x)  BY DEF InboxInv, TypeOK, Answer
<1>2. /\ x.pc = "done" /\ x.result = result /\ x.op = req[r].op /\ x.id = req[r].id
      /\ x.by = req[r].by /\ x.list = req[r].list /\ x.with = req[r].with
  BY <1>1 DEF RequestState
<1> HIDE DEF x
<1>3. req'[r] = x /\ \A q \in Requests \ {r} : req'[q] = req[q]
  BY <1>1 DEF Become, InboxInv, TypeOK
<1>4. Ended(r)  BY <1>2, <1>3 DEF Ended, Kept, At
<1> QED  BY <1>3, <1>4 DEF Ending

LEMMA RefusalEnds ==
  ASSUME InboxInv, NEW r \in Requests, Answer(r, "notFound") \/ Answer(r, "forbidden"),
         ~At(r, "done"), ~At(r, "tell"), UNCHANGED item, Quiet
  PROVE  Ending
  BY AnswerEnds DEF Results, Quiet

LEMMA DeleteEnds ==
  ASSUME InboxInv, NEW r \in Requests, Delete(r)
  PROVE  Ending
<1>1. At(r, "delete") /\ req[r].id \in Items /\ UNCHANGED <<told, lastTold>>
  BY DEF Delete, Quiet, InboxInv, Shape, At
<1>2. CASE Present(req[r].id)
  <2>1. item' = [item EXCEPT ![req[r].id].state = "deleted"] /\ Answer(r, "ok")
    BY <1>2 DEF Delete
  <2>2. item[req[r].id] \in Item /\ item \in [Items -> Item]
    BY <1>1 DEF InboxInv, TypeOK
  <2>3. Gone(req[r].id)  BY <1>1, <1>2, <2>1, <2>2 DEF Gone, Item
  <2>4. \A i \in Items : item'[i] = item[i] \/ Gone(i)  BY <2>1, <2>2, <2>3
  <2> QED  BY <1>1, <2>1, <2>4, AnswerEnds DEF Results, At
<1>3. CASE ~Present(req[r].id)
  <2>1. Answer(r, "notFound") /\ UNCHANGED item  BY <1>3 DEF Delete
  <2> QED  BY <1>1, <2>1, AnswerEnds DEF Results, At
<1> QED  BY <1>2, <1>3

LEMMA DieEnds ==
  ASSUME InboxInv, Die
  PROVE  Ending
<1>1. UNCHANGED <<item, told, lastTold>>  BY DEF Die
<1>2. ASSUME NEW q \in Requests PROVE req'[q] = req[q] \/ Ended(q)
  <2>1. req[q] \in RequestState  BY DEF InboxInv, TypeOK
  <2>2. CASE InFlight(q)
    <3>1. req'[q] = [req[q] EXCEPT !.pc = "done", !.result = "failed"]
      BY <2>2 DEF Die
    <3> QED  BY <2>1, <2>2, <3>1 DEF RequestState, Ended, Kept, At, InFlight
  <2>3. CASE ~InFlight(q)  BY <2>3 DEF Die
  <2> QED  BY <2>2, <2>3
<1> QED  BY <1>1, <1>2 DEF Ending

\* A request x that begins, in the state of the tables.
LEMMA Begins ==
  ASSUME InboxInv, ToldInv, NEW r \in Requests, NEW x \in RequestState, Become(r, x),
         At(r, "new"), x.with = req[r].with, x.pc \in {"insert", "write", "delete"},
         x.op \notin {"read", "readAll"} => x.list = {},
         x.op = "read" => x.pc = "write" /\
           \/ x.list = {x.id}
           \/ x.list = {} /\ item[x.id].read /\ item[x.id].state # "absent",
         x.op = "readAll" => x.pc = "write" /\ x.list = Unread(x.by),
         x.op = "status" => x.id \in Items /\ Present(x.id),
         \A i \in x.list : i \in Items /\ Present(i) /\ ~item[i].read,
         UNCHANGED item, Quiet
  PROVE  Beginning(r)
<1>1. req'[r] = x /\ Beside(r)  BY DEF Become, Beside, InboxInv, TypeOK
<1>2. UNCHANGED <<item, told, lastTold>>  BY DEF Quiet
<1>3. Fits(r)'  BY <1>1, <1>2 DEF Fits, At, Unread, Recipient, Present
<1>4. At(r, "write")' /\ req'[r].op = "readAll" => Unread(req'[r].by) \subseteq req'[r].list
  BY <1>1
<1>5. At(r, "write")' /\ req'[r].op = "status" =>
        req'[r].id \in Items /\ item[req'[r].id].state # "absent"
  BY <1>1 DEF Present
<1> QED  BY <1>1, <1>2, <1>3, <1>4, <1>5 DEF Beginning

\* A request that has not begun has no list.
LEMMA Empty ==
  ASSUME ToldInv, NEW r \in Requests, At(r, "new")
  PROVE  req[r].list = {} /\ req[r].op = "none"
<1>1. Fits(r)  BY DEF ToldInv
<1> QED  BY <1>1 DEF Fits

LEMMA CreateBegins ==
  ASSUME InboxInv, ToldInv, NEW r \in Requests, NEW u \in Users, NEW kind \in {"note", "task"},
         NEW to \in Users \cup {ALL}, Create(r, u, kind, to)
  PROVE  Ending \/ Beginning(r)
<1> DEFINE x == [req[r] EXCEPT !.pc = "insert", !.op = "create", !.by = u,
                   !.kind = kind, !.to = to]
<1>1. req[r] \in RequestState /\ At(r, "new") /\ UNCHANGED item /\ Quiet
  BY DEF InboxInv, TypeOK, Create
<1>2. /\ x \in RequestState /\ x.pc = "insert" /\ x.op = "create" /\ x.list = req[r].list
      /\ x.with = req[r].with
  BY <1>1 DEF RequestState
<1>3. Become(r, x) \/ Answer(r, "notFound")  BY DEF Create
<1> HIDE DEF x
<1>4. CASE Become(r, x)  BY <1>1, <1>2, <1>4, Empty, Begins
<1>5. CASE Answer(r, "notFound")  BY <1>1, <1>5, RefusalEnds DEF At
<1> QED  BY <1>3, <1>4, <1>5

LEMMA ReadBegins ==
  ASSUME InboxInv, ToldInv, NEW r \in Requests, NEW u \in Users, NEW i \in Items, Read(r, u, i)
  PROVE  Ending \/ Beginning(r)
<1> DEFINE x == [req[r] EXCEPT !.pc = "write", !.op = "read", !.by = u, !.id = i,
                   !.list = IF item[i].read THEN {} ELSE {i}]
<1>1. req[r] \in RequestState /\ At(r, "new") /\ UNCHANGED item /\ Quiet
  BY DEF InboxInv, TypeOK, Read
<1>2. /\ x \in RequestState /\ x.pc = "write" /\ x.op = "read" /\ x.id = i
      /\ x.list = (IF item[i].read THEN {} ELSE {i}) /\ x.with = req[r].with
  BY <1>1 DEF RequestState
<1>3. (Become(r, x) /\ Present(i)) \/ Answer(r, "notFound") \/ Answer(r, "forbidden")
  BY DEF Read
<1> HIDE DEF x
<1>4. CASE Become(r, x) /\ Present(i)  BY <1>1, <1>2, <1>4, Begins DEF Present
<1>5. CASE Answer(r, "notFound") \/ Answer(r, "forbidden")
  BY <1>1, <1>5, RefusalEnds DEF At
<1> QED  BY <1>3, <1>4, <1>5

LEMMA ReadAllBegins ==
  ASSUME InboxInv, ToldInv, NEW r \in Requests, NEW u \in Users, ReadAll(r, u)
  PROVE  Beginning(r)
<1> DEFINE x == [req[r] EXCEPT !.pc = "write", !.op = "readAll", !.by = u, !.list = Unread(u)]
<1>1. /\ req[r] \in RequestState /\ At(r, "new") /\ UNCHANGED item /\ Quiet /\ Become(r, x)
      /\ Unread(u) \in SUBSET Items
  BY DEF InboxInv, TypeOK, ReadAll, Unread
<1>2. /\ x \in RequestState /\ x.pc = "write" /\ x.op = "readAll" /\ x.by = u
      /\ x.list = Unread(u) /\ x.with = req[r].with
  BY <1>1 DEF RequestState
<1>3. \A i \in Unread(u) : i \in Items /\ Present(i) /\ ~item[i].read  BY DEF Unread
<1> HIDE DEF x
<1> QED  BY <1>1, <1>2, <1>3, Begins

LEMMA StatusBegins ==
  ASSUME InboxInv, ToldInv, NEW r \in Requests, NEW u \in Users, NEW i \in Items,
         Status(r, u, i)
  PROVE  Ending \/ Beginning(r)
<1> DEFINE x == [req[r] EXCEPT !.pc = "write", !.op = "status", !.by = u, !.id = i]
<1>1. req[r] \in RequestState /\ At(r, "new") /\ UNCHANGED item /\ Quiet
  BY DEF InboxInv, TypeOK, Status
<1>2. /\ x \in RequestState /\ x.pc = "write" /\ x.op = "status" /\ x.id = i
      /\ x.list = req[r].list /\ x.with = req[r].with
  BY <1>1 DEF RequestState
<1>3. (Become(r, x) /\ Present(i)) \/ Answer(r, "notFound") \/ Answer(r, "forbidden")
  BY DEF Status
<1> HIDE DEF x
<1>4. CASE Become(r, x) /\ Present(i)  BY <1>1, <1>2, <1>4, Empty, Begins
<1>5. CASE Answer(r, "notFound") \/ Answer(r, "forbidden")
  BY <1>1, <1>5, RefusalEnds DEF At
<1> QED  BY <1>3, <1>4, <1>5

LEMMA RemoveBegins ==
  ASSUME InboxInv, ToldInv, NEW r \in Requests, NEW u \in Users, NEW i \in Items,
         Remove(r, u, i)
  PROVE  Ending \/ Beginning(r)
<1> DEFINE x == [req[r] EXCEPT !.pc = "delete", !.op = "remove", !.by = u, !.id = i]
<1>1. req[r] \in RequestState /\ At(r, "new") /\ UNCHANGED item /\ Quiet
  BY DEF InboxInv, TypeOK, Remove
<1>2. /\ x \in RequestState /\ x.pc = "delete" /\ x.op = "remove"
      /\ x.list = req[r].list /\ x.with = req[r].with
  BY <1>1 DEF RequestState
<1>3. Become(r, x) \/ Answer(r, "notFound") \/ Answer(r, "forbidden")  BY DEF Remove
<1> HIDE DEF x
<1>4. CASE Become(r, x)  BY <1>1, <1>2, <1>4, Empty, Begins
<1>5. CASE Answer(r, "notFound") \/ Answer(r, "forbidden")
  BY <1>1, <1>5, RefusalEnds DEF At
<1> QED  BY <1>3, <1>4, <1>5

LEMMA NamesBegins ==
  ASSUME InboxInv, ToldInv, NEW r \in Requests, Names(r)
  PROVE  Beginning(r)
<1> DEFINE x == [req[r] EXCEPT !.pc = "tell"]
<1>1. /\ req[r] \in RequestState /\ Shape(req[r]) /\ Fits(r) /\ At(r, "names")
      /\ Become(r, x) /\ UNCHANGED <<item, told, lastTold>>
  BY DEF InboxInv, TypeOK, ToldInv, Names, Go, Quiet
<1>2. req[r].op = "create" /\ req[r].list = {}  BY <1>1 DEF Shape, Fits, At
<1>3. /\ x.pc = "tell" /\ x.op = req[r].op /\ x.id = req[r].id
      /\ x.by = req[r].by /\ x.list = req[r].list /\ x.with = req[r].with
  BY <1>1 DEF RequestState
<1> HIDE DEF x
<1>4. req'[r] = x /\ Beside(r)  BY <1>1 DEF Become, Beside, InboxInv, TypeOK
<1>5. Kept(r) /\ At(r, "tell")' /\ Fits(r)'  BY <1>2, <1>3, <1>4 DEF Kept, At, Fits
<1> QED  BY <1>1, <1>2, <1>3, <1>4, <1>5 DEF Beginning, At

----------------------------------------------------------------------------
HistoryInv == InboxInv /\ ToldInv /\ StatusInv

LEMMA EndingHistory ==
  ASSUME HistoryInv, Ending PROVE ToldInv' /\ StatusInv'
  BY EndingTold, EndingStatus DEF HistoryInv

LEMMA BeginningHistory ==
  ASSUME HistoryInv, NEW r \in Requests, Beginning(r) PROVE ToldInv' /\ StatusInv'
  BY BeginningTold, BeginningStatus DEF HistoryInv

LEMMA HandleHistory ==
  ASSUME HistoryInv, NEW r \in Requests, Handle(r)
  PROVE  ToldInv' /\ StatusInv'
<1>1. InboxInv /\ ToldInv /\ StatusInv  BY DEF HistoryInv
<1>2. ASSUME NEW u \in Users, NEW kind \in {"note", "task"}, NEW to \in Users \cup {ALL},
             Create(r, u, kind, to)
      PROVE  ToldInv' /\ StatusInv'
  BY <1>1, <1>2, CreateBegins, EndingHistory, BeginningHistory
<1>3. ASSUME NEW u \in Users, NEW i \in Items, Read(r, u, i) \/ Status(r, u, i) \/ Remove(r, u, i)
      PROVE  ToldInv' /\ StatusInv'
  BY <1>1, <1>3, ReadBegins, StatusBegins, RemoveBegins, EndingHistory, BeginningHistory
<1>4. ASSUME NEW u \in Users, ReadAll(r, u) PROVE ToldInv' /\ StatusInv'
  BY <1>1, <1>4, ReadAllBegins, BeginningHistory
<1>5. ASSUME Insert(r) PROVE ToldInv' /\ StatusInv'  BY <1>1, <1>5, InsertTold
<1>6. ASSUME Names(r) PROVE ToldInv' /\ StatusInv'
  BY <1>1, <1>6, NamesBegins, BeginningHistory
<1>7. ASSUME Write(r) PROVE ToldInv' /\ StatusInv'
  <2>1. CASE req[r].op = "readAll" \/ Present(req[r].id)
    BY <1>1, <1>7, <2>1, WriteTold, WriteStatus DEF Writes
  <2>2. CASE ~(req[r].op = "readAll" \/ Present(req[r].id))
    <3>1. At(r, "write") /\ Answer(r, "notFound") /\ UNCHANGED item /\ Quiet
      BY <1>7, <2>2 DEF Write
    <3> QED  BY <1>1, <3>1, RefusalEnds, EndingHistory DEF At
  <2> QED  BY <2>1, <2>2
<1>8. ASSUME Delete(r) PROVE ToldInv' /\ StatusInv'
  BY <1>1, <1>8, DeleteEnds, EndingHistory
<1>9. ASSUME Tell(r) PROVE ToldInv' /\ StatusInv'  BY <1>1, <1>9, TellTold, TellStatus
<1>10. ASSUME Fail(r) PROVE ToldInv' /\ StatusInv'
  <2>1. Answer(r, "failed") /\ ~At(r, "done") /\ UNCHANGED <<item, told, lastTold>>
    BY <1>10 DEF Fail, InFlight
  <2> QED  BY <1>1, <2>1, AnswerEnds, EndingHistory DEF Results
<1> QED  BY <1>2, <1>3, <1>4, <1>5, <1>6, <1>7, <1>8, <1>9, <1>10 DEF Handle

LEMMA InitHistory == Init => HistoryInv
<1> SUFFICES ASSUME Init PROVE ToldInv /\ StatusInv  BY InitInv DEF HistoryInv
<1>1. /\ \A r \in Requests :
           /\ req[r].pc = "new" /\ req[r].op = "none" /\ req[r].list = {}
           /\ req[r].result = "none"
      /\ \A i \in Items : told[i] = {} /\ lastTold[i] = NULL
  BY DEF Init, NewRequest
<1>2. \A i \in Items :
        /\ item[i].status = NULL /\ item[i].read = FALSE
        /\ i \in Requests => item[i].state = "absent"
  BY SeedsAreNoRequests DEF Init, NoItem
<1>3. Requests \subseteq Items /\ NULL \notin Requests  BY SeedsAreNoRequests DEF Items
<1>4. ToldInv
  BY <1>1, <1>2, <1>3
     DEF ToldInv, Unborn, Fits, Late, Announced, PastRead, Past, Overtaken, BothTell, At
<1>5. StatusInv
  BY <1>1, <1>2, <1>3 DEF StatusInv, ShownSet, StatusSet, StatusWaits, Shown, At
<1> QED  BY <1>4, <1>5

LEMMA NextHistory == HistoryInv /\ [Next]_vars => HistoryInv'
<1> SUFFICES ASSUME HistoryInv, [Next]_vars PROVE ToldInv' /\ StatusInv'
  BY NextInv DEF HistoryInv
<1>1. CASE UNCHANGED inboxVars
  <2>1. Ending  BY <1>1 DEF Ending, inboxVars
  <2> QED  BY <2>1, EndingHistory
<1>2. CASE Die
  <2>1. Ending  BY <1>2, DieEnds DEF HistoryInv
  <2> QED  BY <2>1, EndingHistory
<1>3. ASSUME NEW r \in Requests, Handle(r) PROVE ToldInv' /\ StatusInv'
  BY <1>3, HandleHistory
<1> QED  BY <1>1, <1>2, <1>3 DEF Next, Terminated, vars

LEMMA HistoryAlways == Spec => []HistoryInv  BY InitHistory, NextHistory, PTL DEF Spec

(***************************************************************************)
(* The sender is told that an item was read; twice only by requests that   *)
(* overlapped, never only if the teller failed or is about to tell, or if  *)
(* the notification arrived while markAllRead had made its list            *)
(* (notifications.service.ts:185-200, 221-240; tasks.service.ts:157-171).  *)
(***************************************************************************)
THEOREM ReadToldCorrect == Spec => []ReadToldOnce
<1>1. ASSUME HistoryInv, NEW i \in Items, NEW r \in told[i], NEW s \in told[i], r # s
      PROVE  r \in req[s].with \/ s \in req[r].with
  <2>1. r \in Requests /\ s \in Requests  BY <1>1, Domains DEF HistoryInv
  <2>2. PastRead(r, i) /\ PastRead(s, i) /\ BothTell(r, s, i)
    BY <1>1, <2>1 DEF HistoryInv, ToldInv
  <2> QED  BY <1>1, <2>2 DEF PastRead, Past, BothTell
<1>2. HistoryInv => ToldAtMostOnce  BY <1>1 DEF ToldAtMostOnce
<1>3. HistoryInv => ToldAtLeastOnce
  BY DEF HistoryInv, ToldInv, Announced, ToldAtLeastOnce
<1>4. HistoryInv => ReadToldOnce  BY <1>2, <1>3 DEF ReadToldOnce
<1> QED  BY <1>4, HistoryAlways, PTL

(***************************************************************************)
(* The status announced last is the status of the task, unless whoever set *)
(* it failed or is about to tell, or the announcements of two updates that *)
(* overlapped came in the other order (tasks.service.ts:133-145).          *)
(***************************************************************************)
THEOREM StatusShownCorrect == Spec => []StatusShown
<1>1. ASSUME HistoryInv, NEW i \in Items, Present(i), lastTold[i] # item[i].status
      PROVE  \/ At(item[i].status, "tell") \/ req[item[i].status].result = "failed"
             \/ lastTold[i] \in req[item[i].status].with
  <2>1. ShownSet(i) /\ item[i].status \in Requests \cup {NULL}
    BY <1>1, Domains DEF HistoryInv, StatusInv
  <2>2. item[i].status \in Requests  BY <1>1, <2>1 DEF ShownSet
  <2>3. Shown(i, item[i].status)  BY <1>1, <2>2 DEF HistoryInv, StatusInv
  <2> QED  BY <1>1, <2>3 DEF Shown
<1>2. HistoryInv => StatusShown  BY <1>1 DEF StatusShown
<1> QED  BY <1>2, HistoryAlways, PTL
=============================================================================
