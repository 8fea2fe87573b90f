------------------------------ MODULE Realtime ------------------------------
(***************************************************************************)
(* The sockets of the clients and the register of RealtimeGateway, in the  *)
(* memory of the process.  A socket's token is verified asynchronously;    *)
(* the room of a user is what socket.io holds: his verified open sockets.  *)
(* A module that emits EXTENDS this one and says when.                     *)
(***************************************************************************)
EXTENDS FiniteSets

CONSTANTS
  Users,
  Sockets,  \* a reconnecting client has a new socket
  NULL

ASSUME NullIsNoUser == NULL \notin Users

VARIABLES
  sock,     \* the sockets
  register  \* userSockets; a user without entry has the empty set

realtimeVars == <<sock, register>>

(***************************************************************************)
(* A socket is "gone" if its client left while the token was verified, and *)
(* "stale" when the verification of a gone one has registered it all the   *)
(* same.                                                                   *)
(***************************************************************************)
SocketState ==
  [ state: {"new", "verifying", "gone", "joined", "stale", "closed"},
    user: Users \cup {NULL} ]

RealtimeTypeOK ==
  /\ sock \in [Sockets -> SocketState]
  /\ register \in [Users -> SUBSET Sockets]

RealtimeInit ==
  /\ sock = [c \in Sockets |-> [ state |-> "new", user |-> NULL ]]
  /\ register = [u \in Users |-> {}]

----------------------------------------------------------------------------
Is(c, state) == sock[c].state = state

Turn(c, state) == sock' = [sock EXCEPT ![c].state = state]

Room(u) == {c \in Sockets : Is(c, "joined") /\ sock[c].user = u}

\* The sockets that emitToAll reaches: the verification is not waited for.
Everybody == {c \in Sockets : Is(c, "verifying") \/ Is(c, "joined")}

\* The sockets that emitToUser reaches: it asks the register, then the room.
Reached(u) == IF register[u] = {} THEN {} ELSE Room(u)

\* handleConnection until it waits for verifyAsync, with a token of user u.
Connect(c, u) ==
  /\ Is(c, "new")
  /\ sock' = [sock EXCEPT ![c] = [ state |-> "verifying", user |-> u ]]
  /\ UNCHANGED register

\* There is a token neither in the handshake nor in the header.
NoToken(c) ==
  /\ Is(c, "new")
  /\ Turn(c, "closed")
  /\ UNCHANGED register

\* The token is expired, not signed by this server, or names nobody.
RefuseSocket(c) ==
  /\ Is(c, "verifying") \/ Is(c, "gone")
  /\ Turn(c, "closed")
  /\ UNCHANGED register

\* After verifyAsync: join, which does nothing on a closed socket, and the
\* register.
Verified(c) ==
  /\ Is(c, "verifying") \/ Is(c, "gone")
  /\ Turn(c, IF Is(c, "gone") THEN "stale" ELSE "joined")
  /\ register' = [register EXCEPT ![sock[c].user] = @ \cup {c}]

\* Mutant: the entry goes with the first tab that is closed.
CloseEntry(c) ==
  /\ Is(c, "verifying") \/ Is(c, "joined")
  /\ Turn(c, IF Is(c, "joined") THEN "closed" ELSE "gone")
  /\ register' = IF Is(c, "joined") THEN [register EXCEPT ![sock[c].user] = {}] ELSE register

\* Mutant: handleDisconnect forgets the register.
CloseForget(c) ==
  /\ Is(c, "verifying") \/ Is(c, "joined")
  /\ Turn(c, IF Is(c, "joined") THEN "closed" ELSE "gone")
  /\ UNCHANGED register

\* The client goes; handleDisconnect finds no userId before the verification.
Close(c) ==
  /\ Is(c, "verifying") \/ Is(c, "joined")
  /\ Turn(c, IF Is(c, "joined") THEN "closed" ELSE "gone")
  /\ register' = IF Is(c, "joined")
                 THEN [register EXCEPT ![sock[c].user] = @ \ {c}] ELSE register

\* disconnectUser, called when a session is ended by force.
DisconnectUser(u) ==
  /\ register[u] # {}
  /\ sock' = [c \in Sockets |->
                IF c \in Room(u) THEN [sock[c] EXCEPT !.state = "closed"] ELSE sock[c]]
  /\ register' = [register EXCEPT ![u] = {}]

\* The process dies, and its memory with it.
Restart ==
  /\ \E c \in Sockets : ~Is(c, "new") /\ ~Is(c, "closed")
  /\ sock' = [c \in Sockets |->
                IF Is(c, "new") THEN sock[c] ELSE [sock[c] EXCEPT !.state = "closed"]]
  /\ register' = [u \in Users |-> {}]

Realtime ==
  \/ \E c \in Sockets :
       (\E u \in Users : Connect(c, u)) \/ NoToken(c) \/ RefuseSocket(c) \/ Verified(c) \/ Close(c)
  \/ \E u \in Users : DisconnectUser(u)

----------------------------------------------------------------------------
(***************************************************************************)
(* The register lists every socket of a user's room, or emitToUser would   *)
(* tell nobody; beyond them it lists only sockets whose client left while  *)
(* the token was verified, for which handleDisconnect found no user        *)
(* (realtime.gateway.ts:62-90, 96-97).                                     *)
(***************************************************************************)
RegisterOfRoom ==
  \A u \in Users :
    /\ Room(u) \subseteq register[u]
    /\ register[u] \subseteq Room(u) \cup {c \in Sockets : Is(c, "stale") /\ sock[c].user = u}
=============================================================================
