---------------------------- MODULE AuthSession ----------------------------
(***************************************************************************)
(* The session life cycle of one user account: AuthService (login, token   *)
(* rotation, logout, unlock, force-logout, password change and reset) and  *)
(* JwtStrategy.validate, which every authenticated request passes through, *)
(* with the sockets that RealtimeGateway holds for the user.               *)
(* Every statement these handlers run is filtered by the user's id, so one *)
(* account is the whole state they share.                                  *)
(*                                                                         *)
(* A handler is asynchronous and runs no transaction: each awaited query   *)
(* is a step of its own, and what it read before an await is used after    *)
(* it.  A request is served once, so a request's name also identifies what *)
(* it creates: the refresh-token row it inserts and the jti of the access  *)
(* token it signs.  The epoch claim of that access token is the epoch of   *)
(* the row.                                                                *)
(***************************************************************************)
EXTENDS Naturals, FiniteSets

CONSTANTS
  Requests,     \* HTTP requests; each is served at most once
  Operations,   \* what requests may ask for, a subset of OperationNames
  NULL,         \* the SQL null, and the absence of a token
  MaxAttempts,  \* LOGIN_MAX_ATTEMPTS
  IdleWindow,   \* SESSION_IDLE_MINUTES, in clock units
  TouchAge,     \* the 60 s between two writes of lastSeenAt by JwtStrategy
  RefreshTtl,   \* JWT_REFRESH_EXPIRATION
  MaxClock,     \* bound: the clock stops here
  MaxAborts     \* bound: how many requests may die in flight

OperationNames ==
  { "login", "refresh", "api", "logout", "changePassword", "resetPassword",
    "unlock", "forceLogout", "setActive", "socket" }

ASSUME RequestsAssumption == NULL \notin Requests
ASSUME OperationsAssumption == Operations \subseteq OperationNames
ASSUME BoundsAssumption ==
  /\ MaxAttempts \in Nat \ {0}
  /\ IdleWindow \in Nat \ {0}
  /\ TouchAge \in Nat
  /\ RefreshTtl \in Nat \ {0}
  /\ MaxClock \in Nat
  /\ MaxAborts \in Nat

VARIABLES
  user,    \* the users row
  token,   \* the refresh_tokens rows, by the request that inserts them
  denied,  \* the denylist: the jtis of the access tokens revoked by a logout
  sockets, \* the access tokens that hold a socket in the user's room
  req,     \* the requests: program counter and local variables
  now      \* the clock

vars == <<user, token, denied, sockets, req, now>>

(***************************************************************************)
(* The columns of the users row that sessions depend on.  lockedAt is only *)
(* ever compared with null.                                                *)
(***************************************************************************)
UserRow ==
  [ isActive: BOOLEAN, locked: BOOLEAN, failedLoginAttempts: Nat,
    sessionEpoch: Nat, lastSeenAt: Nat \cup {NULL} ]

(***************************************************************************)
(* A row of refresh_tokens.  isRevoked is set in the states "spent" and    *)
(* "revoked": the code cannot tell a token consumed by a rotation from one *)
(* that was revoked, the model can.  parent and family are history: the    *)
(* token this one replaced and the login the chain began with.             *)
(***************************************************************************)
TokenStates == { "absent", "live", "spent", "revoked", "purged" }

TokenRow ==
  [ state: TokenStates, expiresAt: Nat, sessionEpoch: Nat,
    parent: Requests \cup {NULL}, family: Requests \cup {NULL} ]

NoToken ==
  [ state |-> "absent", expiresAt |-> 0, sessionEpoch |-> 0,
    parent |-> NULL, family |-> NULL ]

ProgramCounters ==
  { "new", "done", "aborted",
    "countFailure", "lock", "checkSession", "takeOver", "revokeOld", "issue",
    "purge",
    "claim", "diagnose", "revokeAll", "reload", "reissue", "touch",
    "validate", "markSeen", "serve", "denyJti", "clearSeen",
    "setPassword", "logoutAll", "forceRevoke",
    "activate", "deactivate", "keepInactive", "cutSockets", "verifySocket" }

Results == { "none", "granted", "served", "refused", "conflict", "replay" }

(***************************************************************************)
(* A request's local variables: the refresh token (or the pair of tokens)  *)
(* the client presents, sessionEpoch and lastSeenAt as the handler read    *)
(* them, the counter returned by the increment, and stored.expiresAt.      *)
(***************************************************************************)
RequestState ==
  [ pc: ProgramCounters, op: OperationNames \cup {"none"}, result: Results,
    presented: Requests \cup {NULL}, sessionEpoch: Nat,
    lastSeenAt: Nat \cup {NULL}, attempts: Nat, expiresAt: Nat ]

NewRequest ==
  [ pc |-> "new", op |-> "none", result |-> "none", presented |-> NULL,
    sessionEpoch |-> 0, lastSeenAt |-> NULL, attempts |-> 0, expiresAt |-> 0 ]

TypeOK ==
  /\ user \in UserRow
  /\ token \in [Requests -> TokenRow]
  /\ denied \subseteq Requests
  /\ sockets \subseteq Requests
  /\ req \in [Requests -> RequestState]
  /\ now \in Nat

Init ==
  /\ user = [ isActive |-> TRUE, locked |-> FALSE, failedLoginAttempts |-> 0,
              sessionEpoch |-> 0, lastSeenAt |-> NULL ]
  /\ token = [t \in Requests |-> NoToken]
  /\ denied = {}
  /\ sockets = {}
  /\ req = [r \in Requests |-> NewRequest]
  /\ now = 0

----------------------------------------------------------------------------
(***************************************************************************)
(* Moving a request.                                                       *)
(***************************************************************************)
At(r, pc) == req[r].pc = pc

\* The request is served for the first time and asks for op.
Receive(r, op) == At(r, "new") /\ op \in Operations

\* The program counter and the local variables of r become x.
Become(r, x) == req' = [req EXCEPT ![r] = x]

\* The same request goes on at pc.
Continue(r, pc) == Become(r, [req[r] EXCEPT !.pc = pc])

\* The handler returns or throws: its local variables are gone.
Answer(r, op, result) ==
  Become(r, [NewRequest EXCEPT !.pc = "done", !.op = op, !.result = result])

\* A response with tokens was sent: the client holds the pair named r.
Granted(r) == At(r, "done") /\ req[r].result = "granted"

\* updateMany({ userId, isRevoked: false }, { isRevoked: true }).
RevokeLiveTokens ==
  token' = [t \in Requests |->
              IF token[t].state = "live"
              THEN [token[t] EXCEPT !.state = "revoked"] ELSE token[t]]

(***************************************************************************)
(* RealtimeGateway.disconnectUser closes every socket in the user's room.  *)
(***************************************************************************)
DisconnectUser == sockets' = {}

(***************************************************************************)
(* login: the user is read once, with bcrypt.compare right behind it; what *)
(* the handler decides from now on it decides from this copy.              *)
(***************************************************************************)
LoginRead(r) ==
  /\ Receive(r, "login")
  /\ \/ \* locked, or inactive
        /\ user.locked \/ ~user.isActive
        /\ Answer(r, "login", "refused")
     \/ \* the password does not match
        /\ ~user.locked /\ user.isActive
        /\ Become(r, [req[r] EXCEPT !.op = "login", !.pc = "countFailure"])
     \/ \* the password matches
        /\ ~user.locked /\ user.isActive
        /\ Become(r, [req[r] EXCEPT !.op = "login", !.pc = "checkSession",
                                    !.sessionEpoch = user.sessionEpoch,
                                    !.lastSeenAt = user.lastSeenAt])
  /\ UNCHANGED <<user, token, denied, sockets, now>>

\* Mutant: locks one failure too late.
LoginCountFailureLate(r) ==
  LET attempts == user.failedLoginAttempts + 1
  IN  /\ At(r, "countFailure")
      /\ user' = [user EXCEPT !.failedLoginAttempts = attempts]
      /\ IF attempts > MaxAttempts
         THEN Become(r, [req[r] EXCEPT !.pc = "lock", !.attempts = attempts])
         ELSE Answer(r, "login", "refused")
      /\ UNCHANGED <<token, denied, sockets, now>>

\* failedLoginAttempts: { increment: 1 }, which returns the new counter.
LoginCountFailure(r) ==
  LET attempts == user.failedLoginAttempts + 1
  IN  /\ At(r, "countFailure")
      /\ user' = [user EXCEPT !.failedLoginAttempts = attempts]
      /\ \/ /\ attempts >= MaxAttempts
            /\ Become(r, [req[r] EXCEPT !.pc = "lock", !.attempts = attempts])
         \/ /\ attempts < MaxAttempts
            /\ Answer(r, "login", "refused")
      /\ UNCHANGED <<token, denied, sockets, now>>

LoginLock(r) ==
  /\ At(r, "lock")
  /\ user' = [user EXCEPT !.locked = TRUE]
  /\ Answer(r, "login", "refused")
  /\ UNCHANGED <<token, denied, sockets, now>>

\* The single-session rule: "the first session wins".
RecentlyActive(r) ==
  req[r].lastSeenAt # NULL /\ req[r].lastSeenAt + IdleWindow > now

ActiveSessionExists ==
  \E t \in Requests : token[t].state = "live" /\ token[t].expiresAt > now

LoginCheckSession(r) ==
  /\ At(r, "checkSession")
  /\ \/ /\ ActiveSessionExists /\ RecentlyActive(r)
        /\ Answer(r, "login", "conflict")
     \/ /\ ~(ActiveSessionExists /\ RecentlyActive(r))
        /\ Continue(r, "takeOver")
  /\ UNCHANGED <<user, token, denied, sockets, now>>

\* Mutant: the take-over forgets the new epoch.
LoginTakeOverSameEpoch(r) ==
  /\ At(r, "takeOver")
  /\ user' = [user EXCEPT !.failedLoginAttempts = 0, !.locked = FALSE,
                          !.lastSeenAt = now]
  /\ Continue(r, "revokeOld")
  /\ UNCHANGED <<token, denied, sockets, now>>

\* The next epoch comes from the copy of the user, not from the row.
LoginTakeOver(r) ==
  /\ At(r, "takeOver")
  /\ user' = [user EXCEPT !.failedLoginAttempts = 0, !.locked = FALSE,
                          !.sessionEpoch = req[r].sessionEpoch + 1,
                          !.lastSeenAt = now]
  /\ Continue(r, "revokeOld")
  /\ UNCHANGED <<token, denied, sockets, now>>

LoginRevokeOld(r) ==
  /\ At(r, "revokeOld")
  /\ RevokeLiveTokens
  /\ Continue(r, "issue")
  /\ DisconnectUser
  /\ UNCHANGED <<user, denied, now>>

LoginIssue(r) ==
  /\ At(r, "issue")
  /\ token' = [token EXCEPT ![r] =
       [ state |-> "live", expiresAt |-> now + RefreshTtl,
         sessionEpoch |-> req[r].sessionEpoch + 1,
         parent |-> NULL, family |-> r ]]
  /\ Continue(r, "purge")
  /\ UNCHANGED <<user, denied, sockets, now>>

\* generateTokens deletes the user's rows that are revoked and expired.
LoginPurge(r) ==
  /\ At(r, "purge")
  /\ token' = [t \in Requests |->
                 IF token[t].state \in {"spent", "revoked"} /\ token[t].expiresAt < now
                 THEN [token[t] EXCEPT !.state = "purged"] ELSE token[t]]
  /\ Answer(r, "login", "granted")
  /\ UNCHANGED <<user, denied, sockets, now>>

----------------------------------------------------------------------------
(***************************************************************************)
(* refreshTokens: rotation with replay detection.                          *)
(***************************************************************************)
RefreshRead(r) ==
  /\ Receive(r, "refresh")
  /\ \E t \in Requests :
       /\ Granted(t)
       /\ \/ /\ ~user.isActive
             /\ Answer(r, "refresh", "refused")
          \/ /\ user.isActive
             /\ Become(r, [req[r] EXCEPT !.op = "refresh", !.pc = "claim",
                                         !.presented = t,
                                         !.sessionEpoch = user.sessionEpoch])
  /\ UNCHANGED <<user, token, denied, sockets, now>>

\* Mutant: WHERE without isRevoked = false, so a consumed token counts too.
RefreshClaimUnfiltered(r) ==
  LET t == req[r].presented
  IN  /\ At(r, "claim")
      /\ IF token[t].state \in {"live", "spent"}
         THEN token' = [token EXCEPT ![t].state = "spent"] /\ Continue(r, "reload")
         ELSE UNCHANGED token /\ Continue(r, "diagnose")
      /\ UNCHANGED <<user, denied, sockets, now>>

\* One UPDATE ... WHERE isRevoked = false: only one request gets count = 1.
RefreshClaim(r) ==
  LET t == req[r].presented
  IN  /\ At(r, "claim")
      /\ \/ /\ token[t].state = "live"
            /\ token' = [token EXCEPT ![t].state = "spent"]
            /\ Continue(r, "reload")
         \/ /\ token[t].state # "live"
            /\ Continue(r, "diagnose")
            /\ UNCHANGED token
      /\ UNCHANGED <<user, denied, sockets, now>>

\* Count 0: unknown (purged), superseded by a newer epoch, or replayed.
RefreshDiagnose(r) ==
  LET t == req[r].presented
      exists == token[t].state \notin {"absent", "purged"}
      superseded == exists /\ token[t].sessionEpoch # req[r].sessionEpoch
      isRevoked == exists /\ token[t].state # "live"
  IN  /\ At(r, "diagnose")
      /\ \/ /\ isRevoked /\ ~superseded
            /\ Continue(r, "revokeAll")
         \/ /\ ~isRevoked \/ superseded
            /\ Answer(r, "refresh", "refused")
      /\ UNCHANGED <<user, token, denied, sockets, now>>

RefreshRevokeAll(r) ==
  /\ At(r, "revokeAll")
  /\ RevokeLiveTokens
  /\ Answer(r, "refresh", "replay")
  /\ UNCHANGED <<user, denied, sockets, now>>

\* Mutant: the epoch of the stored token is not compared.
RefreshReloadAnyEpoch(r) ==
  LET t == req[r].presented
  IN  /\ At(r, "reload")
      /\ IF token[t].state # "purged" /\ token[t].expiresAt >= now
         THEN Become(r, [req[r] EXCEPT !.pc = "reissue", !.expiresAt = token[t].expiresAt])
         ELSE Answer(r, "refresh", "refused")
      /\ UNCHANGED <<user, token, denied, sockets, now>>

\* The consumed row is read again for its expiry and its epoch.
RefreshReload(r) ==
  LET t == req[r].presented
      usable == /\ token[t].state # "purged"
                /\ token[t].expiresAt >= now
                /\ token[t].sessionEpoch = req[r].sessionEpoch
  IN  /\ At(r, "reload")
      /\ \/ /\ usable
            /\ Become(r, [req[r] EXCEPT !.pc = "reissue", !.expiresAt = token[t].expiresAt])
         \/ /\ ~usable
            /\ Answer(r, "refresh", "refused")
      /\ UNCHANGED <<user, token, denied, sockets, now>>

\* Mutant: the presented token is un-revoked instead of replaced.
RefreshReissueSame(r) ==
  /\ At(r, "reissue")
  /\ token' = [token EXCEPT ![req[r].presented].state = "live"]
  /\ Continue(r, "touch")
  /\ UNCHANGED <<user, denied, sockets, now>>

\* The successor keeps the expiry, and takes its epoch from the user copy.
RefreshReissue(r) ==
  /\ At(r, "reissue")
  /\ token' = [token EXCEPT ![r] =
       [ state |-> "live", expiresAt |-> req[r].expiresAt,
         sessionEpoch |-> req[r].sessionEpoch,
         parent |-> req[r].presented,
         family |-> token[req[r].presented].family ]]
  /\ Continue(r, "touch")
  /\ UNCHANGED <<user, denied, sockets, now>>

RefreshTouch(r) ==
  /\ At(r, "touch")
  /\ user' = [user EXCEPT !.lastSeenAt = now]
  /\ Answer(r, "refresh", "granted")
  /\ UNCHANGED <<token, denied, sockets, now>>

----------------------------------------------------------------------------
(***************************************************************************)
(* JwtStrategy.validate runs before every authenticated handler.  The      *)
(* client presents the access token of a pair it was granted; one whose    *)
(* signature or exp is bad is refused by passport before this code.        *)
(***************************************************************************)
AuthenticatedOps == { "api", "logout", "changePassword" }

ValidateDenylist(r) ==
  \E op \in AuthenticatedOps, a \in Requests :
    /\ Receive(r, op)
    /\ Granted(a)
    /\ \/ /\ a \in denied
          /\ Answer(r, op, "refused")
       \/ /\ a \notin denied
          /\ Become(r, [req[r] EXCEPT !.op = op, !.pc = "validate", !.presented = a])
    /\ UNCHANGED <<user, token, denied, sockets, now>>

\* Where a validated request's own handler begins.
ServeAt(op) == IF op = "changePassword" THEN "setPassword" ELSE "serve"

SeenLongAgo == user.lastSeenAt # NULL => now > user.lastSeenAt + TouchAge

ValidateUser(r) ==
  LET accepted == /\ user.isActive
                  /\ token[req[r].presented].sessionEpoch = user.sessionEpoch
  IN  /\ At(r, "validate")
      /\ \/ /\ ~accepted
            /\ Answer(r, req[r].op, "refused")
         \/ /\ accepted /\ SeenLongAgo
            /\ Become(r, [req[r] EXCEPT !.pc = "markSeen", !.lastSeenAt = now])
         \/ /\ accepted /\ ~SeenLongAgo
            /\ Continue(r, ServeAt(req[r].op))
      /\ UNCHANGED <<user, token, denied, sockets, now>>

\* lastSeenAt takes the time at which the user was read.
MarkSeen(r) ==
  /\ At(r, "markSeen")
  /\ user' = [user EXCEPT !.lastSeenAt = req[r].lastSeenAt]
  /\ Become(r, [req[r] EXCEPT !.pc = ServeAt(req[r].op), !.lastSeenAt = NULL])
  /\ UNCHANGED <<token, denied, sockets, now>>

\* Any handler that only needs the caller to be authenticated.
ServeApi(r) ==
  /\ At(r, "serve") /\ req[r].op = "api"
  /\ Answer(r, "api", "served")
  /\ UNCHANGED <<user, token, denied, sockets, now>>

\* logout: revoke the refresh token of the pair ...
LogoutRevoke(r) ==
  LET t == req[r].presented
  IN  /\ At(r, "serve") /\ req[r].op = "logout"
      /\ token' = [token EXCEPT ![t].state = IF @ = "live" THEN "revoked" ELSE @]
      /\ Continue(r, "denyJti")
      /\ UNCHANGED <<user, denied, sockets, now>>

\* ... put the access token's jti on the denylist ...
LogoutDeny(r) ==
  /\ At(r, "denyJti")
  /\ denied' = denied \cup {req[r].presented}
  /\ Continue(r, "clearSeen")
  /\ UNCHANGED <<user, token, sockets, now>>

\* ... and mark the session closed, so that another login may enter.
LogoutClearSeen(r) ==
  /\ At(r, "clearSeen")
  /\ user' = [user EXCEPT !.lastSeenAt = NULL]
  /\ Answer(r, "logout", "served")
  /\ UNCHANGED <<token, denied, sockets, now>>

----------------------------------------------------------------------------
(***************************************************************************)
(* Passwords.  changePassword compares the current password first;         *)
(* resetPassword is another user's request, and its role check reads no    *)
(* state of this module.  Both end in logoutAll.                           *)
(***************************************************************************)
ChangePasswordReject(r) ==
  /\ At(r, "setPassword") /\ req[r].op = "changePassword"
  /\ Answer(r, "changePassword", "refused")
  /\ UNCHANGED <<user, token, denied, sockets, now>>

ResetPasswordBegin(r) ==
  /\ Receive(r, "resetPassword")
  /\ Become(r, [req[r] EXCEPT !.op = "resetPassword", !.pc = "setPassword"])
  /\ UNCHANGED <<user, token, denied, sockets, now>>

SetPassword(r) ==
  /\ At(r, "setPassword")
  /\ user' = [user EXCEPT !.sessionEpoch = @ + 1]
  /\ Continue(r, "logoutAll")
  /\ UNCHANGED <<token, denied, sockets, now>>

LogoutAll(r) ==
  /\ At(r, "logoutAll")
  /\ RevokeLiveTokens
  /\ Answer(r, req[r].op, "served")
  /\ DisconnectUser
  /\ UNCHANGED <<user, denied, now>>

(***************************************************************************)
(* What a SUPER_ADMIN or NOTARIO does to the account.                      *)
(***************************************************************************)
UnlockAccount(r) ==
  /\ Receive(r, "unlock")
  /\ user' = [user EXCEPT !.failedLoginAttempts = 0, !.locked = FALSE]
  /\ Answer(r, "unlock", "served")
  /\ UNCHANGED <<token, denied, sockets, now>>

\* Mutant: lastSeenAt is dated back instead of cleared.
ForceLogoutBumpBackdated(r) ==
  /\ Receive(r, "forceLogout")
  /\ user' = [user EXCEPT !.sessionEpoch = @ + 1, !.lastSeenAt = now - IdleWindow]
  /\ Become(r, [req[r] EXCEPT !.op = "forceLogout", !.pc = "forceRevoke"])
  /\ UNCHANGED <<token, denied, sockets, now>>

\* Mutant: the epoch starts over instead of growing.
ForceLogoutBumpReset(r) ==
  /\ Receive(r, "forceLogout")
  /\ user' = [user EXCEPT !.sessionEpoch = 0, !.lastSeenAt = NULL]
  /\ Become(r, [req[r] EXCEPT !.op = "forceLogout", !.pc = "forceRevoke"])
  /\ UNCHANGED <<token, denied, sockets, now>>

ForceLogoutBump(r) ==
  /\ Receive(r, "forceLogout")
  /\ user' = [user EXCEPT !.sessionEpoch = @ + 1, !.lastSeenAt = NULL]
  /\ Become(r, [req[r] EXCEPT !.op = "forceLogout", !.pc = "forceRevoke"])
  /\ UNCHANGED <<token, denied, sockets, now>>

ForceLogoutRevoke(r) ==
  /\ At(r, "forceRevoke")
  /\ RevokeLiveTokens
  /\ Answer(r, "forceLogout", "served")
  /\ DisconnectUser
  /\ UNCHANGED <<user, denied, now>>

(***************************************************************************)
(* UsersService.update with isActive: whether the sockets are closed after *)
(* the write is decided on the row as it was read before.                  *)
(***************************************************************************)
UpdateUserRead(r) ==
  /\ Receive(r, "setActive")
  /\ \E pc \in IF user.isActive THEN {"activate", "deactivate"}
                                ELSE {"activate", "keepInactive"} :
       Become(r, [req[r] EXCEPT !.op = "setActive", !.pc = pc])
  /\ UNCHANGED <<user, token, denied, sockets, now>>

SetActive(r) ==
  /\ \/ /\ At(r, "activate")
        /\ user' = [user EXCEPT !.isActive = TRUE]
        /\ Answer(r, "setActive", "served")
     \/ /\ At(r, "keepInactive")
        /\ user' = [user EXCEPT !.isActive = FALSE]
        /\ Answer(r, "setActive", "served")
     \/ /\ At(r, "deactivate")
        /\ user' = [user EXCEPT !.isActive = FALSE]
        /\ Continue(r, "cutSockets")
  /\ UNCHANGED <<token, denied, sockets, now>>

\* The sockets are closed only after the audit row was written.
DeactivateCut(r) ==
  /\ At(r, "cutSockets")
  /\ Answer(r, "setActive", "served")
  /\ DisconnectUser
  /\ UNCHANGED <<user, token, denied, now>>

----------------------------------------------------------------------------
(***************************************************************************)
(* RealtimeGateway.handleConnection verifies the signature and the exp of  *)
(* the access token, asynchronously, and then joins the user's room.       *)
(***************************************************************************)
SocketConnect(r) ==
  /\ Receive(r, "socket")
  /\ \E a \in Requests :
       /\ Granted(a)
       /\ Become(r, [req[r] EXCEPT !.op = "socket", !.pc = "verifySocket",
                                   !.presented = a])
  /\ UNCHANGED <<user, token, denied, sockets, now>>

SocketJoin(r) ==
  /\ At(r, "verifySocket")
  /\ sockets' = sockets \cup {req[r].presented}
  /\ Answer(r, "socket", "served")
  /\ UNCHANGED <<user, token, denied, now>>

\* handleDisconnect: the client goes away.
SocketLeave(a) ==
  /\ a \in sockets
  /\ sockets' = sockets \ {a}
  /\ UNCHANGED <<user, token, denied, req, now>>

----------------------------------------------------------------------------
\* A query fails or the process stops: the rest of the handler never runs.
Abort(r) ==
  /\ req[r].pc \notin {"new", "done", "aborted"}
  /\ Cardinality({x \in Requests : At(x, "aborted")}) < MaxAborts
  /\ Become(r, [NewRequest EXCEPT !.pc = "aborted", !.op = req[r].op,
                                   !.attempts = req[r].attempts])
  /\ UNCHANGED <<user, token, denied, sockets, now>>

Tick ==
  /\ now < MaxClock
  /\ now' = now + 1
  /\ UNCHANGED <<user, token, denied, sockets, req>>

\* Every request was answered or died, and the clock is at its bound.
Terminated ==
  /\ \A r \in Requests : req[r].pc \in {"done", "aborted"}
  /\ now = MaxClock
  /\ UNCHANGED vars

LoginStep(r) ==
  \/ LoginRead(r) \/ LoginCountFailure(r) \/ LoginLock(r)
  \/ LoginCheckSession(r) \/ LoginTakeOver(r) \/ LoginRevokeOld(r)
  \/ LoginIssue(r) \/ LoginPurge(r)

RefreshStep(r) ==
  \/ RefreshRead(r) \/ RefreshClaim(r) \/ RefreshDiagnose(r)
  \/ RefreshRevokeAll(r) \/ RefreshReload(r) \/ RefreshReissue(r)
  \/ RefreshTouch(r)

AuthenticatedStep(r) ==
  \/ ValidateDenylist(r) \/ ValidateUser(r) \/ MarkSeen(r) \/ ServeApi(r)
  \/ LogoutRevoke(r) \/ LogoutDeny(r) \/ LogoutClearSeen(r)

AccountStep(r) ==
  \/ ChangePasswordReject(r) \/ ResetPasswordBegin(r) \/ SetPassword(r)
  \/ LogoutAll(r) \/ UnlockAccount(r) \/ ForceLogoutBump(r)
  \/ ForceLogoutRevoke(r) \/ UpdateUserRead(r) \/ SetActive(r)
  \/ DeactivateCut(r)

SocketStep(r) == SocketConnect(r) \/ SocketJoin(r)

Next ==
  \/ \E r \in Requests :
       LoginStep(r) \/ RefreshStep(r) \/ AuthenticatedStep(r)
       \/ AccountStep(r) \/ SocketStep(r) \/ Abort(r) \/ SocketLeave(r)
  \/ Tick
  \/ Terminated

Spec == Init /\ [][Next]_vars

(***************************************************************************)
(* Clients that never overlap two logins of one account.  The code does    *)
(* not enforce this; some guarantees hold only under it.                   *)
(***************************************************************************)
LoginInFlight(r) ==
  req[r].pc \in { "countFailure", "lock", "checkSession", "takeOver",
                  "revokeOld", "issue", "purge" }

OneLoginAtATime ==
  \A r, s \in Requests : LoginInFlight(r) /\ LoginInFlight(s) => r = s

SerialSpec == Init /\ [][Next /\ OneLoginAtATime']_vars

----------------------------------------------------------------------------
Issued(t) == token[t].state # "absent"
Live(t) == token[t].state = "live"

\* A refresh token that /auth/refresh would still accept.
Usable(t) ==
  Live(t) /\ token[t].expiresAt >= now /\ token[t].sessionEpoch = user.sessionEpoch

(***************************************************************************)
(* A chain of rotations has one head: however requests that present the    *)
(* same or an older refresh token interleave, a session never has two      *)
(* unrevoked refresh tokens (auth.service.ts:302-308, "eliminates the      *)
(* TOCTOU race").                                                          *)
(***************************************************************************)
OneLivePerSession ==
  \A s, t \in Requests :
    Live(s) /\ Live(t) /\ token[s].family = token[t].family => s = t

(***************************************************************************)
(* Rotation never prolongs a session or moves it to a newer epoch: every   *)
(* token of a chain has the expiry and the epoch of the login it began     *)
(* with (auth.service.ts:361-377, 392-399).                                *)
(***************************************************************************)
RotationKeepsSession ==
  \A t \in Requests :
    Issued(t) =>
      /\ Issued(token[t].family)
      /\ token[t].expiresAt = token[token[t].family].expiresAt
      /\ token[t].sessionEpoch = token[token[t].family].sessionEpoch

(***************************************************************************)
(* Once the failures reach LOGIN_MAX_ATTEMPTS the account is locked, or    *)
(* the request that counted the last one is about to lock it, or died      *)
(* between its two updates (auth.service.ts:98-107).                       *)
(***************************************************************************)
ThresholdLocks ==
  user.failedLoginAttempts >= MaxAttempts =>
    \/ user.locked
    \/ \E r \in Requests : /\ req[r].pc \in {"lock", "aborted"}
                           /\ req[r].attempts >= MaxAttempts

(***************************************************************************)
(* An account has one session: two usable refresh tokens in the hands of   *)
(* clients belong to one login (schema.prisma:62-65, README.md:349).       *)
(***************************************************************************)
SingleSession ==
  \A s, t \in Requests :
    Usable(s) /\ Usable(t) => token[s].family = token[t].family

(***************************************************************************)
(* An access token that a newer epoch made stale stays stale               *)
(* (auth.service.ts:488-492, jwt.strategy.ts:48-50).                       *)
(***************************************************************************)
StaleAccessStaysStale ==
  [][\A a \in Requests :
       Granted(a) /\ token[a].sessionEpoch # user.sessionEpoch =>
         token[a].sessionEpoch # user'.sessionEpoch]_vars

(***************************************************************************)
(* Only a SUPER_ADMIN or NOTARIO unlocks a locked account                  *)
(* (auth.service.ts:75-76, schema.prisma:57-59).                           *)
(***************************************************************************)
OnlyUnlockUnlocks ==
  [][user.locked /\ ~user'.locked =>
       \E r \in Requests : req'[r] # req[r] /\ req'[r].op = "unlock"]_vars

(***************************************************************************)
(* A login that read the current epoch and has no other request beside it  *)
(* is refused with 409 only on behalf of a session that still works: after *)
(* a force-logout the user "can log in again at once", even though his     *)
(* former session never logged out (auth.service.ts:488-492).              *)
(***************************************************************************)
Alone(r) == \A x \in Requests \ {r} : req[x].pc \in {"new", "done", "aborted"}

ConflictMeansUsableSession ==
  [][\A r \in Requests :
       /\ req[r].result # "conflict" /\ req'[r].result = "conflict"
       /\ Alone(r) /\ req[r].sessionEpoch = user.sessionEpoch
       => \E t \in Requests : Usable(t)]_vars

(***************************************************************************)
(* Every session is revoked for a replay only when the token presented was *)
(* really consumed before (auth.service.ts:317-319, 333-335).              *)
(***************************************************************************)
ReplayOnlyOnConsumed ==
  \A r \in Requests :
    At(r, "revokeAll") => token[req[r].presented].state \in {"spent", "purged"}

(***************************************************************************)
(* The sockets in the user's room belong to the current session: an access *)
(* token whose epoch is not the account's is rejected (README.md:349), and *)
(* a take-over or a force-logout cuts the sockets of the device before     *)
(* (auth.service.ts:199-200, realtime.gateway.ts:112).                     *)
(***************************************************************************)
SocketsFollowSession ==
  (\A r \in Requests : req[r].pc \in {"new", "done", "aborted"}) =>
    \A a \in sockets : token[a].sessionEpoch = user.sessionEpoch

----------------------------------------------------------------------------
(***************************************************************************)
(* The line of each session, read off the rows and the rotations in        *)
(* flight; with it AuthSession implements SessionLine.                     *)
(***************************************************************************)
Rotating(r) == At(r, "reload") \/ At(r, "reissue")

Heads(f) == {t \in Requests : Live(t) /\ token[t].family = f}

Rotators(f) == {r \in Requests : Rotating(r) /\ token[req[r].presented].family = f}

LineOf(f) ==
  CASE Heads(f) # {} -> [phase |-> "live", head |-> CHOOSE t \in Heads(f) : TRUE]
    [] Heads(f) = {} /\ Rotators(f) # {} -> [phase |-> "rotating", head |-> NULL]
    [] Heads(f) = {} /\ Rotators(f) = {} /\ token[f].family = f ->
         [phase |-> "closed", head |-> NULL]
    [] OTHER -> [phase |-> "unopened", head |-> NULL]

Line == INSTANCE SessionLine WITH
          Tokens <- Requests, NULL <- NULL,
          line <- [f \in Requests |-> LineOf(f)],
          used <- {t \in Requests : Issued(t)}

(***************************************************************************)
(* Each session follows its line: one head at a time, a head consumed      *)
(* before its successor exists, no revival (auth.service.ts:302-399).      *)
(***************************************************************************)
ImplementsSessionLine == Line!LineSpec

=============================================================================
