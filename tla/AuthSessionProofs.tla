------------------------- MODULE AuthSessionProofs -------------------------
(***************************************************************************)
(* Theorems about AuthSession, for any number of requests and any bounds:  *)
(* type correctness; the failure counter and the lock; the chains of       *)
(* refresh tokens, which implement SessionLine; and what holds when        *)
(* clients never overlap two logins of one account.                        *)
(***************************************************************************)
EXTENDS AuthSession, TLAPS

----------------------------------------------------------------------------
(***************************************************************************)
(* Type correctness.  TypeOK is not inductive: RefreshReload copies the    *)
(* expiry of the token presented, which is a time only because that token  *)
(* was granted.  So the invariant also says that a request that presents a *)
(* token presents one a client was granted.                                *)
(***************************************************************************)
PresentingCounters ==
  { "claim", "diagnose", "revokeAll", "reload", "reissue", "validate",
    "markSeen", "serve", "denyJti", "verifySocket" }

Presents(r) == req[r].presented \in Requests /\ Granted(req[r].presented)

Presenting == \A r \in Requests : req[r].pc \in PresentingCounters => Presents(r)

TypeInv == TypeOK /\ Presenting

\* The names the handlers use are names of the type invariant.
LEMMA Names ==
  /\ \A pc \in { "new", "done", "aborted", "countFailure", "lock",
                 "checkSession", "takeOver", "revokeOld", "issue", "purge",
                 "claim", "diagnose", "revokeAll", "reload", "reissue", "touch",
                 "validate", "markSeen", "serve", "denyJti", "clearSeen",
                 "setPassword", "logoutAll", "forceRevoke", "activate",
                 "deactivate", "keepInactive", "cutSockets", "verifySocket" } :
       pc \in ProgramCounters
  /\ \A op \in { "none", "login", "refresh", "api", "logout", "changePassword",
                 "resetPassword", "unlock", "forceLogout", "setActive", "socket" } :
       op \in OperationNames \cup {"none"}
  /\ \A result \in { "none", "granted", "served", "refused", "conflict", "replay" } :
       result \in Results
  /\ \A pc \in { "new", "done", "aborted", "countFailure", "lock",
                 "checkSession", "takeOver", "revokeOld", "issue", "purge",
                 "touch", "clearSeen", "setPassword", "logoutAll",
                 "forceRevoke", "activate", "deactivate", "keepInactive", "cutSockets" } :
       pc \notin PresentingCounters
  BY DEF ProgramCounters, OperationNames, Results, PresentingCounters

\* The records of local variables the handlers build are well typed.
LEMMA LocalsType ==
  ASSUME NEW x \in RequestState, NEW pc \in ProgramCounters,
         NEW op \in OperationNames \cup {"none"},
         NEW p \in Requests \cup {NULL}, NEW n \in Nat,
         NEW seen \in Nat \cup {NULL}
  PROVE  /\ [x EXCEPT !.pc = pc] \in RequestState
         /\ [x EXCEPT !.pc = pc, !.attempts = n] \in RequestState
         /\ [x EXCEPT !.pc = pc, !.expiresAt = n] \in RequestState
         /\ [x EXCEPT !.pc = pc, !.lastSeenAt = seen] \in RequestState
         /\ [x EXCEPT !.op = op, !.pc = pc] \in RequestState
         /\ [x EXCEPT !.pc = pc, !.op = op, !.attempts = n] \in RequestState
         /\ [x EXCEPT !.op = op, !.pc = pc, !.presented = p] \in RequestState
         /\ [x EXCEPT !.op = op, !.pc = pc, !.presented = p, !.sessionEpoch = n]
              \in RequestState
         /\ [x EXCEPT !.op = op, !.pc = pc, !.sessionEpoch = n, !.lastSeenAt = seen]
              \in RequestState
  BY DEF RequestState

\* The fields of a well typed request, user row and token row.
LEMMA FieldTypes ==
  ASSUME TypeInv, NEW r \in Requests
  PROVE  /\ req[r] \in RequestState
         /\ req[r].op \in OperationNames \cup {"none"}
         /\ req[r].presented \in Requests \cup {NULL}
         /\ req[r].sessionEpoch \in Nat
         /\ req[r].lastSeenAt \in Nat \cup {NULL}
         /\ req[r].attempts \in Nat /\ req[r].expiresAt \in Nat
         /\ token[r] \in TokenRow
         /\ token[r].expiresAt \in Nat /\ token[r].sessionEpoch \in Nat
         /\ user.failedLoginAttempts \in Nat /\ user.sessionEpoch \in Nat
         /\ user.lastSeenAt \in Nat \cup {NULL}
  BY DEF TypeInv, TypeOK, RequestState, TokenRow, UserRow

(***************************************************************************)
(* A step of r moves r alone, and only while r is being served; a token    *)
(* that was granted stays granted.                                         *)
(***************************************************************************)
LEMMA BecomeInv ==
  ASSUME TypeInv, NEW r \in Requests, NEW x \in RequestState, Become(r, x),
         ~At(r, "done"),
         x.pc \in PresentingCounters =>
           x.presented \in Requests /\ Granted(x.presented)
  PROVE  req' \in [Requests -> RequestState] /\ Presenting'
<1>1. req' \in [Requests -> RequestState]
  BY DEF Become, TypeInv, TypeOK
<1>2. req'[r] = x /\ \A q \in Requests \ {r} : req'[q] = req[q]
  BY DEF Become, TypeInv, TypeOK
<1>3. \A t \in Requests : Granted(t) => t # r /\ Granted(t)'
  BY <1>2 DEF Granted, At
<1>4. ASSUME NEW q \in Requests, req'[q].pc \in PresentingCounters
      PROVE  Presents(q)'
  <2>1. CASE q = r   BY <1>2, <1>3, <1>4, <2>1 DEF Presents
  <2>2. CASE q # r   BY <1>2, <1>3, <1>4, <2>2 DEF Presents, TypeInv, Presenting
  <2> QED  BY <2>1, <2>2
<1> QED  BY <1>1, <1>4 DEF Presenting

LEMMA NewRequestType == NewRequest \in RequestState
  BY DEF NewRequest, RequestState, ProgramCounters, Results

\* Answering a request.
LEMMA AnswerInv ==
  ASSUME TypeInv, NEW r \in Requests, NEW op \in OperationNames \cup {"none"},
         NEW result \in Results, Answer(r, op, result), ~At(r, "done")
  PROVE  req' \in [Requests -> RequestState] /\ Presenting'
<1> DEFINE x == [NewRequest EXCEPT !.pc = "done", !.op = op, !.result = result]
<1>1. x \in RequestState
  BY NewRequestType DEF NewRequest, RequestState, ProgramCounters, Results
<1>2. x.pc \notin PresentingCounters  BY DEF NewRequest, PresentingCounters
<1>3. Become(r, x)  BY DEF Answer
<1> HIDE DEF x
<1> QED  BY <1>1, <1>2, <1>3, BecomeInv

\* Going on at pc, a request still presents what it presented.
LEMMA ContinueInv ==
  ASSUME TypeInv, NEW r \in Requests, NEW pc \in ProgramCounters, Continue(r, pc),
         ~At(r, "done"), pc \in PresentingCounters => Presents(r)
  PROVE  req' \in [Requests -> RequestState] /\ Presenting'
<1> DEFINE x == [req[r] EXCEPT !.pc = pc]
<1>1. x \in RequestState
  BY FieldTypes DEF RequestState
<1>2. x.pc = pc /\ x.presented = req[r].presented
  BY FieldTypes DEF RequestState
<1>3. Become(r, x)  BY DEF Continue
<1> HIDE DEF x
<1> QED  BY <1>1, <1>2, <1>3, BecomeInv DEF Presents

\* The columns of the users row the handlers write.
LEMMA UserType ==
  ASSUME TypeInv, NEW n \in Nat, NEW seen \in Nat \cup {NULL}
  PROVE  /\ [user EXCEPT !.isActive = TRUE] \in UserRow
         /\ [user EXCEPT !.isActive = FALSE] \in UserRow
         /\ [user EXCEPT !.locked = TRUE] \in UserRow
         /\ [user EXCEPT !.failedLoginAttempts = n] \in UserRow
         /\ [user EXCEPT !.failedLoginAttempts = 0, !.locked = FALSE] \in UserRow
         /\ [user EXCEPT !.lastSeenAt = seen] \in UserRow
         /\ [user EXCEPT !.sessionEpoch = n] \in UserRow
         /\ [user EXCEPT !.sessionEpoch = n, !.lastSeenAt = NULL] \in UserRow
         /\ [user EXCEPT !.failedLoginAttempts = 0, !.locked = FALSE,
                         !.sessionEpoch = n, !.lastSeenAt = seen] \in UserRow
  BY DEF TypeInv, TypeOK, UserRow

\* Revoking the live tokens leaves the rows well typed.
LEMMA RevokeLiveType ==
  ASSUME TypeInv, RevokeLiveTokens
  PROVE  token' \in [Requests -> TokenRow]
  BY DEF TypeInv, TypeOK, RevokeLiveTokens, TokenRow, TokenStates

LEMMA LoginReadInv ==
  ASSUME TypeInv, NEW r \in Requests, LoginRead(r)
  PROVE  TypeInv'
<1> DEFINE wrong == [req[r] EXCEPT !.op = "login", !.pc = "countFailure"]
           right == [req[r] EXCEPT !.op = "login", !.pc = "checkSession",
                                   !.sessionEpoch = user.sessionEpoch,
                                   !.lastSeenAt = user.lastSeenAt]
<1>1. wrong \in RequestState /\ right \in RequestState
  BY Names, FieldTypes, LocalsType
<1>2. wrong.pc = "countFailure" /\ right.pc = "checkSession"
  BY FieldTypes DEF RequestState
<1>3. ~At(r, "done")  BY DEF LoginRead, Receive, At
<1>4. \/ Answer(r, "login", "refused") \/ Become(r, wrong) \/ Become(r, right)
  BY DEF LoginRead
<1> HIDE DEF wrong, right
<1>5. req' \in [Requests -> RequestState] /\ Presenting'
  BY <1>1, <1>2, <1>3, <1>4, Names, AnswerInv, BecomeInv
<1> QED  BY <1>5 DEF LoginRead, TypeInv, TypeOK

LEMMA LoginCountFailureInv ==
  ASSUME TypeInv, NEW r \in Requests, LoginCountFailure(r)
  PROVE  TypeInv'
<1> DEFINE x == [req[r] EXCEPT !.pc = "lock",
                               !.attempts = user.failedLoginAttempts + 1]
<1>1. user.failedLoginAttempts + 1 \in Nat  BY FieldTypes
<1>2. user' \in UserRow
  BY <1>1, UserType DEF LoginCountFailure
<1>3. x \in RequestState
  BY <1>1, Names, FieldTypes, LocalsType
<1>4. x.pc = "lock"  BY FieldTypes DEF RequestState
<1>5. ~At(r, "done") /\ (Answer(r, "login", "refused") \/ Become(r, x))
  BY DEF LoginCountFailure, At
<1> HIDE DEF x
<1>6. req' \in [Requests -> RequestState] /\ Presenting'
  BY <1>3, <1>4, <1>5, Names, AnswerInv, BecomeInv
<1> QED  BY <1>2, <1>6 DEF LoginCountFailure, TypeInv, TypeOK

LEMMA LoginIssueInv ==
  ASSUME TypeInv, NEW r \in Requests, LoginIssue(r)
  PROVE  TypeInv'
<1>1. req[r].sessionEpoch + 1 \in Nat /\ now + RefreshTtl \in Nat
  BY FieldTypes, BoundsAssumption DEF TypeInv, TypeOK
<1>2. token' \in [Requests -> TokenRow]
  BY <1>1 DEF LoginIssue, TypeInv, TypeOK, TokenRow, TokenStates
<1>3. req' \in [Requests -> RequestState] /\ Presenting'
  BY Names, ContinueInv DEF LoginIssue, At
<1> QED  BY <1>2, <1>3 DEF LoginIssue, TypeInv, TypeOK

LEMMA LoginPurgeInv ==
  ASSUME TypeInv, NEW r \in Requests, LoginPurge(r)
  PROVE  TypeInv'
<1>1. req' \in [Requests -> RequestState] /\ Presenting'
  BY Names, AnswerInv DEF LoginPurge, At
<1>2. token' \in [Requests -> TokenRow]
  BY DEF LoginPurge, TypeInv, TypeOK, TokenRow, TokenStates
<1> QED  BY <1>1, <1>2 DEF LoginPurge, TypeInv, TypeOK

LEMMA LoginInv ==
  ASSUME TypeInv, NEW r \in Requests, LoginStep(r)
  PROVE  TypeInv'
<1>1. CASE LoginRead(r)          BY <1>1, LoginReadInv
<1>2. CASE LoginCountFailure(r)  BY <1>2, LoginCountFailureInv
<1>3. CASE LoginLock(r)
  <2>1. req' \in [Requests -> RequestState] /\ Presenting'
    BY <1>3, Names, AnswerInv DEF LoginLock, At
  <2>2. user' \in UserRow  BY <1>3, UserType DEF LoginLock
  <2> QED  BY <1>3, <2>1, <2>2 DEF LoginLock, TypeInv, TypeOK
<1>4. CASE LoginCheckSession(r)
  <2>1. req' \in [Requests -> RequestState] /\ Presenting'
    BY <1>4, Names, AnswerInv, ContinueInv DEF LoginCheckSession, At
  <2> QED  BY <1>4, <2>1 DEF LoginCheckSession, TypeInv, TypeOK
<1>5. CASE LoginTakeOver(r)
  <2>1. req' \in [Requests -> RequestState] /\ Presenting'
    BY <1>5, Names, ContinueInv DEF LoginTakeOver, At
  <2>2. req[r].sessionEpoch + 1 \in Nat /\ now \in Nat \cup {NULL}
    BY FieldTypes DEF TypeInv, TypeOK
  <2>3. user' \in UserRow
    BY <1>5, <2>2, UserType DEF LoginTakeOver
  <2> QED  BY <1>5, <2>1, <2>3 DEF LoginTakeOver, TypeInv, TypeOK
<1>6. CASE LoginRevokeOld(r)
  <2>1. req' \in [Requests -> RequestState] /\ Presenting'
    BY <1>6, Names, ContinueInv DEF LoginRevokeOld, At
  <2> QED  BY <1>6, <2>1, RevokeLiveType DEF LoginRevokeOld, DisconnectUser, TypeInv, TypeOK
<1>7. CASE LoginIssue(r)         BY <1>7, LoginIssueInv
<1>8. CASE LoginPurge(r)         BY <1>8, LoginPurgeInv
<1> QED  BY <1>1, <1>2, <1>3, <1>4, <1>5, <1>6, <1>7, <1>8 DEF LoginStep

LEMMA RefreshReadInv ==
  ASSUME TypeInv, NEW r \in Requests, RefreshRead(r)
  PROVE  TypeInv'
<1> DEFINE x(t) == [req[r] EXCEPT !.op = "refresh", !.pc = "claim",
                                  !.presented = t,
                                  !.sessionEpoch = user.sessionEpoch]
<1>1. ~At(r, "done")  BY DEF RefreshRead, Receive, At
<1>2. PICK t \in Requests :
        Granted(t) /\ (Answer(r, "refresh", "refused") \/ Become(r, x(t)))
  BY DEF RefreshRead
<1>3. x(t) \in RequestState  BY Names, FieldTypes, LocalsType
<1>4. x(t).presented = t  BY FieldTypes DEF RequestState
<1> HIDE DEF x
<1>5. req' \in [Requests -> RequestState] /\ Presenting'
  BY <1>1, <1>2, <1>3, <1>4, Names, AnswerInv, BecomeInv
<1> QED  BY <1>5 DEF RefreshRead, TypeInv, TypeOK

LEMMA RefreshClaimInv ==
  ASSUME TypeInv, NEW r \in Requests, RefreshClaim(r)
  PROVE  TypeInv'
<1>1. ~At(r, "done") /\ Presents(r)
  BY DEF RefreshClaim, At, TypeInv, Presenting, PresentingCounters
<1>2. req' \in [Requests -> RequestState] /\ Presenting'
  BY <1>1, Names, ContinueInv DEF RefreshClaim
<1>3. token' \in [Requests -> TokenRow]
  BY <1>1 DEF RefreshClaim, Presents, TypeInv, TypeOK, TokenRow, TokenStates
<1> QED  BY <1>2, <1>3 DEF RefreshClaim, TypeInv, TypeOK

LEMMA RefreshReloadInv ==
  ASSUME TypeInv, NEW r \in Requests, RefreshReload(r)
  PROVE  TypeInv'
<1> DEFINE x == [req[r] EXCEPT !.pc = "reissue",
                               !.expiresAt = token[req[r].presented].expiresAt]
<1>1. ~At(r, "done") /\ Presents(r)
  BY DEF RefreshReload, At, TypeInv, Presenting, PresentingCounters
<1>2. token[req[r].presented].expiresAt \in Nat
  BY <1>1, FieldTypes DEF Presents
<1>3. x \in RequestState
  BY <1>2, Names, FieldTypes, LocalsType
<1>4. x.presented = req[r].presented
  BY FieldTypes DEF RequestState
<1>5. Answer(r, "refresh", "refused") \/ Become(r, x)
  BY DEF RefreshReload
<1> HIDE DEF x
<1>6. req' \in [Requests -> RequestState] /\ Presenting'
  BY <1>1, <1>3, <1>4, <1>5, Names, AnswerInv, BecomeInv DEF Presents
<1> QED  BY <1>6 DEF RefreshReload, TypeInv, TypeOK

LEMMA RefreshReissueInv ==
  ASSUME TypeInv, NEW r \in Requests, RefreshReissue(r)
  PROVE  TypeInv'
<1>1. ~At(r, "done") /\ Presents(r)
  BY DEF RefreshReissue, At, TypeInv, Presenting, PresentingCounters
<1>2. token[req[r].presented].family \in Requests \cup {NULL}
  BY <1>1 DEF Presents, TypeInv, TypeOK, TokenRow
<1>3. token' \in [Requests -> TokenRow]
  BY <1>1, <1>2, FieldTypes
  DEF RefreshReissue, Presents, TypeInv, TypeOK, TokenRow, TokenStates
<1>4. req' \in [Requests -> RequestState] /\ Presenting'
  BY <1>1, Names, ContinueInv DEF RefreshReissue
<1> QED  BY <1>3, <1>4 DEF RefreshReissue, TypeInv, TypeOK

LEMMA RefreshInv ==
  ASSUME TypeInv, NEW r \in Requests, RefreshStep(r)
  PROVE  TypeInv'
<1>1. CASE RefreshRead(r)     BY <1>1, RefreshReadInv
<1>2. CASE RefreshClaim(r)    BY <1>2, RefreshClaimInv
<1>3. CASE RefreshDiagnose(r)
  <2>1. Presents(r)
    BY <1>3 DEF RefreshDiagnose, At, TypeInv, Presenting, PresentingCounters
  <2>2. req' \in [Requests -> RequestState] /\ Presenting'
    BY <1>3, <2>1, Names, AnswerInv, ContinueInv DEF RefreshDiagnose, At
  <2> QED  BY <1>3, <2>2 DEF RefreshDiagnose, TypeInv, TypeOK
<1>4. CASE RefreshRevokeAll(r)
  <2>1. req' \in [Requests -> RequestState] /\ Presenting'
    BY <1>4, Names, AnswerInv DEF RefreshRevokeAll, At
  <2> QED  BY <1>4, <2>1, RevokeLiveType DEF RefreshRevokeAll, TypeInv, TypeOK
<1>5. CASE RefreshReload(r)   BY <1>5, RefreshReloadInv
<1>6. CASE RefreshReissue(r)  BY <1>6, RefreshReissueInv
<1>7. CASE RefreshTouch(r)
  <2>1. req' \in [Requests -> RequestState] /\ Presenting'
    BY <1>7, Names, AnswerInv DEF RefreshTouch, At
  <2>2. user' \in UserRow
    BY <1>7, FieldTypes, UserType DEF RefreshTouch, TypeInv, TypeOK
  <2> QED  BY <1>7, <2>1, <2>2 DEF RefreshTouch, TypeInv, TypeOK
<1> QED  BY <1>1, <1>2, <1>3, <1>4, <1>5, <1>6, <1>7 DEF RefreshStep

LEMMA ValidateDenylistInv ==
  ASSUME TypeInv, NEW r \in Requests, ValidateDenylist(r)
  PROVE  TypeInv'
<1> DEFINE x(op, a) == [req[r] EXCEPT !.op = op, !.pc = "validate", !.presented = a]
<1>1. ~At(r, "done")  BY DEF ValidateDenylist, Receive, At
<1>2. PICK op \in AuthenticatedOps, a \in Requests :
        Granted(a) /\ (Answer(r, op, "refused") \/ Become(r, x(op, a)))
  BY DEF ValidateDenylist
<1>3. op \in OperationNames \cup {"none"}
  BY DEF AuthenticatedOps, OperationNames
<1>4. x(op, a) \in RequestState  BY <1>3, Names, FieldTypes, LocalsType
<1>5. x(op, a).presented = a  BY FieldTypes DEF RequestState
<1> HIDE DEF x
<1>6. req' \in [Requests -> RequestState] /\ Presenting'
  BY <1>1, <1>2, <1>3, <1>4, <1>5, Names, AnswerInv, BecomeInv
<1> QED  BY <1>6 DEF ValidateDenylist, TypeInv, TypeOK

LEMMA ValidateUserInv ==
  ASSUME TypeInv, NEW r \in Requests, ValidateUser(r)
  PROVE  TypeInv'
<1> DEFINE x == [req[r] EXCEPT !.pc = "markSeen", !.lastSeenAt = now]
<1>1. ~At(r, "done") /\ Presents(r)
  BY DEF ValidateUser, At, TypeInv, Presenting, PresentingCounters
<1>2. x \in RequestState
  BY Names, FieldTypes, LocalsType DEF TypeInv, TypeOK
<1>3. x.presented = req[r].presented
  BY FieldTypes DEF RequestState
<1>4. \/ Answer(r, req[r].op, "refused") \/ Become(r, x)
      \/ Continue(r, "setPassword") \/ Continue(r, "serve")
  BY DEF ValidateUser, ServeAt
<1> HIDE DEF x
<1>5. req' \in [Requests -> RequestState] /\ Presenting'
  BY <1>1, <1>2, <1>3, <1>4, Names, FieldTypes, AnswerInv, ContinueInv, BecomeInv
  DEF Presents
<1> QED  BY <1>5 DEF ValidateUser, TypeInv, TypeOK

LEMMA MarkSeenInv ==
  ASSUME TypeInv, NEW r \in Requests, MarkSeen(r)
  PROVE  TypeInv'
<1> DEFINE x == [req[r] EXCEPT !.pc = ServeAt(req[r].op), !.lastSeenAt = NULL]
<1>1. ~At(r, "done") /\ Presents(r)
  BY DEF MarkSeen, At, TypeInv, Presenting, PresentingCounters
<1>2. ServeAt(req[r].op) \in ProgramCounters  BY Names DEF ServeAt
<1>3. x \in RequestState  BY <1>2, FieldTypes, LocalsType
<1>4. x.presented = req[r].presented  BY FieldTypes DEF RequestState
<1>5. Become(r, x)  BY DEF MarkSeen
<1> HIDE DEF x
<1>6. req' \in [Requests -> RequestState] /\ Presenting'
  BY <1>1, <1>3, <1>4, <1>5, BecomeInv DEF Presents
<1>7. user' \in UserRow
  BY FieldTypes, UserType DEF MarkSeen
<1> QED  BY <1>6, <1>7 DEF MarkSeen, TypeInv, TypeOK

LEMMA AuthenticatedInv ==
  ASSUME TypeInv, NEW r \in Requests, AuthenticatedStep(r)
  PROVE  TypeInv'
<1>1. CASE ValidateDenylist(r)  BY <1>1, ValidateDenylistInv
<1>2. CASE ValidateUser(r)      BY <1>2, ValidateUserInv
<1>3. CASE MarkSeen(r)          BY <1>3, MarkSeenInv
<1>4. CASE ServeApi(r)
  <2>1. req' \in [Requests -> RequestState] /\ Presenting'
    BY <1>4, Names, AnswerInv DEF ServeApi, At
  <2> QED  BY <1>4, <2>1 DEF ServeApi, TypeInv, TypeOK
<1>5. CASE LogoutRevoke(r)
  <2>1. Presents(r)
    BY <1>5 DEF LogoutRevoke, At, TypeInv, Presenting, PresentingCounters
  <2>2. req' \in [Requests -> RequestState] /\ Presenting'
    BY <1>5, <2>1, Names, ContinueInv DEF LogoutRevoke, At
  <2>3. PICK state \in TokenStates :
          token' = [token EXCEPT ![req[r].presented].state = state]
    BY <1>5, <2>1, FieldTypes DEF LogoutRevoke, Presents, TokenRow, TokenStates
  <2>4. token' \in [Requests -> TokenRow]
    BY <2>1, <2>3 DEF Presents, TypeInv, TypeOK, TokenRow
  <2> QED  BY <1>5, <2>2, <2>4 DEF LogoutRevoke, TypeInv, TypeOK
<1>6. CASE LogoutDeny(r)
  <2>1. Presents(r)
    BY <1>6 DEF LogoutDeny, At, TypeInv, Presenting, PresentingCounters
  <2>2. req' \in [Requests -> RequestState] /\ Presenting'
    BY <1>6, Names, ContinueInv DEF LogoutDeny, At
  <2> QED  BY <1>6, <2>1, <2>2 DEF LogoutDeny, Presents, TypeInv, TypeOK
<1>7. CASE LogoutClearSeen(r)
  <2>1. req' \in [Requests -> RequestState] /\ Presenting'
    BY <1>7, Names, AnswerInv DEF LogoutClearSeen, At
  <2>2. user' \in UserRow  BY <1>7, UserType DEF LogoutClearSeen
  <2> QED  BY <1>7, <2>1, <2>2 DEF LogoutClearSeen, TypeInv, TypeOK
<1> QED  BY <1>1, <1>2, <1>3, <1>4, <1>5, <1>6, <1>7 DEF AuthenticatedStep

\* A request that begins at a step that presents no token.
LEMMA BeginInv ==
  ASSUME TypeInv, NEW r \in Requests, NEW op \in OperationNames \cup {"none"},
         NEW pc \in ProgramCounters \ PresentingCounters,
         Become(r, [req[r] EXCEPT !.op = op, !.pc = pc]), ~At(r, "done")
  PROVE  req' \in [Requests -> RequestState] /\ Presenting'
<1> DEFINE x == [req[r] EXCEPT !.op = op, !.pc = pc]
<1>1. x \in RequestState  BY FieldTypes, LocalsType
<1>2. x.pc = pc  BY FieldTypes DEF RequestState
<1> HIDE DEF x
<1> QED  BY <1>1, <1>2, BecomeInv DEF x

LEMMA AccountInv ==
  ASSUME TypeInv, NEW r \in Requests, AccountStep(r)
  PROVE  TypeInv'
<1>e. user.sessionEpoch + 1 \in Nat  BY FieldTypes
<1>1. CASE ChangePasswordReject(r)
  <2>1. req' \in [Requests -> RequestState] /\ Presenting'
    BY <1>1, Names, AnswerInv DEF ChangePasswordReject, At
  <2> QED  BY <1>1, <2>1 DEF ChangePasswordReject, TypeInv, TypeOK
<1>2. CASE ResetPasswordBegin(r)
  <2>1. req' \in [Requests -> RequestState] /\ Presenting'
    BY <1>2, Names, BeginInv DEF ResetPasswordBegin, Receive, At
  <2> QED  BY <1>2, <2>1 DEF ResetPasswordBegin, TypeInv, TypeOK
<1>3. CASE SetPassword(r)
  <2>1. req' \in [Requests -> RequestState] /\ Presenting'
    BY <1>3, Names, ContinueInv DEF SetPassword, At
  <2>2. user' \in UserRow  BY <1>3, <1>e, UserType DEF SetPassword
  <2> QED  BY <1>3, <2>1, <2>2 DEF SetPassword, TypeInv, TypeOK
<1>4. CASE LogoutAll(r)
  <2>1. req' \in [Requests -> RequestState] /\ Presenting'
    BY <1>4, Names, FieldTypes, AnswerInv DEF LogoutAll, At
  <2> QED  BY <1>4, <2>1, RevokeLiveType DEF LogoutAll, DisconnectUser, TypeInv, TypeOK
<1>5. CASE UnlockAccount(r)
  <2>1. req' \in [Requests -> RequestState] /\ Presenting'
    BY <1>5, Names, AnswerInv DEF UnlockAccount, Receive, At
  <2>2. user' \in UserRow  BY <1>5, UserType DEF UnlockAccount
  <2> QED  BY <1>5, <2>1, <2>2 DEF UnlockAccount, TypeInv, TypeOK
<1>6. CASE ForceLogoutBump(r)
  <2>1. req' \in [Requests -> RequestState] /\ Presenting'
    BY <1>6, Names, BeginInv DEF ForceLogoutBump, Receive, At
  <2>2. user' \in UserRow  BY <1>6, <1>e, UserType DEF ForceLogoutBump
  <2> QED  BY <1>6, <2>1, <2>2 DEF ForceLogoutBump, TypeInv, TypeOK
<1>7. CASE ForceLogoutRevoke(r)
  <2>1. req' \in [Requests -> RequestState] /\ Presenting'
    BY <1>7, Names, AnswerInv DEF ForceLogoutRevoke, At
  <2> QED  BY <1>7, <2>1, RevokeLiveType DEF ForceLogoutRevoke, DisconnectUser, TypeInv, TypeOK
<1>8. CASE UpdateUserRead(r)
  <2>1. PICK pc \in {"activate", "deactivate", "keepInactive"} :
          Become(r, [req[r] EXCEPT !.op = "setActive", !.pc = pc])
    BY <1>8 DEF UpdateUserRead
  <2>2. req' \in [Requests -> RequestState] /\ Presenting'
    BY <1>8, <2>1, Names, BeginInv DEF UpdateUserRead, Receive, At
  <2> QED  BY <1>8, <2>2 DEF UpdateUserRead, TypeInv, TypeOK
<1>9. CASE SetActive(r)
  <2>1. req' \in [Requests -> RequestState] /\ Presenting'
    BY <1>9, Names, AnswerInv, ContinueInv DEF SetActive, At
  <2>2. user' \in UserRow  BY <1>9, UserType DEF SetActive
  <2> QED  BY <1>9, <2>1, <2>2 DEF SetActive, TypeInv, TypeOK
<1>10. CASE DeactivateCut(r)
  <2>1. req' \in [Requests -> RequestState] /\ Presenting'
    BY <1>10, Names, AnswerInv DEF DeactivateCut, At
  <2> QED  BY <1>10, <2>1 DEF DeactivateCut, DisconnectUser, TypeInv, TypeOK
<1> QED
  BY <1>1, <1>2, <1>3, <1>4, <1>5, <1>6, <1>7, <1>8, <1>9, <1>10 DEF AccountStep

LEMMA SocketInv ==
  ASSUME TypeInv, NEW r \in Requests, SocketStep(r)
  PROVE  TypeInv'
<1>1. CASE SocketConnect(r)
  <2> DEFINE x(a) == [req[r] EXCEPT !.op = "socket", !.pc = "verifySocket",
                                    !.presented = a]
  <2>1. PICK a \in Requests : Granted(a) /\ Become(r, x(a))
    BY <1>1 DEF SocketConnect
  <2>2. x(a) \in RequestState  BY Names, FieldTypes, LocalsType
  <2>3. x(a).presented = a  BY FieldTypes DEF RequestState
  <2> HIDE DEF x
  <2>4. req' \in [Requests -> RequestState] /\ Presenting'
    BY <1>1, <2>1, <2>2, <2>3, BecomeInv DEF SocketConnect, Receive, At
  <2> QED  BY <1>1, <2>4 DEF SocketConnect, TypeInv, TypeOK
<1>2. CASE SocketJoin(r)
  <2>1. Presents(r)
    BY <1>2 DEF SocketJoin, At, TypeInv, Presenting, PresentingCounters
  <2>2. req' \in [Requests -> RequestState] /\ Presenting'
    BY <1>2, Names, AnswerInv DEF SocketJoin, At
  <2> QED  BY <1>2, <2>1, <2>2 DEF SocketJoin, Presents, TypeInv, TypeOK
<1> QED  BY <1>1, <1>2 DEF SocketStep

LEMMA SocketLeaveInv ==
  ASSUME TypeInv, NEW r \in Requests, SocketLeave(r)
  PROVE  TypeInv'
  BY DEF SocketLeave, TypeInv, TypeOK, Presenting, Presents, Granted, At

LEMMA AbortInv ==
  ASSUME TypeInv, NEW r \in Requests, Abort(r)
  PROVE  TypeInv'
<1> DEFINE x == [NewRequest EXCEPT !.pc = "aborted", !.op = req[r].op,
                                   !.attempts = req[r].attempts]
<1>1. x \in RequestState
  BY Names, FieldTypes, NewRequestType, LocalsType
<1>2. x.pc = "aborted"  BY DEF NewRequest
<1>3. ~At(r, "done") /\ Become(r, x)  BY DEF Abort, At
<1> HIDE DEF x
<1>4. req' \in [Requests -> RequestState] /\ Presenting'
  BY <1>1, <1>2, <1>3, Names, BecomeInv
<1> QED  BY <1>4 DEF Abort, TypeInv, TypeOK

LEMMA TypeInit == Init => TypeInv
<1> SUFFICES ASSUME Init PROVE TypeInv  OBVIOUS
<1>1. user \in UserRow  BY DEF Init, UserRow
<1>2. token \in [Requests -> TokenRow]
  BY DEF Init, NoToken, TokenRow, TokenStates
<1>3. req \in [Requests -> RequestState]  BY NewRequestType DEF Init
<1>4. Presenting  BY DEF Init, NewRequest, Presenting, PresentingCounters
<1> QED  BY <1>1, <1>2, <1>3, <1>4 DEF Init, TypeInv, TypeOK

LEMMA TypeNext == TypeInv /\ [Next]_vars => TypeInv'
<1> SUFFICES ASSUME TypeInv, [Next]_vars PROVE TypeInv'  OBVIOUS
<1>1. ASSUME NEW r \in Requests,
             \/ LoginStep(r) \/ RefreshStep(r) \/ AuthenticatedStep(r)
             \/ AccountStep(r) \/ SocketStep(r) \/ Abort(r) \/ SocketLeave(r)
      PROVE  TypeInv'
  BY <1>1, LoginInv, RefreshInv, AuthenticatedInv, AccountInv, SocketInv,
     AbortInv, SocketLeaveInv
<1>2. CASE Tick
  BY <1>2 DEF Tick, TypeInv, TypeOK, Presenting, Presents, Granted, At
<1>3. CASE UNCHANGED vars
  BY <1>3 DEF vars, TypeInv, TypeOK, Presenting, Presents, Granted, At
<1> QED  BY <1>1, <1>2, <1>3 DEF Next, Terminated

(***************************************************************************)
(* In every reachable state the rows and the local variables of the        *)
(* handlers have their types: no counter leaves Nat, no handler reads a    *)
(* field of a row that is not there (auth.service.ts:55-598).              *)
(***************************************************************************)
THEOREM TypeCorrect == Spec => []TypeOK
<1>1. TypeInv => TypeOK  BY DEF TypeInv
<1> QED  BY <1>1, TypeInit, TypeNext, PTL DEF Spec

----------------------------------------------------------------------------
(***************************************************************************)
(* What a step leaves alone.                                               *)
(***************************************************************************)
OthersKeep(r) == \A q \in Requests \ {r} : req'[q] = req[q]

\* No row is inserted; states only fade.
RowsFade ==
  \A t \in Requests :
    /\ Issued(t)' <=> Issued(t)
    /\ Live(t)' => Live(t)
    /\ token'[t].family = token[t].family
    /\ token'[t].expiresAt = token[t].expiresAt
    /\ token'[t].sessionEpoch = token[t].sessionEpoch

\* Program counters at which the row of a request has been inserted, or
\* never will be.
Past == { "purge", "touch", "done", "aborted" }

\* r inserts no row and does not rotate.
Plain(r) ==
  /\ OthersKeep(r) /\ RowsFade
  /\ req'[r].pc \notin { "reload", "reissue" }
  /\ req[r].pc \in Past => req'[r].pc \in Past
  /\ Granted(r)' \/ req'[r].pc \in { "purge", "touch" } =>
       req[r].pc \in { "purge", "touch" }

\* Nor is it a login that is still to issue its token.
Ahead == { "checkSession", "takeOver", "revokeOld", "issue" }

Beside(r) == Plain(r) /\ req'[r].pc \notin Ahead

LEMMA BecomeKeeps ==
  ASSUME TypeInv, NEW r \in Requests, NEW x, Become(r, x)
  PROVE  OthersKeep(r) /\ req'[r] = x
  BY DEF Become, OthersKeep, TypeInv, TypeOK

LEMMA AnswerKeeps ==
  ASSUME TypeInv, NEW r \in Requests, NEW op, NEW result, Answer(r, op, result)
  PROVE  /\ OthersKeep(r)
         /\ req'[r].pc = "done" /\ req'[r].result = result
         /\ req'[r].attempts = 0
<1> DEFINE x == [NewRequest EXCEPT !.pc = "done", !.op = op, !.result = result]
<1>1. x.pc = "done" /\ x.result = result /\ x.attempts = 0  BY DEF NewRequest
<1>2. Become(r, x)  BY DEF Answer
<1> HIDE DEF x
<1> QED  BY <1>1, <1>2, BecomeKeeps

LEMMA ContinueKeeps ==
  ASSUME TypeInv, NEW r \in Requests, NEW pc, Continue(r, pc)
  PROVE  /\ OthersKeep(r)
         /\ req'[r].pc = pc /\ req'[r].presented = req[r].presented
         /\ req'[r].sessionEpoch = req[r].sessionEpoch
         /\ req'[r].expiresAt = req[r].expiresAt
         /\ req'[r].attempts = req[r].attempts
<1> DEFINE x == [req[r] EXCEPT !.pc = pc]
<1>1. /\ x.pc = pc /\ x.presented = req[r].presented
      /\ x.sessionEpoch = req[r].sessionEpoch /\ x.expiresAt = req[r].expiresAt
      /\ x.attempts = req[r].attempts
  BY FieldTypes DEF RequestState
<1>2. Become(r, x)  BY DEF Continue
<1> HIDE DEF x
<1> QED  BY <1>1, <1>2, BecomeKeeps

LEMMA RevokeFades == ASSUME TypeInv, RevokeLiveTokens PROVE RowsFade
  BY DEF RevokeLiveTokens, RowsFade, Issued, Live, TypeInv, TypeOK, TokenRow

LEMMA SameRowsFade == ASSUME UNCHANGED token PROVE RowsFade
  BY DEF RowsFade, Issued, Live

\* The counter is the user's, and the request that reaches the bound locks.
LEMMA CountFailureKeeps ==
  ASSUME TypeInv, NEW r \in Requests, LoginCountFailure(r)
  PROVE  /\ OthersKeep(r)
         /\ \/ /\ user.failedLoginAttempts + 1 >= MaxAttempts
               /\ req'[r].pc = "lock"
               /\ req'[r].attempts = user.failedLoginAttempts + 1
            \/ /\ user.failedLoginAttempts + 1 < MaxAttempts
               /\ req'[r].pc = "done" /\ req'[r].result = "refused"
<1> DEFINE x == [req[r] EXCEPT !.pc = "lock",
                               !.attempts = user.failedLoginAttempts + 1]
<1>1. x.pc = "lock" /\ x.attempts = user.failedLoginAttempts + 1
  BY FieldTypes DEF RequestState
<1>2. \/ user.failedLoginAttempts + 1 >= MaxAttempts /\ Become(r, x)
      \/ user.failedLoginAttempts + 1 < MaxAttempts /\ Answer(r, "login", "refused")
  BY DEF LoginCountFailure
<1> HIDE DEF x
<1> QED  BY <1>1, <1>2, AnswerKeeps, BecomeKeeps

LEMMA LoginPlain ==
  ASSUME TypeInv, NEW r \in Requests, LoginStep(r), ~LoginIssue(r)
  PROVE  Plain(r)
<1>1. CASE LoginRead(r)
  <2> DEFINE wrong == [req[r] EXCEPT !.op = "login", !.pc = "countFailure"]
             right == [req[r] EXCEPT !.op = "login", !.pc = "checkSession",
                                     !.sessionEpoch = user.sessionEpoch,
                                     !.lastSeenAt = user.lastSeenAt]
  <2>a. wrong.pc = "countFailure" /\ right.pc = "checkSession"
    BY FieldTypes DEF RequestState
  <2>b. Answer(r, "login", "refused") \/ Become(r, wrong) \/ Become(r, right)
    BY <1>1 DEF LoginRead
  <2> HIDE DEF wrong, right
  <2>1. OthersKeep(r) /\ req'[r].pc \in {"done", "countFailure", "checkSession"}
        /\ ~Granted(r)'
    BY <2>a, <2>b, AnswerKeeps, BecomeKeeps DEF Granted, At
  <2> QED  BY <1>1, <2>1, SameRowsFade DEF LoginRead, Receive, At, Plain, Past
<1>2. CASE LoginCountFailure(r)
  <2>1. OthersKeep(r) /\ req'[r].pc \in {"done", "lock"} /\ ~Granted(r)'
    BY <1>2, CountFailureKeeps DEF Granted, At
  <2> QED  BY <1>2, <2>1, SameRowsFade DEF LoginCountFailure, At, Plain, Past
<1>3. CASE LoginLock(r)
  BY <1>3, AnswerKeeps, SameRowsFade DEF LoginLock, At, Plain, Past, Granted
<1>4. CASE LoginCheckSession(r)
  BY <1>4, AnswerKeeps, ContinueKeeps, SameRowsFade
  DEF LoginCheckSession, At, Plain, Past, Granted
<1>5. CASE LoginTakeOver(r)
  BY <1>5, ContinueKeeps, SameRowsFade DEF LoginTakeOver, At, Plain, Past, Granted
<1>6. CASE LoginRevokeOld(r)
  BY <1>6, ContinueKeeps, RevokeFades DEF LoginRevokeOld, At, Plain, Past, Granted
<1>7. CASE LoginPurge(r)
  <2>1. RowsFade
    BY <1>7 DEF LoginPurge, RowsFade, Issued, Live, TypeInv, TypeOK, TokenRow
  <2> QED  BY <1>7, <2>1, AnswerKeeps DEF LoginPurge, At, Plain, Past, Granted
<1> QED  BY <1>1, <1>2, <1>3, <1>4, <1>5, <1>6, <1>7 DEF LoginStep

\* The steps of a rotation that RefreshPlain leaves out.
LEMMA RotationKeeps ==
  ASSUME TypeInv, NEW r \in Requests,
         RefreshClaim(r) \/ RefreshReload(r) \/ RefreshReissue(r)
  PROVE  OthersKeep(r)
  BY AnswerKeeps, BecomeKeeps, ContinueKeeps
  DEF RefreshClaim, RefreshReload, RefreshReissue

LEMMA RotationFades ==
  ASSUME TypeInv, NEW r \in Requests, RefreshClaim(r) \/ RefreshReload(r)
  PROVE  OthersKeep(r) /\ RowsFade /\ req'[r].pc \notin Ahead
<1>1. CASE RefreshClaim(r)
  <2>1. RowsFade
    BY <1>1 DEF RefreshClaim, RowsFade, Issued, Live, TypeInv, TypeOK, TokenRow
  <2> QED
    BY <1>1, <2>1, RotationKeeps, ContinueKeeps DEF RefreshClaim, Ahead
<1>2. CASE RefreshReload(r)
  <2> DEFINE x == [req[r] EXCEPT !.pc = "reissue",
                                 !.expiresAt = token[req[r].presented].expiresAt]
  <2>1. x.pc = "reissue"  BY FieldTypes DEF RequestState
  <2>2. Answer(r, "refresh", "refused") \/ Become(r, x)
    BY <1>2 DEF RefreshReload
  <2> HIDE DEF x
  <2>3. req'[r].pc \notin Ahead
    BY <2>1, <2>2, AnswerKeeps, BecomeKeeps DEF Ahead
  <2> QED  BY <1>2, <2>3, RotationKeeps, SameRowsFade DEF RefreshReload
<1> QED  BY <1>1, <1>2

LEMMA RefreshPlain ==
  ASSUME TypeInv, NEW r \in Requests, RefreshStep(r),
         ~RefreshClaim(r), ~RefreshReload(r), ~RefreshReissue(r)
  PROVE  Beside(r)
<1>1. CASE RefreshRead(r)
  <2> DEFINE x(t) == [req[r] EXCEPT !.op = "refresh", !.pc = "claim",
                                    !.presented = t,
                                    !.sessionEpoch = user.sessionEpoch]
  <2>a. \A t : x(t).pc = "claim"  BY FieldTypes DEF RequestState
  <2>b. \E t : Answer(r, "refresh", "refused") \/ Become(r, x(t))
    BY <1>1 DEF RefreshRead
  <2> HIDE DEF x
  <2>1. OthersKeep(r) /\ req'[r].pc \in {"done", "claim"} /\ ~Granted(r)'
    BY <2>a, <2>b, AnswerKeeps, BecomeKeeps DEF Granted, At
  <2> QED
    BY <1>1, <2>1, SameRowsFade
    DEF RefreshRead, Receive, At, Beside, Plain, Ahead, Past
<1>2. CASE RefreshDiagnose(r)
  BY <1>2, AnswerKeeps, ContinueKeeps, SameRowsFade
  DEF RefreshDiagnose, At, Beside, Plain, Ahead, Past, Granted
<1>3. CASE RefreshRevokeAll(r)
  BY <1>3, AnswerKeeps, RevokeFades
  DEF RefreshRevokeAll, At, Beside, Plain, Ahead, Past, Granted
<1>4. CASE RefreshTouch(r)
  BY <1>4, AnswerKeeps, SameRowsFade
  DEF RefreshTouch, At, Beside, Plain, Ahead, Past, Granted
<1> QED  BY <1>1, <1>2, <1>3, <1>4 DEF RefreshStep

LEMMA AuthenticatedPlain ==
  ASSUME TypeInv, NEW r \in Requests, AuthenticatedStep(r)
  PROVE  Beside(r)
<1>1. CASE ValidateDenylist(r)
  <2> DEFINE x(op, a) == [req[r] EXCEPT !.op = op, !.pc = "validate", !.presented = a]
  <2>a. \A op, a : x(op, a).pc = "validate"  BY FieldTypes DEF RequestState
  <2>b. \E op, a : Answer(r, op, "refused") \/ Become(r, x(op, a))
    BY <1>1 DEF ValidateDenylist
  <2> HIDE DEF x
  <2>1. OthersKeep(r) /\ req'[r].pc \in {"done", "validate"} /\ ~Granted(r)'
    BY <2>a, <2>b, AnswerKeeps, BecomeKeeps DEF Granted, At
  <2> QED
    BY <1>1, <2>1, SameRowsFade
    DEF ValidateDenylist, Receive, At, Beside, Plain, Ahead, Past
<1>2. CASE ValidateUser(r)
  <2> DEFINE x == [req[r] EXCEPT !.pc = "markSeen", !.lastSeenAt = now]
  <2>a. x.pc = "markSeen"  BY FieldTypes DEF RequestState
  <2>b. \/ Answer(r, req[r].op, "refused") \/ Become(r, x)
        \/ Continue(r, "setPassword") \/ Continue(r, "serve")
    BY <1>2 DEF ValidateUser, ServeAt
  <2> HIDE DEF x
  <2>1. OthersKeep(r) /\ req'[r].pc \in {"done", "markSeen", "serve", "setPassword"}
        /\ ~Granted(r)'
    BY <2>a, <2>b, AnswerKeeps, BecomeKeeps, ContinueKeeps DEF Granted, At
  <2> QED
    BY <1>2, <2>1, SameRowsFade
    DEF ValidateUser, At, Beside, Plain, Ahead, Past
<1>3. CASE MarkSeen(r)
  <2> DEFINE x == [req[r] EXCEPT !.pc = ServeAt(req[r].op), !.lastSeenAt = NULL]
  <2>a. x.pc \in {"serve", "setPassword"}
    BY FieldTypes DEF ServeAt, RequestState
  <2>b. Become(r, x)  BY <1>3 DEF MarkSeen
  <2> HIDE DEF x
  <2>1. OthersKeep(r) /\ req'[r].pc \in {"serve", "setPassword"} /\ ~Granted(r)'
    BY <2>a, <2>b, BecomeKeeps DEF Granted, At
  <2> QED  BY <1>3, <2>1, SameRowsFade DEF MarkSeen, At, Beside, Plain, Ahead, Past
<1>4. CASE ServeApi(r)
  BY <1>4, AnswerKeeps, SameRowsFade
  DEF ServeApi, At, Beside, Plain, Ahead, Past, Granted
<1>5. CASE LogoutRevoke(r)
  <2>1. RowsFade
    BY <1>5 DEF LogoutRevoke, RowsFade, Issued, Live, TypeInv, TypeOK, TokenRow
  <2> QED
    BY <1>5, <2>1, ContinueKeeps
    DEF LogoutRevoke, At, Beside, Plain, Ahead, Past, Granted
<1>6. CASE LogoutDeny(r)
  BY <1>6, ContinueKeeps, SameRowsFade
  DEF LogoutDeny, At, Beside, Plain, Ahead, Past, Granted
<1>7. CASE LogoutClearSeen(r)
  BY <1>7, AnswerKeeps, SameRowsFade
  DEF LogoutClearSeen, At, Beside, Plain, Ahead, Past, Granted
<1> QED  BY <1>1, <1>2, <1>3, <1>4, <1>5, <1>6, <1>7 DEF AuthenticatedStep

LEMMA BeginKeeps ==
  ASSUME TypeInv, NEW r \in Requests, NEW op, NEW pc,
         Become(r, [req[r] EXCEPT !.op = op, !.pc = pc])
  PROVE  OthersKeep(r) /\ req'[r].pc = pc
<1> DEFINE x == [req[r] EXCEPT !.op = op, !.pc = pc]
<1>1. x.pc = pc  BY FieldTypes DEF RequestState
<1>2. Become(r, x)  OBVIOUS
<1> HIDE DEF x
<1> QED  BY <1>1, <1>2, BecomeKeeps

LEMMA AccountPlain ==
  ASSUME TypeInv, NEW r \in Requests, AccountStep(r)
  PROVE  Beside(r)
<1>1. CASE ChangePasswordReject(r)
  BY <1>1, AnswerKeeps, SameRowsFade
  DEF ChangePasswordReject, At, Beside, Plain, Ahead, Past, Granted
<1>2. CASE ResetPasswordBegin(r)
  <2>1. Become(r, [req[r] EXCEPT !.op = "resetPassword", !.pc = "setPassword"])
    BY <1>2 DEF ResetPasswordBegin
  <2>2. OthersKeep(r) /\ req'[r].pc = "setPassword"  BY <2>1, BeginKeeps
  <2> QED
    BY <1>2, <2>2, SameRowsFade
    DEF ResetPasswordBegin, Receive, At, Beside, Plain, Ahead, Past, Granted
<1>3. CASE SetPassword(r)
  BY <1>3, ContinueKeeps, SameRowsFade
  DEF SetPassword, At, Beside, Plain, Ahead, Past, Granted
<1>4. CASE LogoutAll(r)
  BY <1>4, AnswerKeeps, RevokeFades
  DEF LogoutAll, At, Beside, Plain, Ahead, Past, Granted
<1>5. CASE UnlockAccount(r)
  BY <1>5, AnswerKeeps, SameRowsFade
  DEF UnlockAccount, Receive, At, Beside, Plain, Ahead, Past, Granted
<1>6. CASE ForceLogoutBump(r)
  <2>1. Become(r, [req[r] EXCEPT !.op = "forceLogout", !.pc = "forceRevoke"])
    BY <1>6 DEF ForceLogoutBump
  <2>2. OthersKeep(r) /\ req'[r].pc = "forceRevoke"  BY <2>1, BeginKeeps
  <2> QED
    BY <1>6, <2>2, SameRowsFade
    DEF ForceLogoutBump, Receive, At, Beside, Plain, Ahead, Past, Granted
<1>7. CASE ForceLogoutRevoke(r)
  BY <1>7, AnswerKeeps, RevokeFades
  DEF ForceLogoutRevoke, At, Beside, Plain, Ahead, Past, Granted
<1>8. CASE UpdateUserRead(r)
  <2>1. PICK pc \in {"activate", "deactivate", "keepInactive"} :
          Become(r, [req[r] EXCEPT !.op = "setActive", !.pc = pc])
    BY <1>8 DEF UpdateUserRead
  <2>2. OthersKeep(r) /\ req'[r].pc = pc  BY <2>1, BeginKeeps
  <2> QED
    BY <1>8, <2>2, SameRowsFade
    DEF UpdateUserRead, Receive, At, Beside, Plain, Ahead, Past, Granted
<1>9. CASE SetActive(r)
  BY <1>9, AnswerKeeps, ContinueKeeps, SameRowsFade
  DEF SetActive, At, Beside, Plain, Ahead, Past, Granted
<1>10. CASE DeactivateCut(r)
  BY <1>10, AnswerKeeps, SameRowsFade
  DEF DeactivateCut, At, Beside, Plain, Ahead, Past, Granted
<1> QED
  BY <1>1, <1>2, <1>3, <1>4, <1>5, <1>6, <1>7, <1>8, <1>9, <1>10 DEF AccountStep

LEMMA SocketPlain ==
  ASSUME TypeInv, NEW r \in Requests, SocketStep(r)
  PROVE  Beside(r)
<1>1. CASE SocketConnect(r)
  <2> DEFINE x(a) == [req[r] EXCEPT !.op = "socket", !.pc = "verifySocket",
                                    !.presented = a]
  <2>1. PICK a \in Requests : Become(r, x(a))  BY <1>1 DEF SocketConnect
  <2>2. x(a).pc = "verifySocket"  BY FieldTypes DEF RequestState
  <2> HIDE DEF x
  <2>3. OthersKeep(r) /\ req'[r].pc = "verifySocket"
    BY <2>1, <2>2, BecomeKeeps
  <2> QED
    BY <1>1, <2>3, SameRowsFade
    DEF SocketConnect, Receive, At, Beside, Plain, Ahead, Past, Granted
<1>2. CASE SocketJoin(r)
  BY <1>2, AnswerKeeps, SameRowsFade
  DEF SocketJoin, At, Beside, Plain, Ahead, Past, Granted
<1> QED  BY <1>1, <1>2 DEF SocketStep

LEMMA AbortPlain ==
  ASSUME TypeInv, NEW r \in Requests, Abort(r)
  PROVE  /\ Beside(r)
         /\ req'[r].pc = "aborted" /\ req'[r].attempts = req[r].attempts
<1> DEFINE x == [NewRequest EXCEPT !.pc = "aborted", !.op = req[r].op,
                                   !.attempts = req[r].attempts]
<1>1. x.pc = "aborted" /\ x.attempts = req[r].attempts  BY DEF NewRequest
<1>2. Become(r, x)  BY DEF Abort
<1> HIDE DEF x
<1>3. OthersKeep(r) /\ req'[r] = x  BY <1>2, BecomeKeeps
<1> QED
  BY <1>1, <1>3, SameRowsFade
  DEF Abort, Beside, Plain, Ahead, Past, Granted, At

----------------------------------------------------------------------------
(***************************************************************************)
(* The failure counter and the lock.  ThresholdLocks is inductive.         *)
(***************************************************************************)
Locking(r) == req[r].pc \in {"lock", "aborted"} /\ req[r].attempts >= MaxAttempts

\* A step that touches neither the counter nor the lock, nor a request that
\* is about to lock.
LEMMA ThresholdKeeps ==
  ASSUME ThresholdLocks, NEW r \in Requests, OthersKeep(r), ~Locking(r),
         user'.failedLoginAttempts = user.failedLoginAttempts,
         user'.locked = user.locked
  PROVE  ThresholdLocks'
<1>1. \A q \in Requests : Locking(q) => Locking(q)'
  BY DEF OthersKeep, Locking
<1>2. ThresholdLocks <=>
        (user.failedLoginAttempts >= MaxAttempts =>
           user.locked \/ \E q \in Requests : Locking(q))
  BY DEF ThresholdLocks, Locking
<1>3. ThresholdLocks' <=>
        (user'.failedLoginAttempts >= MaxAttempts =>
           user'.locked \/ \E q \in Requests : Locking(q)')
  BY DEF ThresholdLocks, Locking
<1> QED  BY <1>1, <1>2, <1>3

LEMMA ThresholdStep ==
  ASSUME TypeInv, ThresholdLocks, [Next]_vars
  PROVE  ThresholdLocks'
<1>1. ASSUME NEW r \in Requests, LoginStep(r) PROVE ThresholdLocks'
  <2>1. CASE LoginCountFailure(r)
    <3>1. user'.failedLoginAttempts = user.failedLoginAttempts + 1
          /\ user'.locked = user.locked
      BY <2>1 DEF LoginCountFailure, TypeInv, TypeOK, UserRow
    <3>2. CASE user.failedLoginAttempts + 1 >= MaxAttempts
      <4>1. req'[r].pc = "lock" /\ req'[r].attempts >= MaxAttempts
        BY <2>1, <3>2, CountFailureKeeps, FieldTypes, BoundsAssumption
      <4> QED  BY <4>1 DEF ThresholdLocks
    <3>3. CASE user.failedLoginAttempts + 1 < MaxAttempts
      BY <3>1, <3>3, FieldTypes, BoundsAssumption DEF ThresholdLocks
    <3> QED  BY <3>2, <3>3, FieldTypes, BoundsAssumption
  <2>2. CASE LoginLock(r)
    BY <2>2 DEF LoginLock, TypeInv, TypeOK, UserRow, ThresholdLocks
  <2>3. CASE LoginTakeOver(r)
    <3>1. user'.failedLoginAttempts = 0
      BY <2>3 DEF LoginTakeOver, TypeInv, TypeOK, UserRow
    <3> QED  BY <3>1, BoundsAssumption DEF ThresholdLocks
  <2>4. CASE ~LoginCountFailure(r) /\ ~LoginLock(r) /\ ~LoginTakeOver(r)
    <3>1. OthersKeep(r)
      BY <1>1, LoginPlain, ContinueKeeps DEF LoginIssue, Plain
    <3>2. UNCHANGED user /\ ~Locking(r)
      BY <1>1, <2>4 DEF LoginStep, LoginRead, LoginCheckSession, LoginRevokeOld,
                       LoginIssue, LoginPurge, Receive, At, Locking
    <3> QED  BY <3>1, <3>2, ThresholdKeeps
  <2> QED  BY <2>1, <2>2, <2>3, <2>4
<1>2. ASSUME NEW r \in Requests, RefreshStep(r) PROVE ThresholdLocks'
  <2>1. OthersKeep(r)
    BY <1>2, RefreshPlain, RotationKeeps DEF Beside, Plain
  <2>2. ~Locking(r)
    BY <1>2 DEF RefreshStep, RefreshRead, RefreshClaim, RefreshDiagnose,
               RefreshRevokeAll, RefreshReload, RefreshReissue, RefreshTouch,
               Receive, At, Locking
  <2>3. UNCHANGED user \/ user' = [user EXCEPT !.lastSeenAt = now]
    BY <1>2 DEF RefreshStep, RefreshRead, RefreshClaim, RefreshDiagnose,
               RefreshRevokeAll, RefreshReload, RefreshReissue, RefreshTouch
  <2>4. user'.failedLoginAttempts = user.failedLoginAttempts
        /\ user'.locked = user.locked
    BY <2>3 DEF TypeInv, TypeOK, UserRow
  <2> QED  BY <2>1, <2>2, <2>4, ThresholdKeeps
<1>3. ASSUME NEW r \in Requests, AuthenticatedStep(r) PROVE ThresholdLocks'
  <2>1. OthersKeep(r)  BY <1>3, AuthenticatedPlain DEF Beside, Plain
  <2>2. ~Locking(r)
    BY <1>3 DEF AuthenticatedStep, ValidateDenylist, ValidateUser, MarkSeen,
               ServeApi, LogoutRevoke, LogoutDeny, LogoutClearSeen,
               Receive, At, Locking
  <2>3. UNCHANGED user \/ \E seen : user' = [user EXCEPT !.lastSeenAt = seen]
    BY <1>3 DEF AuthenticatedStep, ValidateDenylist, ValidateUser, MarkSeen,
               ServeApi, LogoutRevoke, LogoutDeny, LogoutClearSeen
  <2>4. user'.failedLoginAttempts = user.failedLoginAttempts
        /\ user'.locked = user.locked
    BY <2>3 DEF TypeInv, TypeOK, UserRow
  <2> QED  BY <2>1, <2>2, <2>4, ThresholdKeeps
<1>4. ASSUME NEW r \in Requests, AccountStep(r) PROVE ThresholdLocks'
  <2>1. CASE UnlockAccount(r)
    <3>1. user'.failedLoginAttempts = 0
      BY <2>1 DEF UnlockAccount, TypeInv, TypeOK, UserRow
    <3> QED  BY <3>1, BoundsAssumption DEF ThresholdLocks
  <2>2. CASE ~UnlockAccount(r)
    <3>1. OthersKeep(r)  BY <1>4, AccountPlain DEF Beside, Plain
    <3>2. ~Locking(r)
      BY <1>4 DEF AccountStep, ChangePasswordReject, ResetPasswordBegin,
                 SetPassword, LogoutAll, UnlockAccount, ForceLogoutBump,
                 ForceLogoutRevoke, UpdateUserRead, SetActive, DeactivateCut,
                 Receive, At, Locking
    <3>3. \/ UNCHANGED user
          \/ \E n : user' = [user EXCEPT !.sessionEpoch = n]
          \/ \E n, seen : user' = [user EXCEPT !.sessionEpoch = n, !.lastSeenAt = seen]
          \/ \E b : user' = [user EXCEPT !.isActive = b]
      BY <1>4, <2>2 DEF AccountStep, ChangePasswordReject, ResetPasswordBegin,
                       SetPassword, LogoutAll, ForceLogoutBump,
                       ForceLogoutRevoke, UpdateUserRead, SetActive, DeactivateCut
    <3>4. user'.failedLoginAttempts = user.failedLoginAttempts
          /\ user'.locked = user.locked
      BY <3>3 DEF TypeInv, TypeOK, UserRow
    <3> QED  BY <3>1, <3>2, <3>4, ThresholdKeeps
  <2> QED  BY <2>1, <2>2
<1>5. ASSUME NEW r \in Requests, Abort(r) PROVE ThresholdLocks'
  <2>1. OthersKeep(r) /\ UNCHANGED user /\ (Locking(r) => Locking(r)')
    BY <1>5, AbortPlain DEF Beside, Plain, Abort, Locking
  <2>2. \A q \in Requests : Locking(q) => Locking(q)'
    BY <2>1 DEF OthersKeep, Locking
  <2> QED  BY <2>1, <2>2 DEF ThresholdLocks, Locking
<1>6. ASSUME NEW r \in Requests, SocketStep(r) PROVE ThresholdLocks'
  <2>1. OthersKeep(r) /\ UNCHANGED user /\ ~Locking(r)
    BY <1>6, SocketPlain
    DEF SocketStep, SocketConnect, SocketJoin, Receive, At, Locking, Beside, Plain
  <2> QED  BY <2>1, ThresholdKeeps
<1>7. ASSUME \/ Tick \/ UNCHANGED vars \/ \E r \in Requests : SocketLeave(r)
      PROVE  ThresholdLocks'
  BY <1>7 DEF Tick, SocketLeave, vars, ThresholdLocks
<1> QED
  BY <1>1, <1>2, <1>3, <1>4, <1>5, <1>6, <1>7 DEF Next, Terminated

(***************************************************************************)
(* However the failed logins of an account interleave with each other,     *)
(* with a login that succeeds and with an unlock, no failure is lost: once *)
(* the counter has reached LOGIN_MAX_ATTEMPTS the account is locked, or    *)
(* one request is left that locks it or died before it could               *)
(* (auth.service.ts:98-107).                                               *)
(***************************************************************************)
THEOREM ThresholdCorrect == Spec => []ThresholdLocks
<1>1. Init => ThresholdLocks
  BY BoundsAssumption DEF Init, ThresholdLocks
<1>2. TypeInv /\ ThresholdLocks /\ [Next]_vars => (TypeInv /\ ThresholdLocks)'
  BY TypeNext, ThresholdStep
<1> QED  BY <1>1, <1>2, TypeInit, PTL DEF Spec

----------------------------------------------------------------------------
(***************************************************************************)
(* Chains of refresh tokens.  Neither property is inductive.  A request    *)
(* that consumed a token holds its chain until it hands out the successor, *)
(* so a chain has one holder, which is a live token or a rotating request; *)
(* and what the request copied from the consumed row must still be there.  *)
(***************************************************************************)
FamilyOf(r) == token[req[r].presented].family

RowsByProgress ==
  \A r \in Requests :
    /\ req[r].pc \notin Past => ~Issued(r)
    /\ Granted(r) \/ req[r].pc \in { "purge", "touch" } => Issued(r)

RootsIssued ==
  \A t \in Requests : Issued(t) => token[t].family \in Requests

RotationExact ==
  \A r \in Requests :
    At(r, "reissue") =>
      /\ req[r].expiresAt = token[req[r].presented].expiresAt
      /\ req[r].sessionEpoch = token[req[r].presented].sessionEpoch

OneHolder ==
  /\ OneLivePerSession
  /\ \A r, t \in Requests : Rotating(r) /\ Live(t) => token[t].family # FamilyOf(r)
  /\ \A q, r \in Requests :
       Rotating(q) /\ Rotating(r) /\ FamilyOf(q) = FamilyOf(r) => q = r

ChainInv ==
  /\ TypeInv
  /\ RowsByProgress
  /\ RootsIssued /\ RotationKeepsSession
  /\ RotationExact
  /\ OneHolder

\* A rotating request presents a token whose row exists, in a chain whose
\* root exists.
LEMMA RotatorPresents ==
  ASSUME ChainInv, NEW r \in Requests, Rotating(r)
  PROVE  /\ req[r].presented \in Requests
         /\ Issued(req[r].presented)
         /\ FamilyOf(r) \in Requests /\ Issued(FamilyOf(r))
<1>1. Presents(r)
  BY DEF ChainInv, TypeInv, Presenting, PresentingCounters, Rotating, At
<1>2. Issued(req[r].presented)
  BY <1>1 DEF Presents, ChainInv, RowsByProgress
<1> QED
  BY <1>1, <1>2 DEF Presents, FamilyOf, ChainInv, RootsIssued, RotationKeepsSession

\* A request that is still to insert its row roots no chain, and presents
\* another request's token.
LEMMA FreshRow ==
  ASSUME ChainInv, NEW r \in Requests, req[r].pc \notin Past
  PROVE  /\ ~Issued(r)
         /\ \A t \in Requests : Issued(t) => token[t].family # r
         /\ \A q \in Requests : Rotating(q) => req[q].presented # r /\ FamilyOf(q) # r
<1>1. ~Issued(r)  BY DEF ChainInv, RowsByProgress
<1>2. \A t \in Requests : Issued(t) => token[t].family # r
  BY <1>1 DEF ChainInv, RotationKeepsSession
<1>3. \A q \in Requests : Rotating(q) => req[q].presented # r /\ FamilyOf(q) # r
  BY <1>1, <1>2, RotatorPresents
<1> QED  BY <1>1, <1>2, <1>3

\* Steps that neither rotate nor insert.
LEMMA ChainPlain ==
  ASSUME ChainInv, NEW r \in Requests, Plain(r), TypeInv'
  PROVE  ChainInv'
<1>1. \A q \in Requests :
        Rotating(q)' => /\ Rotating(q) /\ req'[q] = req[q]
                        /\ req[q].presented \in Requests
                        /\ FamilyOf(q)' = FamilyOf(q)
  <2> SUFFICES ASSUME NEW q \in Requests, Rotating(q)'
               PROVE  /\ Rotating(q) /\ req'[q] = req[q]
                      /\ req[q].presented \in Requests
                      /\ FamilyOf(q)' = FamilyOf(q)
    OBVIOUS
  <2>1. q # r  BY DEF Plain, Rotating, At
  <2>2. req'[q] = req[q] /\ Rotating(q)
    BY <2>1 DEF Plain, OthersKeep, Rotating, At
  <2> QED  BY <2>2, RotatorPresents DEF FamilyOf, Plain, RowsFade
<1>2. RowsByProgress'
  <2> SUFFICES ASSUME NEW q \in Requests
               PROVE  /\ req'[q].pc \notin Past => ~Issued(q)'
                      /\ Granted(q)' \/ req'[q].pc \in { "purge", "touch" } => Issued(q)'
    BY DEF RowsByProgress
  <2>1. Issued(q)' <=> Issued(q)  BY DEF Plain, RowsFade
  <2>2. CASE q = r
    BY <2>1, <2>2 DEF Plain, ChainInv, RowsByProgress
  <2>3. CASE q # r
    <3>1. req'[q] = req[q]  BY <2>3 DEF Plain, OthersKeep
    <3>2. Granted(q)' <=> Granted(q)  BY <3>1 DEF Granted, At
    <3> QED  BY <2>1, <3>1, <3>2 DEF ChainInv, RowsByProgress
  <2> QED  BY <2>2, <2>3
<1>3. RootsIssued' /\ RotationKeepsSession'
  BY DEF Plain, RowsFade, ChainInv, RootsIssued, RotationKeepsSession
<1>4. RotationExact'
  BY <1>1 DEF Plain, RowsFade, ChainInv, RotationExact, Rotating, At
<1>5. OneLivePerSession'
  BY DEF Plain, RowsFade, ChainInv, OneHolder, OneLivePerSession
<1>6. ASSUME NEW q \in Requests, NEW t \in Requests, Rotating(q)', Live(t)'
      PROVE  token'[t].family # FamilyOf(q)'
  <2>1. Live(t) /\ token'[t].family = token[t].family
    BY <1>6 DEF Plain, RowsFade
  <2> QED  BY <1>1, <1>6, <2>1 DEF ChainInv, OneHolder
<1>7. ASSUME NEW p \in Requests, NEW q \in Requests, Rotating(p)', Rotating(q)',
             FamilyOf(p)' = FamilyOf(q)'
      PROVE  p = q
  BY <1>1, <1>7 DEF ChainInv, OneHolder
<1> QED
  BY <1>2, <1>3, <1>4, <1>5, <1>6, <1>7 DEF ChainInv, OneHolder

\* Claiming: the holder of the chain was the live token, and is now r.
LEMMA ChainClaim ==
  ASSUME ChainInv, NEW r \in Requests, RefreshClaim(r), TypeInv'
  PROVE  ChainInv'
<1>1. PICK t0 \in Requests : t0 = req[r].presented /\ Issued(t0)
  BY DEF RefreshClaim, At, ChainInv, TypeInv, Presenting, PresentingCounters, Presents,
         RowsByProgress
<1>2. CASE ~Live(t0)
  <2>1. Continue(r, "diagnose") /\ UNCHANGED token
    BY <1>1, <1>2 DEF RefreshClaim, Live
  <2>2. OthersKeep(r) /\ req'[r].pc = "diagnose"
    BY <2>1, ContinueKeeps DEF ChainInv
  <2>3. Plain(r)
    BY <2>1, <2>2, SameRowsFade DEF RefreshClaim, At, Plain, Past, Granted
  <2> QED  BY <2>3, ChainPlain
<1>3. CASE Live(t0)
  <2>1. Continue(r, "reload") /\ token' = [token EXCEPT ![t0].state = "spent"]
    BY <1>1, <1>3 DEF RefreshClaim, Live
  <2>2. OthersKeep(r) /\ req'[r].pc = "reload" /\ req'[r].presented = t0
    BY <1>1, <2>1, ContinueKeeps DEF ChainInv
  <2>3. ~Live(t0)' /\ RowsFade
    BY <1>1, <1>3, <2>1
    DEF RowsFade, Issued, Live, ChainInv, TypeInv, TypeOK, TokenRow
  <2>4. \A q \in Requests \ {r} :
          Rotating(q)' => Rotating(q) /\ FamilyOf(q)' = FamilyOf(q)
    <3> SUFFICES ASSUME NEW q \in Requests \ {r}, Rotating(q)'
                 PROVE  Rotating(q) /\ FamilyOf(q)' = FamilyOf(q)
      OBVIOUS
    <3>1. req'[q] = req[q] /\ Rotating(q)
      BY <2>2 DEF OthersKeep, Rotating, At
    <3> QED  BY <2>3, <3>1, RotatorPresents DEF FamilyOf, RowsFade
  <2>5. FamilyOf(r)' = token[t0].family
    BY <1>1, <2>2, <2>3 DEF FamilyOf, RowsFade
  <2>6. RowsByProgress'
    <3> SUFFICES ASSUME NEW q \in Requests
                 PROVE  /\ req'[q].pc \notin Past => ~Issued(q)'
                        /\ Granted(q)' \/ req'[q].pc \in { "purge", "touch" } => Issued(q)'
      BY DEF RowsByProgress
    <3>1. Issued(q)' <=> Issued(q)  BY <2>3 DEF RowsFade
    <3>2. CASE q = r
      BY <2>2, <3>1, <3>2
      DEF RefreshClaim, At, Past, Granted, ChainInv, RowsByProgress
    <3>3. CASE q # r
      <4>1. req'[q] = req[q]  BY <2>2, <3>3 DEF OthersKeep
      <4>2. Granted(q)' <=> Granted(q)  BY <4>1 DEF Granted, At
      <4> QED  BY <3>1, <4>1, <4>2 DEF ChainInv, RowsByProgress
    <3> QED  BY <3>2, <3>3
  <2>7. RootsIssued' /\ RotationKeepsSession'
    BY <2>3 DEF RowsFade, ChainInv, RootsIssued, RotationKeepsSession
  <2>8. RotationExact'
    <3> SUFFICES ASSUME NEW q \in Requests, At(q, "reissue")'
                 PROVE  /\ req'[q].expiresAt = token'[req'[q].presented].expiresAt
                        /\ req'[q].sessionEpoch = token'[req'[q].presented].sessionEpoch
      BY DEF RotationExact
    <3>1. q # r  BY <2>2 DEF At
    <3>2. req'[q] = req[q] /\ At(q, "reissue") /\ Rotating(q)
      BY <2>2, <3>1 DEF OthersKeep, At, Rotating
    <3> QED  BY <2>3, <3>2, RotatorPresents DEF RowsFade, ChainInv, RotationExact
  <2>9. OneLivePerSession'
    BY <2>3 DEF RowsFade, ChainInv, OneHolder, OneLivePerSession
  <2>10. ASSUME NEW q \in Requests, NEW t \in Requests, Rotating(q)', Live(t)'
         PROVE  token'[t].family # FamilyOf(q)'
    <3>1. Live(t) /\ t # t0 /\ token'[t].family = token[t].family
      BY <2>3, <2>10 DEF RowsFade
    <3>2. CASE q = r
      BY <1>1, <1>3, <2>5, <3>1, <3>2 DEF ChainInv, OneHolder, OneLivePerSession
    <3>3. CASE q # r
      BY <2>4, <2>10, <3>1, <3>3 DEF ChainInv, OneHolder
    <3> QED  BY <3>2, <3>3
  <2>11. ASSUME NEW p \in Requests, NEW q \in Requests, Rotating(p)', Rotating(q)',
                FamilyOf(p)' = FamilyOf(q)'
         PROVE  p = q
    <3>1. CASE p # r /\ q # r
      BY <2>4, <2>11, <3>1 DEF ChainInv, OneHolder
    <3>2. CASE p = r /\ q # r
      BY <1>1, <1>3, <2>4, <2>5, <2>11, <3>2 DEF ChainInv, OneHolder
    <3>3. CASE p # r /\ q = r
      BY <1>1, <1>3, <2>4, <2>5, <2>11, <3>3 DEF ChainInv, OneHolder
    <3> QED  BY <3>1, <3>2, <3>3
  <2> QED
    BY <2>6, <2>7, <2>8, <2>9, <2>10, <2>11 DEF ChainInv, OneHolder
<1> QED  BY <1>2, <1>3

\* Reading the consumed row again: r still holds the chain, or gives it up.
LEMMA ChainReload ==
  ASSUME ChainInv, NEW r \in Requests, RefreshReload(r), TypeInv'
  PROVE  ChainInv'
<1> DEFINE t0 == req[r].presented
           x == [req[r] EXCEPT !.pc = "reissue", !.expiresAt = token[t0].expiresAt]
<1>1. CASE Answer(r, "refresh", "refused")
  <2>1. OthersKeep(r) /\ req'[r].pc = "done" /\ req'[r].result = "refused"
    BY <1>1, AnswerKeeps DEF ChainInv
  <2>2. Plain(r)
    BY <2>1, SameRowsFade DEF RefreshReload, At, Plain, Past, Granted
  <2> QED  BY <2>2, ChainPlain
<1>2. CASE Become(r, x) /\ token[t0].sessionEpoch = req[r].sessionEpoch
  <2>1. /\ x.pc = "reissue" /\ x.presented = t0
        /\ x.expiresAt = token[t0].expiresAt /\ x.sessionEpoch = req[r].sessionEpoch
    BY FieldTypes DEF RequestState, ChainInv
  <2> HIDE DEF x
  <2>2. /\ OthersKeep(r)
        /\ req'[r].pc = "reissue" /\ req'[r].presented = t0
        /\ req'[r].expiresAt = token[t0].expiresAt
        /\ req'[r].sessionEpoch = token[t0].sessionEpoch
    BY <1>2, <2>1, BecomeKeeps DEF ChainInv
  <2>3. UNCHANGED token /\ Rotating(r) /\ At(r, "reload")
    BY DEF RefreshReload, Rotating
  <2>4. \A q \in Requests :
          Rotating(q)' => Rotating(q) /\ req'[q].presented = req[q].presented
    BY <2>2, <2>3 DEF OthersKeep, Rotating, At
  <2>5. \A q \in Requests : Rotating(q)' => FamilyOf(q)' = FamilyOf(q)
    BY <2>3, <2>4 DEF FamilyOf
  <2>6. RowsByProgress'
    <3> SUFFICES ASSUME NEW q \in Requests
                 PROVE  /\ req'[q].pc \notin Past => ~Issued(q)'
                        /\ Granted(q)' \/ req'[q].pc \in { "purge", "touch" } => Issued(q)'
      BY DEF RowsByProgress
    <3>1. Issued(q)' <=> Issued(q)  BY <2>3 DEF Issued
    <3>2. CASE q = r
      BY <2>2, <2>3, <3>1, <3>2 DEF At, Past, Granted, ChainInv, RowsByProgress
    <3>3. CASE q # r
      <4>1. req'[q] = req[q]  BY <2>2, <3>3 DEF OthersKeep
      <4>2. Granted(q)' <=> Granted(q)  BY <4>1 DEF Granted, At
      <4> QED  BY <3>1, <4>1, <4>2 DEF ChainInv, RowsByProgress
    <3> QED  BY <3>2, <3>3
  <2>7. RootsIssued' /\ RotationKeepsSession' /\ OneLivePerSession'
    BY <2>3 DEF ChainInv, RootsIssued, RotationKeepsSession, OneHolder,
                OneLivePerSession, Issued, Live
  <2>8. RotationExact'
    BY <2>2, <2>3 DEF OthersKeep, ChainInv, RotationExact, At
  <2>9. ASSUME NEW q \in Requests, NEW t \in Requests, Rotating(q)', Live(t)'
        PROVE  token'[t].family # FamilyOf(q)'
    BY <2>3, <2>4, <2>5, <2>9 DEF ChainInv, OneHolder, Live
  <2>10. ASSUME NEW p \in Requests, NEW q \in Requests, Rotating(p)', Rotating(q)',
                FamilyOf(p)' = FamilyOf(q)'
         PROVE  p = q
    BY <2>4, <2>5, <2>10 DEF ChainInv, OneHolder
  <2> QED
    BY <2>6, <2>7, <2>8, <2>9, <2>10 DEF ChainInv, OneHolder
<1> QED  BY <1>1, <1>2 DEF RefreshReload

(***************************************************************************)
(* Inserting the row of r, at a login or at a rotation: every other row    *)
(* and every other rotation is as it was.                                  *)
(***************************************************************************)
Inserts(r, row, pc) ==
  /\ OthersKeep(r) /\ req[r].pc \notin Past
  /\ token' = [token EXCEPT ![r] = row]
  /\ req'[r].pc = pc /\ pc \in { "purge", "touch" }
  /\ row.state = "live"

LEMMA InsertKeeps ==
  ASSUME ChainInv, NEW r \in Requests, NEW row, NEW pc, Inserts(r, row, pc)
  PROVE  /\ token'[r] = row /\ Issued(r)' /\ ~Rotating(r)'
         /\ \A t \in Requests \ {r} :
              /\ token'[t] = token[t]
              /\ Issued(t)' <=> Issued(t)
              /\ Live(t)' <=> Live(t)
         /\ \A q \in Requests :
              Rotating(q)' => /\ q # r /\ Rotating(q) /\ req'[q] = req[q]
                              /\ req[q].presented \in Requests \ {r}
                              /\ FamilyOf(q)' = FamilyOf(q)
<1>1. token'[r] = row /\ \A t \in Requests \ {r} : token'[t] = token[t]
  BY DEF Inserts, ChainInv, TypeInv, TypeOK
<1>2. Issued(r)' /\ ~Rotating(r)'
  BY <1>1 DEF Inserts, Issued, Rotating, At
<1>3. \A t \in Requests \ {r} : (Issued(t)' <=> Issued(t)) /\ (Live(t)' <=> Live(t))
  BY <1>1 DEF Issued, Live
<1>4. ASSUME NEW q \in Requests, Rotating(q)'
      PROVE  /\ q # r /\ Rotating(q) /\ req'[q] = req[q]
             /\ req[q].presented \in Requests \ {r}
             /\ FamilyOf(q)' = FamilyOf(q)
  <2>1. q # r  BY <1>2, <1>4
  <2>2. req'[q] = req[q] /\ Rotating(q)
    BY <1>4, <2>1 DEF Inserts, OthersKeep, Rotating, At
  <2>3. req[q].presented \in Requests \ {r}
    BY <2>2, RotatorPresents, FreshRow DEF Inserts
  <2> QED  BY <1>1, <2>1, <2>2, <2>3 DEF FamilyOf
<1> QED  BY <1>1, <1>2, <1>3, <1>4

LEMMA InsertProgress ==
  ASSUME ChainInv, NEW r \in Requests, NEW row, NEW pc, Inserts(r, row, pc)
  PROVE  RowsByProgress' /\ RotationExact'
<1>1. ASSUME NEW q \in Requests
      PROVE  /\ req'[q].pc \notin Past => ~Issued(q)'
             /\ Granted(q)' \/ req'[q].pc \in { "purge", "touch" } => Issued(q)'
  <2>1. CASE q = r  BY <2>1, InsertKeeps DEF Inserts, Past
  <2>2. CASE q # r
    <3>1. req'[q] = req[q]  BY <2>2 DEF Inserts, OthersKeep
    <3>2. Granted(q)' <=> Granted(q)  BY <3>1 DEF Granted, At
    <3> QED  BY <2>2, <3>1, <3>2, InsertKeeps DEF ChainInv, RowsByProgress
  <2> QED  BY <2>1, <2>2
<1>2. ASSUME NEW q \in Requests, At(q, "reissue")'
      PROVE  /\ req'[q].expiresAt = token'[req'[q].presented].expiresAt
             /\ req'[q].sessionEpoch = token'[req'[q].presented].sessionEpoch
  <2>1. Rotating(q)'  BY <1>2 DEF Rotating
  <2>2. req'[q] = req[q] /\ req[q].presented \in Requests \ {r}
    BY <2>1, InsertKeeps
  <2>3. At(q, "reissue")  BY <1>2, <2>2 DEF At
  <2> QED  BY <2>2, <2>3, InsertKeeps DEF ChainInv, RotationExact
<1> QED  BY <1>1, <1>2 DEF RowsByProgress, RotationExact

\* A login roots a new chain, which nobody else holds.
LEMMA ChainIssue ==
  ASSUME ChainInv, NEW r \in Requests, LoginIssue(r), TypeInv'
  PROVE  ChainInv'
<1> DEFINE row == [ state |-> "live", expiresAt |-> now + RefreshTtl,
                    sessionEpoch |-> req[r].sessionEpoch + 1,
                    parent |-> NULL, family |-> r ]
<1>1. row.state = "live" /\ row.family = r  OBVIOUS
<1>2. Inserts(r, row, "purge")
  BY ContinueKeeps DEF LoginIssue, Inserts, Past, At, ChainInv
<1> HIDE DEF row
<1>3. RowsByProgress' /\ RotationExact'  BY <1>2, InsertProgress
<1>4. /\ \A t \in Requests : Live(t) => Issued(t)
      /\ \A t \in Requests : Issued(t) => token[t].family # r
      /\ \A q \in Requests : Rotating(q) => FamilyOf(q) # r
  BY <1>2, FreshRow DEF Inserts, Live, Issued
<1>5. RootsIssued' /\ RotationKeepsSession'
  <2> SUFFICES ASSUME NEW t \in Requests, Issued(t)'
               PROVE  /\ token'[t].family \in Requests /\ Issued(token[t].family)'
                      /\ token'[t].expiresAt = token'[token'[t].family].expiresAt
                      /\ token'[t].sessionEpoch = token'[token'[t].family].sessionEpoch
    BY DEF RootsIssued, RotationKeepsSession
  <2>1. CASE t = r  BY <1>1, <1>2, <2>1, InsertKeeps
  <2>2. CASE t # r
    <3>1. Issued(t) /\ token'[t] = token[t]  BY <1>2, <2>2, InsertKeeps
    <3>2. token[t].family \in Requests \ {r}
      BY <1>4, <3>1 DEF ChainInv, RootsIssued
    <3> QED
      BY <1>2, <3>1, <3>2, InsertKeeps DEF ChainInv, RotationKeepsSession
  <2> QED  BY <2>1, <2>2
<1>6. OneLivePerSession'
  <2> SUFFICES ASSUME NEW t \in Requests, NEW u \in Requests, Live(t)', Live(u)',
                      token'[t].family = token'[u].family
               PROVE  t = u
    BY DEF OneLivePerSession
  <2>1. CASE t # r /\ u # r
    BY <1>2, <2>1, InsertKeeps DEF ChainInv, OneHolder, OneLivePerSession
  <2>2. CASE t = r /\ u # r  BY <1>1, <1>2, <1>4, <2>2, InsertKeeps
  <2>3. CASE t # r /\ u = r  BY <1>1, <1>2, <1>4, <2>3, InsertKeeps
  <2> QED  BY <2>1, <2>2, <2>3
<1>7. ASSUME NEW q \in Requests, NEW t \in Requests, Rotating(q)', Live(t)'
      PROVE  token'[t].family # FamilyOf(q)'
  <2>1. Rotating(q) /\ FamilyOf(q)' = FamilyOf(q)  BY <1>2, <1>7, InsertKeeps
  <2>2. CASE t = r  BY <1>1, <1>2, <1>4, <2>1, <2>2, InsertKeeps
  <2>3. CASE t # r  BY <1>2, <1>7, <2>1, <2>3, InsertKeeps DEF ChainInv, OneHolder
  <2> QED  BY <2>2, <2>3
<1>8. ASSUME NEW p \in Requests, NEW q \in Requests, Rotating(p)', Rotating(q)',
             FamilyOf(p)' = FamilyOf(q)'
      PROVE  p = q
  BY <1>2, <1>8, InsertKeeps DEF ChainInv, OneHolder
<1> QED  BY <1>3, <1>5, <1>6, <1>7, <1>8 DEF ChainInv, OneHolder

\* A rotation hands the chain from r to the token it inserts.
LEMMA ChainReissue ==
  ASSUME ChainInv, NEW r \in Requests, RefreshReissue(r), TypeInv'
  PROVE  ChainInv'
<1> DEFINE row == [ state |-> "live", expiresAt |-> req[r].expiresAt,
                    sessionEpoch |-> req[r].sessionEpoch,
                    parent |-> req[r].presented, family |-> FamilyOf(r) ]
<1>1. /\ row.state = "live" /\ row.family = FamilyOf(r)
      /\ row.expiresAt = req[r].expiresAt
      /\ row.sessionEpoch = req[r].sessionEpoch
  OBVIOUS
<1>2. Inserts(r, row, "touch")
  BY ContinueKeeps DEF RefreshReissue, Inserts, Past, At, ChainInv, FamilyOf
<1>3. Rotating(r) /\ At(r, "reissue")  BY DEF RefreshReissue, Rotating
<1> HIDE DEF row
<1>4. RowsByProgress' /\ RotationExact'  BY <1>2, InsertProgress
<1>5. PICK f \in Requests \ {r} : f = FamilyOf(r) /\ Issued(f)
  BY <1>2, <1>3, RotatorPresents, FreshRow DEF Inserts
<1>6. /\ req[r].presented \in Requests /\ Issued(req[r].presented)
      /\ \A t \in Requests : Issued(t) => token[t].family # r
  BY <1>2, <1>3, RotatorPresents, FreshRow DEF Inserts
<1>7. row.expiresAt = token[f].expiresAt /\ row.sessionEpoch = token[f].sessionEpoch
  BY <1>1, <1>3, <1>5, <1>6
  DEF ChainInv, RotationExact, RotationKeepsSession, FamilyOf
<1>8. RootsIssued' /\ RotationKeepsSession'
  <2> SUFFICES ASSUME NEW t \in Requests, Issued(t)'
               PROVE  /\ token'[t].family \in Requests /\ Issued(token[t].family)'
                      /\ token'[t].expiresAt = token'[token'[t].family].expiresAt
                      /\ token'[t].sessionEpoch = token'[token'[t].family].sessionEpoch
    BY DEF RootsIssued, RotationKeepsSession
  <2>1. CASE t = r
    BY <1>1, <1>2, <1>5, <1>7, <2>1, InsertKeeps
  <2>2. CASE t # r
    <3>1. Issued(t) /\ token'[t] = token[t]  BY <1>2, <2>2, InsertKeeps
    <3>2. token[t].family \in Requests \ {r}
      BY <1>6, <3>1 DEF ChainInv, RootsIssued
    <3> QED
      BY <1>2, <3>1, <3>2, InsertKeeps DEF ChainInv, RotationKeepsSession
  <2> QED  BY <2>1, <2>2
<1>9. \A t \in Requests \ {r} : Live(t)' => token'[t].family # f
  BY <1>2, <1>3, <1>5, InsertKeeps DEF ChainInv, OneHolder
<1>10. OneLivePerSession'
  <2> SUFFICES ASSUME NEW t \in Requests, NEW u \in Requests, Live(t)', Live(u)',
                      token'[t].family = token'[u].family
               PROVE  t = u
    BY DEF OneLivePerSession
  <2>1. CASE t # r /\ u # r
    BY <1>2, <2>1, InsertKeeps DEF ChainInv, OneHolder, OneLivePerSession
  <2>2. CASE t = r /\ u # r  BY <1>1, <1>2, <1>5, <1>9, <2>2, InsertKeeps
  <2>3. CASE t # r /\ u = r  BY <1>1, <1>2, <1>5, <1>9, <2>3, InsertKeeps
  <2> QED  BY <2>1, <2>2, <2>3
<1>11. ASSUME NEW q \in Requests, NEW t \in Requests, Rotating(q)', Live(t)'
       PROVE  token'[t].family # FamilyOf(q)'
  <2>1. q # r /\ Rotating(q) /\ FamilyOf(q)' = FamilyOf(q)
    BY <1>2, <1>11, InsertKeeps
  <2>2. CASE t = r
    BY <1>1, <1>2, <1>3, <1>5, <2>1, <2>2, InsertKeeps DEF ChainInv, OneHolder
  <2>3. CASE t # r  BY <1>2, <1>11, <2>1, <2>3, InsertKeeps DEF ChainInv, OneHolder
  <2> QED  BY <2>2, <2>3
<1>12. ASSUME NEW p \in Requests, NEW q \in Requests, Rotating(p)', Rotating(q)',
              FamilyOf(p)' = FamilyOf(q)'
       PROVE  p = q
  BY <1>2, <1>12, InsertKeeps DEF ChainInv, OneHolder
<1> QED  BY <1>4, <1>8, <1>10, <1>11, <1>12 DEF ChainInv, OneHolder

LEMMA ChainInit == Init => ChainInv
<1> SUFFICES ASSUME Init PROVE ChainInv  OBVIOUS
<1>1. \A t \in Requests : ~Issued(t) /\ ~Live(t)
  BY DEF Init, NoToken, Issued, Live
<1>2. \A r \in Requests : ~Granted(r) /\ ~Rotating(r) /\ req[r].pc = "new"
  BY DEF Init, NewRequest, Granted, Rotating, At
<1> QED
  BY <1>1, <1>2, TypeInit
  DEF ChainInv, RowsByProgress, RootsIssued, RotationKeepsSession, RotationExact,
      OneHolder, OneLivePerSession, Rotating

LEMMA ChainNext == ChainInv /\ [Next]_vars => ChainInv'
<1> SUFFICES ASSUME ChainInv, [Next]_vars PROVE ChainInv'  OBVIOUS
<1>1. TypeInv'  BY TypeNext DEF ChainInv
<1>2. ASSUME NEW r \in Requests, LoginStep(r) PROVE ChainInv'
  <2>1. CASE LoginIssue(r)   BY <1>1, <2>1, ChainIssue
  <2>2. CASE ~LoginIssue(r)  BY <1>1, <1>2, <2>2, LoginPlain, ChainPlain DEF ChainInv
  <2> QED  BY <2>1, <2>2
<1>3. ASSUME NEW r \in Requests, RefreshStep(r) PROVE ChainInv'
  <2>1. CASE RefreshClaim(r)    BY <1>1, <2>1, ChainClaim
  <2>2. CASE RefreshReload(r)   BY <1>1, <2>2, ChainReload
  <2>3. CASE RefreshReissue(r)  BY <1>1, <2>3, ChainReissue
  <2>4. CASE ~RefreshClaim(r) /\ ~RefreshReload(r) /\ ~RefreshReissue(r)
    BY <1>1, <1>3, <2>4, RefreshPlain, ChainPlain DEF Beside, ChainInv
  <2> QED  BY <2>1, <2>2, <2>3, <2>4
<1>4. ASSUME NEW r \in Requests,
             AuthenticatedStep(r) \/ AccountStep(r) \/ SocketStep(r) \/ Abort(r)
      PROVE  ChainInv'
  BY <1>1, <1>4, AuthenticatedPlain, AccountPlain, SocketPlain, AbortPlain, ChainPlain
  DEF Beside, ChainInv
<1>5. ASSUME \/ Tick \/ UNCHANGED vars \/ \E r \in Requests : SocketLeave(r)
      PROVE  ChainInv'
  <2>1. UNCHANGED <<token, req>>  BY <1>5 DEF Tick, SocketLeave, vars
  <2> QED
    BY <1>1, <2>1
    DEF ChainInv, RowsByProgress, RootsIssued, RotationKeepsSession, RotationExact,
        OneHolder, OneLivePerSession, Rotating, FamilyOf, Issued, Live, Granted, At
<1> QED
  BY <1>2, <1>3, <1>4, <1>5 DEF Next, Terminated

(***************************************************************************)
(* A session never has two unrevoked refresh tokens, however the requests  *)
(* that rotate, replay, revoke and purge them interleave, and whichever of *)
(* them die in flight (auth.service.ts:302-308).                           *)
(***************************************************************************)
THEOREM OneLivePerSessionCorrect == Spec => []OneLivePerSession
<1>1. ChainInv => OneLivePerSession  BY DEF ChainInv, OneHolder
<1> QED  BY <1>1, ChainInit, ChainNext, PTL DEF Spec

(***************************************************************************)
(* Every token of a chain has the expiry and the epoch of the login the    *)
(* chain began with: rotating neither prolongs a session nor carries it    *)
(* over a newer epoch (auth.service.ts:361-399).                           *)
(***************************************************************************)
THEOREM RotationKeepsSessionCorrect == Spec => []RotationKeepsSession
<1>1. ChainInv => RotationKeepsSession  BY DEF ChainInv
<1> QED  BY <1>1, ChainInit, ChainNext, PTL DEF Spec
----------------------------------------------------------------------------
(***************************************************************************)
(* The refinement of SessionLine.  What the line of a session is follows   *)
(* from who holds its chain, of whom there is at most one; what is missing *)
(* for a chain without holder is which rows root one.                      *)
(***************************************************************************)
Rooted ==
  \A t \in Requests :
    IF Issued(t) THEN token[token[t].family].family = token[t].family
                 ELSE token[t].family = NULL

RootInv == ChainInv /\ Rooted

Held(f) ==
  \/ \E t \in Requests : Live(t) /\ token[t].family = f
  \/ \E r \in Requests : Rotating(r) /\ FamilyOf(r) = f

\* The line of a session by its holder.
Lines ==
  /\ \A f, t \in Requests :
       Live(t) /\ token[t].family = f => LineOf(f) = Line!LiveAt(t)
  /\ \A f, r \in Requests :
       Rotating(r) /\ FamilyOf(r) = f => LineOf(f) = Line!Phase("rotating")
  /\ \A f \in Requests :
       ~Held(f) => LineOf(f) = Line!Phase(IF token[f].family = f THEN "closed" ELSE "unopened")

LEMMA LinesHold == ChainInv => Lines
<1> SUFFICES ASSUME ChainInv PROVE Lines  OBVIOUS
<1>1. ASSUME NEW f \in Requests, NEW t \in Requests, Live(t), token[t].family = f
      PROVE  LineOf(f) = Line!LiveAt(t)
  <2>1. Heads(f) = {t}
    BY <1>1 DEF Heads, ChainInv, OneHolder, OneLivePerSession
  <2>2. (CHOOSE u \in {t} : TRUE) = t  OBVIOUS
  <2> QED  BY <2>1, <2>2 DEF LineOf, Line!LiveAt
<1>2. ASSUME NEW f \in Requests, NEW r \in Requests, Rotating(r), FamilyOf(r) = f
      PROVE  LineOf(f) = Line!Phase("rotating")
  <2>1. Heads(f) = {}  BY <1>2 DEF Heads, ChainInv, OneHolder
  <2>2. r \in Rotators(f)  BY <1>2 DEF Rotators, FamilyOf
  <2> QED  BY <2>1, <2>2 DEF LineOf, Line!Phase
<1>3. ASSUME NEW f \in Requests, ~Held(f)
      PROVE  LineOf(f) = Line!Phase(IF token[f].family = f THEN "closed" ELSE "unopened")
  <2>1. Heads(f) = {} /\ Rotators(f) = {}
    BY <1>3 DEF Held, Heads, Rotators, FamilyOf
  <2> QED  BY <2>1 DEF LineOf, Line!Phase
<1> QED  BY <1>1, <1>2, <1>3 DEF Lines

LEMMA LinesNext == (ChainInv => Lines)'
  BY LinesHold, PTL

\* In every state each line is one of LineState.
LineTyped == \A f \in Requests : LineOf(f) \in Line!LineState

LEMMA LinesTyped == LineTyped
<1> SUFFICES ASSUME NEW f \in Requests PROVE LineOf(f) \in Line!LineState  BY DEF LineTyped
<1>1. Heads(f) # {} => (CHOOSE t \in Heads(f) : TRUE) \in Requests
  <2>1. Heads(f) # {} => (CHOOSE t \in Heads(f) : TRUE) \in Heads(f)  OBVIOUS
  <2> QED  BY <2>1 DEF Heads
<1> QED  BY <1>1 DEF LineOf, Line!LineState

LEMMA LinesTypedNext == LineTyped'
  BY LinesTyped, PTL

\* A session whose chain is held has begun.
LEMMA HeldRooted ==
  ASSUME RootInv, NEW f \in Requests, Held(f)
  PROVE  /\ token[f].family = f
         /\ LineOf(f).phase \in {"live", "rotating"}
<1>1. CASE \E t \in Requests : Live(t) /\ token[t].family = f
  <2>1. PICK t \in Requests : Live(t) /\ token[t].family = f  BY <1>1
  <2>2. Issued(t)  BY <2>1 DEF Issued, Live
  <2>3. LineOf(f) = Line!LiveAt(t)  BY <2>1, LinesHold DEF RootInv, Lines
  <2> QED  BY <2>1, <2>2, <2>3 DEF RootInv, Rooted, Line!LiveAt
<1>2. CASE \E r \in Requests : Rotating(r) /\ FamilyOf(r) = f
  <2>1. PICK r \in Requests : Rotating(r) /\ FamilyOf(r) = f  BY <1>2
  <2>2. req[r].presented \in Requests /\ Issued(req[r].presented)
    BY <2>1, RotatorPresents DEF RootInv
  <2>3. LineOf(f) = Line!Phase("rotating")  BY <2>1, LinesHold DEF RootInv, Lines
  <2> QED  BY <2>1, <2>2, <2>3 DEF RootInv, Rooted, FamilyOf, Line!Phase
<1> QED  BY <1>1, <1>2 DEF Held

LEMMA RootedFades ==
  ASSUME RootInv, RowsFade
  PROVE  Rooted'
<1>1. ASSUME NEW t \in Requests, Issued(t)
      PROVE  token[t].family \in Requests
  BY <1>1 DEF RootInv, ChainInv, RootsIssued
<1> QED  BY <1>1 DEF RootInv, Rooted, RowsFade

\* Steps that insert nothing and begin no rotation only end sessions.
LEMMA FadesClose ==
  ASSUME RootInv, ChainInv', RowsFade,
         \A q \in Requests : Rotating(q)' => Rotating(q) /\ FamilyOf(q)' = FamilyOf(q)
  PROVE  Line!Close
<1>1. Lines /\ Lines'  BY LinesHold, LinesNext DEF RootInv
<1>2. ASSUME NEW f \in Requests
      PROVE  \/ LineOf(f)' = LineOf(f)
             \/ /\ LineOf(f).phase \in {"live", "rotating"}
                /\ LineOf(f)' = Line!Phase("closed")
  <2>1. token'[f].family = token[f].family  BY DEF RowsFade
  <2>2. CASE \E t \in Requests : Live(t)' /\ token'[t].family = f
    <3>1. PICK t \in Requests : Live(t)' /\ token'[t].family = f  BY <2>2
    <3>2. Live(t) /\ token[t].family = f  BY <3>1 DEF RowsFade
    <3> QED  BY <1>1, <3>1, <3>2 DEF Lines, Line!LiveAt
  <2>3. CASE \E r \in Requests : Rotating(r)' /\ FamilyOf(r)' = f
    <3>1. PICK r \in Requests : Rotating(r)' /\ FamilyOf(r)' = f  BY <2>3
    <3>2. Rotating(r) /\ FamilyOf(r) = f  BY <3>1
    <3> QED  BY <1>1, <3>1, <3>2 DEF Lines, Line!Phase
  <2>4. CASE ~Held(f)'
    <3>1. LineOf(f)' = Line!Phase(IF token[f].family = f THEN "closed" ELSE "unopened")
      BY <1>1, <2>1, <2>4 DEF Lines, Line!Phase
    <3>2. CASE Held(f)  BY <3>1, <3>2, HeldRooted
    <3>3. CASE ~Held(f)  BY <1>1, <3>1, <3>3 DEF Lines
    <3> QED  BY <3>2, <3>3
  <2> QED  BY <2>2, <2>3, <2>4 DEF Held
<1>3. {t \in Requests : Issued(t)'} = {t \in Requests : Issued(t)}  BY DEF RowsFade
<1>4. [f \in Requests |-> LineOf(f)'] \in [Requests -> Line!LineState]
  BY LinesTypedNext DEF LineTyped, Line!LineState
<1> QED  BY <1>2, <1>3, <1>4 DEF Line!Close

LEMMA PlainCloses ==
  ASSUME RootInv, ChainInv', NEW r \in Requests, Plain(r)
  PROVE  Rooted' /\ Line!Close
<1>1. ASSUME NEW q \in Requests, Rotating(q)'
      PROVE  Rotating(q) /\ FamilyOf(q)' = FamilyOf(q)
  <2>1. q # r  BY <1>1 DEF Plain, Rotating, At
  <2>2. req'[q] = req[q] /\ Rotating(q)  BY <1>1, <2>1 DEF Plain, OthersKeep, Rotating, At
  <2>3. req[q].presented \in Requests  BY <2>2, RotatorPresents DEF RootInv
  <2> QED  BY <2>2, <2>3 DEF FamilyOf, Plain, RowsFade
<1> QED  BY <1>1, FadesClose, RootedFades DEF Plain

\* Claiming a live token consumes the head of its session.
LEMMA ClaimConsumes ==
  ASSUME RootInv, ChainInv', NEW r \in Requests, RefreshClaim(r)
  PROVE  Rooted' /\ (Line!Close \/ \E f \in Requests : Line!Consume(f))
<1>1. PICK t0 \in Requests : t0 = req[r].presented /\ Issued(t0)
  BY DEF RefreshClaim, At, RootInv, ChainInv, TypeInv, Presenting, PresentingCounters, Presents,
         RowsByProgress
<1>2. RowsFade /\ OthersKeep(r)  BY RotationFades DEF RootInv, ChainInv
<1>3. Rooted'  BY <1>2, RootedFades
<1>4. ASSUME NEW q \in Requests \ {r}, Rotating(q)'
      PROVE  Rotating(q) /\ FamilyOf(q)' = FamilyOf(q)
  <2>1. req'[q] = req[q] /\ Rotating(q)  BY <1>2, <1>4 DEF OthersKeep, Rotating, At
  <2>2. req[q].presented \in Requests  BY <2>1, RotatorPresents DEF RootInv
  <2> QED  BY <1>2, <2>1, <2>2 DEF FamilyOf, RowsFade
<1>5. CASE ~Live(t0)
  <2>1. Continue(r, "diagnose")  BY <1>1, <1>5 DEF RefreshClaim, Live
  <2>2. ~Rotating(r)'  BY <2>1, ContinueKeeps DEF RootInv, ChainInv, Rotating, At
  <2>3. Line!Close  BY <1>2, <1>4, <2>2, FadesClose
  <2> QED  BY <1>3, <2>3
<1>6. CASE Live(t0)
  <2>1. Continue(r, "reload") /\ token' = [token EXCEPT ![t0].state = "spent"]
    BY <1>1, <1>6 DEF RefreshClaim, Live
  <2>2. PICK f0 \in Requests : f0 = token[t0].family
    BY <1>1 DEF RootInv, ChainInv, RootsIssued
  <2>3. Rotating(r)' /\ FamilyOf(r)' = f0
    <3>1. req'[r].pc = "reload" /\ req'[r].presented = t0
      BY <1>1, <2>1, ContinueKeeps DEF RootInv, ChainInv
    <3> QED  BY <1>2, <2>2, <3>1 DEF Rotating, At, FamilyOf, RowsFade
  <2>4. ~Rotating(r)  BY DEF RefreshClaim, Rotating, At
  <2>5. Lines /\ Lines'  BY LinesHold, LinesNext DEF RootInv
  <2>6. \A t \in Requests : Live(t)' <=> Live(t) /\ t # t0
    BY <1>1, <2>1 DEF Live, RootInv, ChainInv, TypeInv, TypeOK, TokenRow
  <2>7. LineOf(f0).phase = "live"
    BY <1>6, <2>2, <2>5 DEF Lines, Line!LiveAt
  <2>8. LineOf(f0)' = Line!Phase("rotating")
    BY <2>2, <2>3, <2>5 DEF Lines, Line!Phase
  <2>9. ASSUME NEW f \in Requests \ {f0} PROVE LineOf(f)' = LineOf(f)
    <3>1. token'[f].family = token[f].family  BY <1>2 DEF RowsFade
    <3>2. CASE \E t \in Requests : Live(t) /\ token[t].family = f
      <4>1. PICK t \in Requests : Live(t) /\ token[t].family = f  BY <3>2
      <4>2. Live(t)' /\ token'[t].family = f  BY <1>2, <2>2, <2>6, <2>9, <4>1 DEF RowsFade
      <4> QED  BY <2>5, <4>1, <4>2 DEF Lines, Line!LiveAt
    <3>3. CASE \E q \in Requests : Rotating(q) /\ FamilyOf(q) = f
      <4>1. PICK q \in Requests : Rotating(q) /\ FamilyOf(q) = f  BY <3>3
      <4>2. q # r  BY <2>4, <4>1
      <4>3. Rotating(q)'  BY <1>2, <4>1, <4>2 DEF OthersKeep, Rotating, At
      <4>4. FamilyOf(q)' = f  BY <1>4, <4>1, <4>2, <4>3
      <4> QED  BY <2>5, <4>1, <4>3, <4>4 DEF Lines, Line!Phase
    <3>4. CASE ~Held(f)
      <4>1. ~Held(f)'
        <5>1. ASSUME NEW t \in Requests, Live(t)', token'[t].family = f PROVE FALSE
          BY <1>2, <3>4, <5>1 DEF Held, RowsFade
        <5>2. ASSUME NEW q \in Requests, Rotating(q)', FamilyOf(q)' = f PROVE FALSE
          <6>1. q # r  BY <2>3, <2>9, <5>2
          <6> QED  BY <1>4, <3>4, <5>2, <6>1 DEF Held
        <5> QED  BY <5>1, <5>2 DEF Held
      <4> QED  BY <2>5, <3>1, <3>4, <4>1 DEF Lines, Line!Phase
    <3> QED  BY <3>2, <3>3, <3>4 DEF Held
  <2>10. [f \in Requests |-> LineOf(f)'] =
           [[f \in Requests |-> LineOf(f)] EXCEPT ![f0] = Line!Phase("rotating")]
    BY <2>2, <2>8, <2>9
  <2>11. {t \in Requests : Issued(t)'} = {t \in Requests : Issued(t)}
    BY <1>2 DEF RowsFade
  <2>12. Line!Consume(f0)  BY <2>2, <2>7, <2>10, <2>11 DEF Line!Consume
  <2> QED  BY <1>3, <2>2, <2>12
<1> QED  BY <1>5, <1>6

\* Reading the consumed row again leaves the line, or closes it.
LEMMA ReloadCloses ==
  ASSUME RootInv, ChainInv', NEW r \in Requests, RefreshReload(r)
  PROVE  Rooted' /\ Line!Close
<1>1. RowsFade /\ OthersKeep(r) /\ UNCHANGED token
  BY RotationFades DEF RootInv, ChainInv, RefreshReload
<1>2. ASSUME NEW q \in Requests, Rotating(q)'
      PROVE  Rotating(q) /\ FamilyOf(q)' = FamilyOf(q)
  <2>1. CASE q = r
    <3> DEFINE x == [req[r] EXCEPT !.pc = "reissue",
                                   !.expiresAt = token[req[r].presented].expiresAt]
    <3>1. x.presented = req[r].presented  BY FieldTypes DEF RequestState, RootInv, ChainInv
    <3>2. Answer(r, "refresh", "refused") \/ Become(r, x)  BY DEF RefreshReload
    <3> HIDE DEF x
    <3>3. ~Answer(r, "refresh", "refused")
      BY <1>2, <2>1, AnswerKeeps DEF RootInv, ChainInv, Rotating, At
    <3>4. req'[r] = x  BY <3>2, <3>3, BecomeKeeps DEF RootInv, ChainInv
    <3> QED  BY <1>1, <2>1, <3>1, <3>4 DEF FamilyOf, RefreshReload, Rotating
  <2>2. CASE q # r
    <3>1. req'[q] = req[q]  BY <1>1, <2>2 DEF OthersKeep
    <3> QED  BY <1>1, <1>2, <3>1 DEF FamilyOf, Rotating, At
  <2> QED  BY <2>1, <2>2
<1> QED  BY <1>1, <1>2, FadesClose, RootedFades

\* Inserting a row makes it the head of its session and leaves the others.
LEMMA InsertLines ==
  ASSUME RootInv, ChainInv', NEW r \in Requests, NEW row, NEW pc, Inserts(r, row, pc),
         NEW f0 \in Requests, row.family = f0, Rotating(r) => FamilyOf(r) = f0
  PROVE  /\ [f \in Requests |-> LineOf(f)'] =
              [[f \in Requests |-> LineOf(f)] EXCEPT ![f0] = Line!LiveAt(r)]
         /\ {t \in Requests : Issued(t)'} = {t \in Requests : Issued(t)} \cup {r}
         /\ ~Issued(r)
<1>1. /\ token'[r] = row /\ Issued(r)' /\ ~Rotating(r)'
      /\ \A t \in Requests \ {r} :
           /\ token'[t] = token[t]
           /\ Issued(t)' <=> Issued(t)
           /\ Live(t)' <=> Live(t)
      /\ \A q \in Requests :
           Rotating(q)' => q # r /\ Rotating(q) /\ FamilyOf(q)' = FamilyOf(q)
  BY InsertKeeps DEF RootInv
<1>2. Live(r)'  BY <1>1 DEF Inserts, Live
<1>3. ~Issued(r) /\ ~Live(r) /\ token[r].family = NULL
  BY FreshRow DEF Inserts, RootInv, Rooted, Issued, Live
<1>4. \A q \in Requests \ {r} : Rotating(q) => Rotating(q)' /\ FamilyOf(q)' = FamilyOf(q)
  BY <1>1 DEF Inserts, OthersKeep, Rotating, At
<1>5. Lines /\ Lines'  BY LinesHold, LinesNext DEF RootInv
<1>6. LineOf(f0)' = Line!LiveAt(r)  BY <1>1, <1>2, <1>5 DEF Lines, Line!LiveAt
<1>7. ASSUME NEW f \in Requests \ {f0} PROVE LineOf(f)' = LineOf(f)
  <2>1. CASE \E t \in Requests : Live(t) /\ token[t].family = f
    <3>1. PICK t \in Requests : Live(t) /\ token[t].family = f  BY <2>1
    <3>2. Live(t)' /\ token'[t].family = f  BY <1>1, <1>3, <3>1
    <3> QED  BY <1>5, <3>1, <3>2 DEF Lines, Line!LiveAt
  <2>2. CASE \E q \in Requests : Rotating(q) /\ FamilyOf(q) = f
    <3>1. PICK q \in Requests : Rotating(q) /\ FamilyOf(q) = f  BY <2>2
    <3>2. Rotating(q)' /\ FamilyOf(q)' = f  BY <1>4, <1>7, <3>1
    <3> QED  BY <1>5, <3>1, <3>2 DEF Lines, Line!Phase
  <2>3. CASE ~Held(f)
    <3>1. ~Held(f)'
      <4>1. ASSUME NEW t \in Requests, Live(t)', token'[t].family = f PROVE FALSE
        BY <1>1, <1>7, <2>3, <4>1 DEF Held
      <4>2. ASSUME NEW q \in Requests, Rotating(q)', FamilyOf(q)' = f PROVE FALSE
        BY <1>1, <2>3, <4>2 DEF Held
      <4> QED  BY <4>1, <4>2 DEF Held
    <3>2. token'[f].family = f <=> token[f].family = f
      BY <1>1, <1>3, <1>7, RequestsAssumption
    <3> QED  BY <1>5, <2>3, <3>1, <3>2 DEF Lines, Line!Phase
  <2> QED  BY <2>1, <2>2, <2>3 DEF Held
<1>8. [f \in Requests |-> LineOf(f)'] =
        [[f \in Requests |-> LineOf(f)] EXCEPT ![f0] = Line!LiveAt(r)]
  BY <1>6, <1>7
<1>9. {t \in Requests : Issued(t)'} = {t \in Requests : Issued(t)} \cup {r}
  BY <1>1
<1> QED  BY <1>3, <1>8, <1>9

\* The root of the inserted row's session is a root after the insert.
LEMMA InsertRooted ==
  ASSUME RootInv, NEW r \in Requests, NEW row, NEW pc, Inserts(r, row, pc),
         \/ row.family = r
         \/ row.family \in Requests \ {r} /\ token[row.family].family = row.family
  PROVE  Rooted'
<1> SUFFICES ASSUME NEW t \in Requests
             PROVE  IF Issued(t)' THEN token'[token'[t].family].family = token'[t].family
                                  ELSE token'[t].family = NULL
  BY DEF Rooted
<1>1. /\ token'[r] = row /\ Issued(r)'
      /\ \A u \in Requests \ {r} : token'[u] = token[u] /\ (Issued(u)' <=> Issued(u))
  BY InsertKeeps DEF RootInv
<1>2. CASE t = r  BY <1>1, <1>2
<1>3. CASE t # r
  <2>1. Issued(t) => token[t].family \in Requests \ {r}
    BY FreshRow DEF Inserts, RootInv, ChainInv, RootsIssued
  <2> QED  BY <1>1, <1>3, <2>1 DEF RootInv, Rooted
<1> QED  BY <1>2, <1>3

LEMMA IssueOpens ==
  ASSUME RootInv, ChainInv', NEW r \in Requests, LoginIssue(r)
  PROVE  Rooted' /\ Line!Open(r)
<1> DEFINE row == [ state |-> "live", expiresAt |-> now + RefreshTtl,
                    sessionEpoch |-> req[r].sessionEpoch + 1,
                    parent |-> NULL, family |-> r ]
<1>1. row.family = r  OBVIOUS
<1>2. Inserts(r, row, "purge") /\ ~Rotating(r)
  BY ContinueKeeps DEF LoginIssue, Inserts, Past, At, RootInv, ChainInv, Rotating
<1> HIDE DEF row
<1>3. Rooted'  BY <1>1, <1>2, InsertRooted
<1>4. LineOf(r) = Line!Phase("unopened")
  <2>1. ~Held(r)  BY <1>2, FreshRow DEF Inserts, RootInv, Held, Live, Issued
  <2>2. ~Issued(r)  BY <1>2, FreshRow DEF Inserts, RootInv
  <2>3. token[r].family # r  BY <2>2, RequestsAssumption DEF RootInv, Rooted
  <2> QED  BY <2>1, <2>3, LinesHold DEF RootInv, Lines
<1>5. /\ [f \in Requests |-> LineOf(f)'] =
           [[f \in Requests |-> LineOf(f)] EXCEPT ![r] = Line!LiveAt(r)]
      /\ {t \in Requests : Issued(t)'} = {t \in Requests : Issued(t)} \cup {r}
      /\ ~Issued(r)
  BY <1>1, <1>2, InsertLines
<1>6. Line!Open(r)  BY <1>4, <1>5 DEF Line!Open
<1> QED  BY <1>3, <1>6

LEMMA ReissueHandsOut ==
  ASSUME RootInv, ChainInv', NEW r \in Requests, RefreshReissue(r)
  PROVE  Rooted' /\ \E f \in Requests : Line!HandOut(f, r)
<1> DEFINE row == [ state |-> "live", expiresAt |-> req[r].expiresAt,
                    sessionEpoch |-> req[r].sessionEpoch,
                    parent |-> req[r].presented, family |-> FamilyOf(r) ]
<1>1. row.family = FamilyOf(r)  OBVIOUS
<1>2. Inserts(r, row, "touch") /\ Rotating(r)
  BY ContinueKeeps
  DEF RefreshReissue, Inserts, Past, At, RootInv, ChainInv, FamilyOf, Rotating
<1> HIDE DEF row
<1>3. PICK f \in Requests \ {r} : f = FamilyOf(r) /\ Issued(req[r].presented)
  BY <1>2, RotatorPresents, FreshRow DEF Inserts, RootInv
<1>4. token[f].family = f /\ LineOf(f) = Line!Phase("rotating")
  <2>1. Held(f)  BY <1>2, <1>3 DEF Held
  <2> QED  BY <1>2, <1>3, <2>1, HeldRooted, LinesHold DEF RootInv, Lines
<1>5. Rooted'  BY <1>1, <1>2, <1>3, <1>4, InsertRooted
<1>6. /\ [g \in Requests |-> LineOf(g)'] =
           [[g \in Requests |-> LineOf(g)] EXCEPT ![f] = Line!LiveAt(r)]
      /\ {t \in Requests : Issued(t)'} = {t \in Requests : Issued(t)} \cup {r}
      /\ ~Issued(r)
  BY <1>1, <1>2, <1>3, InsertLines
<1>7. Line!HandOut(f, r)  BY <1>4, <1>6 DEF Line!HandOut, Line!Phase
<1> QED  BY <1>5, <1>7

\* Every step of the account is a step of the lines, or none.
LEMMA LineStep ==
  ASSUME RootInv, [Next]_vars
  PROVE  RootInv' /\ [Line!LineNext]_Line!lineVars
<1>1. ChainInv'  BY ChainNext DEF RootInv
<1>2. TypeInv  BY DEF RootInv, ChainInv
<1>3. ASSUME NEW r \in Requests, Plain(r)
      PROVE  Rooted' /\ Line!Close
  BY <1>1, <1>3, PlainCloses
<1>4. ASSUME NEW r \in Requests, LoginStep(r)
      PROVE  Rooted' /\ (Line!Close \/ \E f \in Requests : Line!Open(f))
  <2>1. CASE LoginIssue(r)   BY <1>1, <2>1, IssueOpens
  <2>2. CASE ~LoginIssue(r)  BY <1>2, <1>3, <1>4, <2>2, LoginPlain
  <2> QED  BY <2>1, <2>2
<1>5. ASSUME NEW r \in Requests, RefreshStep(r)
      PROVE  /\ Rooted'
             /\ \/ Line!Close
                \/ \E f \in Requests : Line!Consume(f)
                \/ \E f, t \in Requests : Line!HandOut(f, t)
  <2>1. CASE RefreshClaim(r)    BY <1>1, <2>1, ClaimConsumes
  <2>2. CASE RefreshReload(r)   BY <1>1, <2>2, ReloadCloses
  <2>3. CASE RefreshReissue(r)  BY <1>1, <2>3, ReissueHandsOut
  <2>4. CASE ~RefreshClaim(r) /\ ~RefreshReload(r) /\ ~RefreshReissue(r)
    BY <1>2, <1>3, <1>5, <2>4, RefreshPlain DEF Beside
  <2> QED  BY <2>1, <2>2, <2>3, <2>4
<1>6. ASSUME NEW r \in Requests,
             AuthenticatedStep(r) \/ AccountStep(r) \/ SocketStep(r) \/ Abort(r)
      PROVE  Rooted' /\ Line!Close
  BY <1>2, <1>3, <1>6, AuthenticatedPlain, AccountPlain, SocketPlain, AbortPlain DEF Beside
<1>7. ASSUME \/ Tick \/ UNCHANGED vars \/ \E r \in Requests : SocketLeave(r)
      PROVE  Rooted' /\ Line!Close
  <2>1. UNCHANGED <<token, req>>  BY <1>7 DEF Tick, SocketLeave, vars
  <2>2. RowsFade  BY <2>1, SameRowsFade
  <2>3. \A q \in Requests : Rotating(q)' => Rotating(q) /\ FamilyOf(q)' = FamilyOf(q)
    BY <2>1 DEF Rotating, At, FamilyOf
  <2> QED  BY <1>1, <2>2, <2>3, FadesClose, RootedFades
<1>8. Rooted' /\ Line!LineNext
  BY <1>4, <1>5, <1>6, <1>7 DEF Next, Terminated, Line!LineNext
<1> QED  BY <1>1, <1>8 DEF RootInv

LEMMA LineBegins ==
  ASSUME Init
  PROVE  RootInv /\ Line!LineInit
<1>1. \A t \in Requests : ~Issued(t) /\ ~Live(t) /\ token[t].family = NULL
  BY DEF Init, NoToken, Issued, Live
<1>2. \A r \in Requests : ~Rotating(r)  BY DEF Init, NewRequest, Rotating, At
<1>3. RootInv  BY <1>1, ChainInit DEF RootInv, Rooted
<1>4. ASSUME NEW f \in Requests PROVE LineOf(f) = Line!Phase("unopened")
  BY <1>1, <1>2, <1>3, LinesHold, RequestsAssumption DEF RootInv, Lines, Held
<1> QED  BY <1>1, <1>3, <1>4 DEF Line!LineInit

(***************************************************************************)
(* Rotation keeps what SessionLine promises: each session has one head at  *)
(* a time, its head is consumed before a successor exists, and no step     *)
(* revives a closed session (auth.service.ts:302-399).                     *)
(***************************************************************************)
THEOREM SessionLineImplemented == Spec => ImplementsSessionLine
<1>1. Init => RootInv /\ Line!LineInit  BY LineBegins
<1>2. RootInv /\ [Next]_vars => RootInv' /\ [Line!LineNext]_Line!lineVars  BY LineStep
<1> QED  BY <1>1, <1>2, PTL DEF Spec, ImplementsSessionLine, Line!LineSpec

----------------------------------------------------------------------------
(***************************************************************************)
(* Logins that never overlap.  The theorems rest on the epochs: the login  *)
(* in flight is about to use an epoch above that of every token there is,  *)
(* because no other login could issue one since it read the user.          *)
(***************************************************************************)
EpochsReached ==
  \A t \in Requests : Issued(t) => token[t].sessionEpoch <= user.sessionEpoch

LoginAhead ==
  \A r \in Requests : req[r].pc \in Ahead =>
    /\ \A t \in Requests : Issued(t) => token[t].sessionEpoch <= req[r].sessionEpoch
    /\ req[r].pc \in { "revokeOld", "issue" } =>
         req[r].sessionEpoch < user.sessionEpoch

EpochsTellSessions ==
  \A s, t \in Requests :
    Issued(s) /\ Issued(t) /\ token[s].sessionEpoch = token[t].sessionEpoch =>
      token[s].family = token[t].family

SerialInv ==
  /\ ChainInv
  /\ OneLoginAtATime
  /\ EpochsReached
  /\ LoginAhead
  /\ EpochsTellSessions

\* The account's epoch grows, except where a login takes over.
LEMMA EpochGrows ==
  ASSUME TypeInv, NEW r \in Requests,
         \/ LoginStep(r) /\ ~LoginTakeOver(r)
         \/ RefreshStep(r) \/ AuthenticatedStep(r) \/ AccountStep(r)
         \/ SocketStep(r) \/ Abort(r)
  PROVE  \/ user'.sessionEpoch = user.sessionEpoch
         \/ user'.sessionEpoch = user.sessionEpoch + 1
<1>1. CASE LoginStep(r) /\ ~LoginTakeOver(r)
  BY <1>1 DEF LoginStep, LoginRead, LoginCountFailure, LoginLock,
              LoginCheckSession, LoginRevokeOld, LoginIssue, LoginPurge,
              TypeInv, TypeOK, UserRow
<1>2. CASE RefreshStep(r)
  BY <1>2 DEF RefreshStep, RefreshRead, RefreshClaim, RefreshDiagnose,
              RefreshRevokeAll, RefreshReload, RefreshReissue, RefreshTouch,
              TypeInv, TypeOK, UserRow
<1>3. CASE AuthenticatedStep(r)
  BY <1>3 DEF AuthenticatedStep, ValidateDenylist, ValidateUser, MarkSeen,
              ServeApi, LogoutRevoke, LogoutDeny, LogoutClearSeen,
              TypeInv, TypeOK, UserRow
<1>4. CASE AccountStep(r)
  BY <1>4 DEF AccountStep, ChangePasswordReject, ResetPasswordBegin,
              SetPassword, LogoutAll, UnlockAccount, ForceLogoutBump,
              ForceLogoutRevoke, UpdateUserRead, SetActive, DeactivateCut,
              TypeInv, TypeOK, UserRow
<1>5. CASE SocketStep(r) \/ Abort(r)
  BY <1>5 DEF SocketStep, SocketConnect, SocketJoin, Abort
<1> QED  BY <1>1, <1>2, <1>3, <1>4, <1>5

\* Steps at which the rows keep their epochs, the account's epoch does not
\* go back and no login gets nearer to its token.
LEMMA SerialBeside ==
  ASSUME SerialInv, NEW r \in Requests, OthersKeep(r), RowsFade,
         req'[r].pc \notin Ahead, user'.sessionEpoch >= user.sessionEpoch,
         TypeInv'
  PROVE  EpochsReached' /\ LoginAhead' /\ EpochsTellSessions'
<1>1. \A t \in Requests : token[t].sessionEpoch \in Nat
  BY FieldTypes DEF SerialInv, ChainInv
<1>2. user.sessionEpoch \in Nat /\ user'.sessionEpoch \in Nat
  BY DEF SerialInv, ChainInv, TypeInv, TypeOK, UserRow
<1>3. EpochsReached'
  BY <1>1, <1>2 DEF EpochsReached, RowsFade, SerialInv
<1>4. EpochsTellSessions'
  BY DEF EpochsTellSessions, RowsFade, SerialInv
<1>5. ASSUME NEW q \in Requests, req'[q].pc \in Ahead
      PROVE  /\ \A t \in Requests :
                  Issued(t)' => token'[t].sessionEpoch <= req'[q].sessionEpoch
             /\ req'[q].pc \in { "revokeOld", "issue" } =>
                  req'[q].sessionEpoch < user'.sessionEpoch
  <2>1. req'[q] = req[q]  BY <1>5 DEF OthersKeep
  <2>2. req[q].sessionEpoch \in Nat  BY FieldTypes DEF SerialInv, ChainInv
  <2> QED
    BY <1>2, <1>5, <2>1, <2>2 DEF RowsFade, SerialInv, LoginAhead
<1> QED  BY <1>3, <1>4, <1>5 DEF LoginAhead

\* A login that has not issued its token goes on with the epoch it read.
LEMMA SerialAdvance ==
  ASSUME SerialInv, NEW r \in Requests, OthersKeep(r), RowsFade,
         req[r].pc \in Ahead, req'[r].sessionEpoch = req[r].sessionEpoch,
         user'.sessionEpoch = user.sessionEpoch,
         req'[r].pc \in { "revokeOld", "issue" } => req[r].pc \in { "revokeOld", "issue" }
  PROVE  EpochsReached' /\ LoginAhead' /\ EpochsTellSessions'
<1>1. EpochsReached' /\ EpochsTellSessions'
  BY DEF EpochsReached, EpochsTellSessions, RowsFade, SerialInv
<1>2. ASSUME NEW q \in Requests, req'[q].pc \in Ahead
      PROVE  /\ \A t \in Requests :
                  Issued(t)' => token'[t].sessionEpoch <= req'[q].sessionEpoch
             /\ req'[q].pc \in { "revokeOld", "issue" } =>
                  req'[q].sessionEpoch < user'.sessionEpoch
  <2>1. /\ req[q].pc \in Ahead /\ req'[q].sessionEpoch = req[q].sessionEpoch
        /\ req'[q].pc \in { "revokeOld", "issue" } => req[q].pc \in { "revokeOld", "issue" }
    BY <1>2 DEF OthersKeep
  <2> QED  BY <2>1 DEF RowsFade, SerialInv, LoginAhead
<1> QED  BY <1>1, <1>2 DEF LoginAhead

\* The copy of the user is taken when every token has at most its epoch.
LEMMA SerialRead ==
  ASSUME SerialInv, NEW r \in Requests, LoginRead(r), TypeInv'
  PROVE  EpochsReached' /\ LoginAhead' /\ EpochsTellSessions'
<1> DEFINE wrong == [req[r] EXCEPT !.op = "login", !.pc = "countFailure"]
           right == [req[r] EXCEPT !.op = "login", !.pc = "checkSession",
                                   !.sessionEpoch = user.sessionEpoch,
                                   !.lastSeenAt = user.lastSeenAt]
<1>1. /\ wrong.pc = "countFailure"
      /\ right.pc = "checkSession" /\ right.sessionEpoch = user.sessionEpoch
  BY FieldTypes DEF RequestState, SerialInv, ChainInv
<1>2. Answer(r, "login", "refused") \/ Become(r, wrong) \/ Become(r, right)
  BY DEF LoginRead
<1> HIDE DEF wrong, right
<1>3. UNCHANGED <<token, user>>  BY DEF LoginRead
<1>4. CASE Answer(r, "login", "refused") \/ Become(r, wrong)
  <2>1. OthersKeep(r) /\ req'[r].pc \notin Ahead
    BY <1>1, <1>4, AnswerKeeps, BecomeKeeps DEF Ahead, SerialInv, ChainInv
  <2>2. user'.sessionEpoch >= user.sessionEpoch
    BY <1>3 DEF SerialInv, ChainInv, TypeInv, TypeOK, UserRow
  <2> QED  BY <1>3, <2>1, <2>2, SameRowsFade, SerialBeside
<1>5. CASE Become(r, right)
  <2>1. /\ OthersKeep(r) /\ req'[r].pc = "checkSession"
        /\ req'[r].sessionEpoch = user.sessionEpoch
    BY <1>1, <1>5, BecomeKeeps DEF SerialInv, ChainInv
  <2>2. EpochsReached' /\ EpochsTellSessions'
    BY <1>3 DEF EpochsReached, EpochsTellSessions, Issued, SerialInv
  <2>3. LoginAhead'
    BY <1>3, <2>1 DEF SerialInv, EpochsReached, LoginAhead, OthersKeep, Issued
  <2> QED  BY <2>2, <2>3
<1> QED  BY <1>2, <1>4, <1>5

\* No other login is in flight: what r sets the epoch to is above every token.
LEMMA SerialTakeOver ==
  ASSUME SerialInv, NEW r \in Requests, LoginTakeOver(r), OneLoginAtATime', TypeInv'
  PROVE  EpochsReached' /\ LoginAhead' /\ EpochsTellSessions'
<1>1. /\ OthersKeep(r) /\ req'[r].pc = "revokeOld"
      /\ req'[r].sessionEpoch = req[r].sessionEpoch
  BY ContinueKeeps DEF LoginTakeOver, SerialInv, ChainInv
<1>2. UNCHANGED token /\ user'.sessionEpoch = req[r].sessionEpoch + 1
  BY DEF LoginTakeOver, SerialInv, ChainInv, TypeInv, TypeOK, UserRow
<1>3. /\ req[r].sessionEpoch \in Nat
      /\ \A t \in Requests : token[t].sessionEpoch \in Nat
      /\ \A t \in Requests : Issued(t) => token[t].sessionEpoch <= req[r].sessionEpoch
  BY FieldTypes DEF LoginTakeOver, At, Ahead, SerialInv, ChainInv, LoginAhead
<1>4. EpochsReached'
  BY <1>2, <1>3 DEF EpochsReached, Issued
<1>5. EpochsTellSessions'
  BY <1>2 DEF EpochsTellSessions, Issued, SerialInv
<1>6. \A q \in Requests : req'[q].pc \in Ahead => q = r
  BY <1>1 DEF OneLoginAtATime, LoginInFlight, Ahead
<1>7. LoginAhead'
  BY <1>1, <1>2, <1>3, <1>6 DEF LoginAhead, Issued
<1> QED  BY <1>4, <1>5, <1>7

\* The login's token has an epoch that no other token has.
LEMMA SerialIssue ==
  ASSUME SerialInv, NEW r \in Requests, LoginIssue(r), OneLoginAtATime'
  PROVE  EpochsReached' /\ LoginAhead' /\ EpochsTellSessions'
<1>1. OthersKeep(r) /\ req'[r].pc = "purge" /\ UNCHANGED user
  BY ContinueKeeps DEF LoginIssue, SerialInv, ChainInv
<1>2. /\ token'[r].sessionEpoch = req[r].sessionEpoch + 1
      /\ \A t \in Requests \ {r} : token'[t] = token[t]
  BY DEF LoginIssue, SerialInv, ChainInv, TypeInv, TypeOK
<1>3. /\ req[r].sessionEpoch \in Nat /\ user.sessionEpoch \in Nat
      /\ \A t \in Requests : token[t].sessionEpoch \in Nat
  BY FieldTypes DEF SerialInv, ChainInv
<1>4. /\ req[r].sessionEpoch < user.sessionEpoch
      /\ \A t \in Requests : Issued(t) => token[t].sessionEpoch <= req[r].sessionEpoch
  BY DEF LoginIssue, At, Ahead, SerialInv, LoginAhead
<1>5. EpochsReached'
  BY <1>1, <1>2, <1>3, <1>4 DEF EpochsReached, Issued, SerialInv
<1>6. EpochsTellSessions'
  BY <1>2, <1>3, <1>4 DEF EpochsTellSessions, Issued, SerialInv
<1>7. \A q \in Requests : req'[q].pc \notin Ahead
  BY <1>1 DEF OneLoginAtATime, LoginInFlight, Ahead
<1> QED  BY <1>5, <1>6, <1>7 DEF LoginAhead

\* A successor has the epoch and the family of the token it replaces.
LEMMA SerialReissue ==
  ASSUME SerialInv, NEW r \in Requests, RefreshReissue(r)
  PROVE  EpochsReached' /\ LoginAhead' /\ EpochsTellSessions'
<1>1. OthersKeep(r) /\ req'[r].pc = "touch" /\ UNCHANGED user
  BY ContinueKeeps DEF RefreshReissue, SerialInv, ChainInv
<1>2. PICK p \in Requests : p = req[r].presented /\ Issued(p)
  BY RotatorPresents DEF RefreshReissue, Rotating, SerialInv
<1>3. /\ token'[r].sessionEpoch = token[p].sessionEpoch
      /\ token'[r].family = token[p].family
      /\ \A t \in Requests \ {r} : token'[t] = token[t]
  BY <1>2 DEF RefreshReissue, SerialInv, ChainInv, RotationExact, TypeInv, TypeOK
<1>4. EpochsReached'
  BY <1>1, <1>2, <1>3 DEF EpochsReached, Issued, SerialInv
<1>5. EpochsTellSessions'
  BY <1>2, <1>3 DEF EpochsTellSessions, Issued, SerialInv
<1>6. LoginAhead'
  BY <1>1, <1>2, <1>3 DEF LoginAhead, Issued, SerialInv, OthersKeep, Ahead
<1> QED  BY <1>4, <1>5, <1>6

LEMMA SerialNext ==
  SerialInv /\ [Next /\ OneLoginAtATime']_vars => SerialInv'
<1> SUFFICES ASSUME SerialInv, [Next /\ OneLoginAtATime']_vars PROVE SerialInv'
  OBVIOUS
<1> DEFINE Goal == EpochsReached' /\ LoginAhead' /\ EpochsTellSessions'
<1>1. ChainInv' /\ TypeInv'  BY ChainNext DEF SerialInv, ChainInv
<1>2. CASE UNCHANGED vars
  BY <1>1, <1>2
  DEF SerialInv, OneLoginAtATime, LoginInFlight, EpochsReached, LoginAhead,
      EpochsTellSessions, Issued, vars
<1>3. CASE Next /\ OneLoginAtATime'
  <2>1. ASSUME NEW r \in Requests, LoginStep(r) PROVE Goal
    <3>1. CASE LoginRead(r)      BY <1>1, <3>1, SerialRead
    <3>2. CASE LoginTakeOver(r)  BY <1>1, <1>3, <3>2, SerialTakeOver
    <3>3. CASE LoginIssue(r)     BY <1>3, <3>3, SerialIssue
    <3>4. CASE LoginCheckSession(r) \/ LoginRevokeOld(r)
      <4>1. UNCHANGED user /\ RowsFade
        BY <3>4, SameRowsFade, RevokeFades
        DEF LoginCheckSession, LoginRevokeOld, SerialInv, ChainInv
      <4>2. CASE Answer(r, "login", "conflict")
        <5>1. OthersKeep(r) /\ req'[r].pc \notin Ahead
          BY <4>2, AnswerKeeps DEF Ahead, SerialInv, ChainInv
        <5>2. user'.sessionEpoch >= user.sessionEpoch
          BY <4>1 DEF SerialInv, ChainInv, TypeInv, TypeOK, UserRow
        <5> QED  BY <1>1, <4>1, <5>1, <5>2, SerialBeside
      <4>3. CASE \/ At(r, "checkSession") /\ Continue(r, "takeOver")
                 \/ At(r, "revokeOld") /\ Continue(r, "issue")
        <5>1. OthersKeep(r) /\ req'[r].sessionEpoch = req[r].sessionEpoch
          BY <4>3, ContinueKeeps DEF SerialInv, ChainInv
        <5>2. \/ req[r].pc = "checkSession" /\ req'[r].pc = "takeOver"
              \/ req[r].pc = "revokeOld" /\ req'[r].pc = "issue"
          BY <4>3, ContinueKeeps DEF At, SerialInv, ChainInv
        <5> QED  BY <4>1, <5>1, <5>2, SerialAdvance DEF Ahead
      <4> QED  BY <3>4, <4>2, <4>3 DEF LoginCheckSession, LoginRevokeOld
    <3>5. CASE LoginCountFailure(r) \/ LoginLock(r) \/ LoginPurge(r)
      <4>1. req'[r].pc \notin Ahead
        BY <3>5, CountFailureKeeps, AnswerKeeps
        DEF LoginLock, LoginPurge, Ahead, SerialInv, ChainInv
      <4>2. Plain(r)
        BY <3>5, LoginPlain DEF LoginStep, LoginCountFailure, LoginLock, LoginPurge,
                                LoginIssue, At, SerialInv, ChainInv
      <4>3. user'.sessionEpoch = user.sessionEpoch /\ user.sessionEpoch \in Nat
        BY <3>5 DEF LoginCountFailure, LoginLock, LoginPurge, SerialInv, ChainInv,
                    TypeInv, TypeOK, UserRow
      <4> QED  BY <1>1, <4>1, <4>2, <4>3, SerialBeside DEF Plain
    <3> QED  BY <2>1, <3>1, <3>2, <3>3, <3>4, <3>5 DEF LoginStep
  <2>2. ASSUME NEW r \in Requests,
               \/ RefreshStep(r) /\ ~RefreshReissue(r)
               \/ AuthenticatedStep(r) \/ AccountStep(r)
               \/ SocketStep(r) \/ Abort(r)
        PROVE  Goal
    <3>1. user'.sessionEpoch >= user.sessionEpoch
      BY <2>2, EpochGrows DEF SerialInv, ChainInv, TypeInv, TypeOK, UserRow
    <3>2. OthersKeep(r) /\ RowsFade /\ req'[r].pc \notin Ahead
      <4>1. CASE RefreshClaim(r) \/ RefreshReload(r)
        BY <4>1, RotationFades DEF SerialInv, ChainInv
      <4>2. CASE ~RefreshClaim(r) /\ ~RefreshReload(r)
        BY <2>2, <4>2, RefreshPlain, AuthenticatedPlain, AccountPlain, SocketPlain,
           AbortPlain
        DEF Beside, Plain, SerialInv, ChainInv
      <4> QED  BY <4>1, <4>2
    <3> QED  BY <1>1, <3>1, <3>2, SerialBeside
  <2>3. ASSUME NEW r \in Requests, RefreshReissue(r) PROVE Goal
    BY <2>3, SerialReissue
  <2>4. ASSUME Tick \/ Terminated \/ \E r \in Requests : SocketLeave(r)
        PROVE  Goal
    <3>1. UNCHANGED <<token, user, req>>
      BY <2>4 DEF Tick, Terminated, SocketLeave, vars
    <3> QED
      BY <3>1 DEF SerialInv, EpochsReached, LoginAhead, EpochsTellSessions, Issued
  <2> HIDE DEF Goal
  <2>5. Goal  BY <1>3, <2>1, <2>2, <2>3, <2>4 DEF Next
  <2> QED  BY <1>1, <1>3, <2>5 DEF SerialInv, Goal
<1> QED  BY <1>2, <1>3

LEMMA SerialInit == Init => SerialInv
<1> SUFFICES ASSUME Init PROVE SerialInv  OBVIOUS
<1>1. \A t \in Requests : ~Issued(t)  BY DEF Init, NoToken, Issued
<1>2. \A r \in Requests : req[r].pc = "new"  BY DEF Init, NewRequest
<1> QED
  BY <1>1, <1>2, ChainInit
  DEF SerialInv, OneLoginAtATime, LoginInFlight, EpochsReached, LoginAhead, Ahead,
      EpochsTellSessions

(***************************************************************************)
(* While logins do not overlap, two refresh tokens that would both be      *)
(* accepted belong to one session: the account is open on one device       *)
(* (schema.prisma:62-65, auth.service.ts:147-208).                         *)
(***************************************************************************)
THEOREM SingleSessionCorrect == SerialSpec => []SingleSession
<1>1. SerialInv => SingleSession
  BY DEF SerialInv, EpochsTellSessions, SingleSession, Usable, Live, Issued
<1> QED  BY <1>1, SerialInit, SerialNext, PTL DEF SerialSpec

(***************************************************************************)
(* While logins do not overlap, an access token that a take-over, a        *)
(* force-logout or a new password made stale is never accepted again,      *)
(* although a take-over may set the account's epoch back                   *)
(* (auth.service.ts:185-194, jwt.strategy.ts:48-50).                       *)
(***************************************************************************)
THEOREM StaleAccessCorrect == SerialSpec => StaleAccessStaysStale
<1> DEFINE Stays ==
      \A a \in Requests :
        Granted(a) /\ token[a].sessionEpoch # user.sessionEpoch =>
          token[a].sessionEpoch # user'.sessionEpoch
<1>1. SerialInv /\ [Next /\ OneLoginAtATime']_vars => [Stays]_vars
  <2> SUFFICES ASSUME SerialInv, Next, NEW a \in Requests, Granted(a),
                      token[a].sessionEpoch # user.sessionEpoch
               PROVE  token[a].sessionEpoch # user'.sessionEpoch
    OBVIOUS
  <2>1. token[a].sessionEpoch <= user.sessionEpoch
    BY DEF SerialInv, ChainInv, RowsByProgress, EpochsReached
  <2>2. token[a].sessionEpoch \in Nat /\ user.sessionEpoch \in Nat
    BY FieldTypes DEF SerialInv, ChainInv
  <2>3. ASSUME NEW r \in Requests, LoginTakeOver(r)
        PROVE  token[a].sessionEpoch # user'.sessionEpoch
    <3>1. user'.sessionEpoch = req[r].sessionEpoch + 1
      BY <2>3 DEF LoginTakeOver, SerialInv, ChainInv, TypeInv, TypeOK, UserRow
    <3>2. token[a].sessionEpoch <= req[r].sessionEpoch
      BY <2>3 DEF LoginTakeOver, At, Ahead, SerialInv, ChainInv, RowsByProgress, LoginAhead
    <3> QED  BY <2>2, <3>1, <3>2, FieldTypes DEF SerialInv, ChainInv
  <2>4. ASSUME NEW r \in Requests,
               \/ LoginStep(r) /\ ~LoginTakeOver(r)
               \/ RefreshStep(r) \/ AuthenticatedStep(r) \/ AccountStep(r)
               \/ SocketStep(r) \/ Abort(r)
        PROVE  token[a].sessionEpoch # user'.sessionEpoch
    BY <2>1, <2>2, <2>4, EpochGrows DEF SerialInv, ChainInv
  <2>5. ASSUME Tick \/ Terminated \/ \E r \in Requests : SocketLeave(r)
        PROVE  token[a].sessionEpoch # user'.sessionEpoch
    BY <2>5 DEF Tick, Terminated, SocketLeave, vars
  <2> QED  BY <2>3, <2>4, <2>5 DEF Next
<1> QED
  BY <1>1, SerialInit, SerialNext, PTL DEF SerialSpec, StaleAccessStaysStale
=============================================================================
