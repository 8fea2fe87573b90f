# Verification of sistema-notarial-back

TLA+ models of the notarial office backend (NestJS, Prisma over PostgreSQL, Redis, S3, socket.io), the TLC
runs that check them on small instances, and the proofs TLAPS checks for every instance. Paths are relative to
the repository; line numbers in the modules (`auth.service.ts:302`) point into it.

## 1. The system

One Node process, or several behind a balancer, serves HTTP and WebSocket clients. A handler is an `async`
function: every awaited query is a point where any other request may run. Only a few handlers open a database
transaction. So nearly every hazard is one of these: state read before an await and used after it, several
writes that are one operation only if nothing happens in between, two stores (database and S3, database and
Redis, database and sockets) that share no transaction.

### Components

| Component (under `src/`) | State | Operations | What makes it correct | Modelled in |
|---|---|---|---|---|
| Auth sessions: `modules/auth`, `strategies/jwt.strategy.ts` | `users` row (lock, failure counter, `sessionEpoch`, `lastSeenAt`, `isActive`), `refresh_tokens` rows | login, refresh, logout, validate, change and reset password, unlock, force-logout | one session per account; a refresh token is used once, a replay revokes; rotation prolongs nothing; lockout at the threshold; stale access tokens stay stale | `AuthSession`, `SessionLine` |
| Users: `modules/users` | `users`, `user_roles` | create, update (roles, activation, the PDF flag), soft delete | a deactivated user is cut off; roles are replaced as a whole; a SUPER_ADMIN is not restricted | `AccessControl`, `AuthSession`, `Permissions` |
| Realtime gateway: `modules/realtime` | sockets, rooms, `userSockets` | connect, disconnect, `emitToUser`, `emitToAll`, `disconnectUser` | the register holds every socket of a room; an announcement reaches those it is for | `Realtime`; the room of one session in `AuthSession` |
| UAFE forms: `modules/uafe-forms` | `uafe_forms`, `uafe_comprobantes` | create, update, remove, add and remove receipts | the list and the bucket agree; no object forgotten; the limit of receipts | `UafeForm` |
| S3: `common/s3` | the bucket | upload, delete (errors swallowed), sign | seen through its users | `UafeForm`, `Archives`, `News` |
| Token denylist, Redis: `common/token-denylist`, `common/redis` | keys with expiry, an in-memory fallback | deny, isDenied, purge | a token denied stays denied while it is valid | `RedisFallback` |
| Rate limiting: `common/redis`, `common/guards` | counters with expiry | increment | no more than the limit in a window; no counter is left without expiry | `RedisFallback` |
| Roles, permissions, guards | roles, permissions, `role_permissions`, `user_roles` | create, update, remove, assign, grant, revoke; the guards decide | nobody holds a deleted role; the super administrator is protected; NOTARIO's limits; no role loses a permission silently; clients offer what their users may do | `AccessControl`, `Permissions` |
| Seed script: `prisma/seed.js` | permissions, grants | upserts, one after the other | a run that ends has granted everything, also after one that died | `Permissions` |
| Archives: `modules/archives` | `archives`, grantors and beneficiaries, the PDF | create, update in a transaction, remove, upload and generate the PDF | the code is unique among the undeleted; participants are those of one update; no deadlock; the PDF of a row exists | `Archives` |
| News: `modules/news` | `news`, image, the events | create, update, remove | the image of a row exists; a connected client shows the news there are | `News` |
| Notifications, tasks | rows, read marks, status | send, read one or all, change status, remove | each first read is told once; the status told last is the status | `Inbox` over `Realtime` |
| Clients, identification numbers | `clients` | create, import, update, remove; the format checks | what is stored is well formed; an import answers for every row | `Clients` over `Identification` |
| Settings, system configuration, logs, audit | `settings`, `logs`, `audit_logs` | update one, update several, read; fire-and-forget rows | a configuration is that of one update; a change leaves a record; every request ends | `Settings` |
| Notaries | rows | CRUD of single rows | nothing else depends on them | not modelled |
| Bootstrap, filters, health, file download | none | wiring and formatting | | not modelled |

How they interact: a request passes the throttler, then `JwtStrategy.validate` (denylist, `users` row), then the
role guards; the handler queries the database, and may call S3, the gateway (`disconnectUser`, `emitToUser`), the
denylist and `LogsService.log`, which swallows its errors. A soft delete of a user, a force-logout or a
take-over must reach all of: the row, the refresh tokens, the sockets. `PROJECT.json` lists every hazard at its
line, with the properties that watch it.

## 2. The modules

| Module | What it is |
|---|---|
| `AuthSession` | one account: its row, its refresh tokens, the denylist, the sockets, and any number of overlapping requests |
| `SessionLine` | the abstract specification of token rotation, which `AuthSession` implements |
| `MCAuthSession` | instances of `AuthSession` for TLC |
| `AuthSessionProofs` | type correctness, the lockout, the chains of tokens, the refinement of `SessionLine`, and what holds when logins do not overlap |
| `UafeForm` | one UAFE form, its receipts in the database and in the bucket, and any number of overlapping requests |
| `MCUafeForm` | instances of `UafeForm` for TLC |
| `UafeAndClientsProofs` | type correctness, rows and objects, orphans, the limit; then both properties of `Clients` |
| `RedisFallback` | one access token and one rate-limit counter, in Redis and in the memory of the pods, under outages and losses |
| `MCRedisFallback` | instances of `RedisFallback` for TLC |
| `RedisFallbackProofs` | type correctness, that a revocation holds where it is kept, and the windows of the counter |
| `AccessControl` | the users and roles of an office and who holds what, under any number of overlapping requests |
| `MCAccessControl` | an office for TLC |
| `AccessAndSettingsProofs` | type correctness and all five properties of `AccessControl`; then both safety properties of `Settings` |
| `Permissions` | permissions, grants, roles held, the PDF flag, and the screens of the clients |
| `MCPermissions` | two users, two roles and two permission names for TLC |
| `PermissionsProofs` | type correctness and all four properties of `Permissions` |
| `Archives` | the archives, their participants under overlapping transactions, and their PDFs |
| `MCArchives` | instances of `Archives` for TLC |
| `ArchivesProofs` | type correctness and all five properties of `Archives` |
| `News` | the news, their images, and the screen of a connected client |
| `MCNews` | instances of `News` for TLC |
| `NewsProofs` | type correctness and both properties of `News` |
| `Realtime` | the gateway: sockets, their verification, the register; a module that emits extends it |
| `Inbox` | notifications and tasks, composed with `Realtime` |
| `MCInbox` | instances of `Inbox` for TLC |
| `InboxProofs` | type correctness and all four properties of `Realtime` and `Inbox` |
| `Identification` | the format checks of cédula, RUC, NA markers and passports, as functions |
| `Clients` | the clients and the import, over `Identification` |
| `MCClients` | instances of `Clients` for TLC |
| `Settings` | the settings, the log and audit rows, under fairness |
| `MCSettings` | instances of `Settings` for TLC |

Two proof modules hold the proofs of two components that have nothing to do with each other. That is why the names
of `Settings` and `Clients` (`Calls`, `call`, `SettingsSpec`, `ClientsSpec`) differ from those the other modules use for the
same ideas (`Requests`, `req`, `Spec`). Each theorem names the specification it is about.

### AuthSession

Every statement these handlers run is filtered by the user's id or by a token of that user, so the state that
requests share is one account. `user` is the row, reduced to the columns that decide; `token` maps a request to
the row it inserted (a request inserts at most one), `denied` is the denylist by `jti`, `sockets` the access
tokens with a socket in the user's room, `now` a clock. `req[r]` is the continuation of a request: the program
counter is the next awaited call, the other fields are the handler's local variables. Every handler is split at
its awaits; statements between two awaits are one step.

| Handler | Actions |
|---|---|
| `AuthService.login` | `LoginRead`; a wrong password: `LoginCountFailure`, `LoginLock`; a right one: `LoginCheckSession` (409), `LoginTakeOver`, `LoginRevokeOld`, `LoginIssue`, `LoginPurge` |
| `AuthService.refreshTokens` | `RefreshRead`, `RefreshClaim` (the conditional UPDATE), on 0 rows `RefreshDiagnose` and `RefreshRevokeAll`, otherwise `RefreshReload`, `RefreshReissue`, `RefreshTouch` |
| `JwtStrategy.validate` | `ValidateDenylist`, `ValidateUser`, `MarkSeen`, `ServeApi` |
| `logout` | `LogoutRevoke`, `LogoutDeny`, `LogoutClearSeen`, behind the validation |
| `changePassword`, `resetPassword`, `logoutAll` | `ChangePasswordReject`, `ResetPasswordBegin`, `SetPassword`, `LogoutAll` |
| `unlockAccount`, `forceLogout` | `UnlockAccount`, `ForceLogoutBump`, `ForceLogoutRevoke` |
| `UsersService.update` with `isActive` | `UpdateUserRead`, `SetActive`, `DeactivateCut` |
| `RealtimeGateway` | `SocketConnect`, `SocketJoin`, `SocketLeave`, `DisconnectUser` |

`Abort` is a query that fails or a process that stops: what follows in the handler never runs. Passwords are a
free choice (they match or not); token strings are the name of the row; the column `isRevoked` is split into
`spent` and `revoked`, which the code cannot tell apart and the properties must. `parent` and `family` of a row
are history: no guard reads them.

`SessionLine` is what the rotation promises: a session has one head, a rotation consumes it and then hands out a
token never used before, and a closed session is never revived. The refinement mapping reads the line of a
session off its rows and off the rotations in flight (between the UPDATE and the INSERT there is no live row).

### UafeForm

`form` is the row, `rows` the receipts, `objects` the bucket. A key is named by the request that uploads it and
the position of the file, since the service draws a fresh UUID for each. The content of the form is left out,
and ownership is the free choice of `Denied`. `leftovers` and `beside` are history: objects whose deletion
failed, and whether another upload was under way when a request read the form.

| Handler | Actions |
|---|---|
| `getOwnedForm` and the checks behind it | `Denied`, or the first action of a handler |
| `create`, `update` | `CreateForm`; `UpdateForm`, `Touch` |
| `addComprobantes` | `AddRead`, then for each file `AddUpload` and `AddInsert`, then `Touch` |
| `removeComprobante` | `RemoveRead`, `RemoveFind`, `RemoveDeleteRow`, `DeleteObject`, `DeleteDone` |
| `remove` | `RemoveFormRead`, `RemoveFormDelete` (rows go by cascade), `DeleteObject` for each, `DeleteDone` |

`Fail` is a query or an upload that fails; an upload that timed out may have stored its object all the same.
`DeleteObject` may fail silently, as `deleteFile` does.

### RedisFallback

Keys do not interact, so the model has one access token (its key in Redis is `revoked`, its entry in the map of
a pod `denied[p]`) and one counter (`counter`, `mem[p]`). `available[p]` is `RedisService._available`. `req[r]` is a
call to one of the two services on some pod; a command it sends to Redis is a step of its own, and may fail,
executed or not. `place` is where the call wrote or looked, `failed` whether a command of its own failed, `owed`
the logouts that had been answered when a check began, `lost` the places that lost what they held; these and the
`hitters` of a window are history.

| Code | Actions |
|---|---|
| `TokenDenylistService.deny` | `Deny` (expired: nothing; Redis; memory), `DenyStored` |
| `TokenDenylistService.isDenied` | `Check`, `CheckAnswered` |
| `purgeExpired`, `memoryIsDenied` | `Purge` |
| `RedisThrottlerStorage.increment` | `Hit`, then `HitIncr`, `HitPttl`, `HitPexpire`, or `MemIncrement` at once or after a failed PEXPIRE |
| the client's `ready`, `error`, `close` | `Connection` |
| Redis without persistence, `allkeys-lru` | `RedisLoses` |
| a new process | `PodRestarts` |

The code handles the failure of a command in three ways and the model keeps them apart: `RedisService` swallows
it and marks Redis unavailable (`DenyStored`, `CheckAnswered`), the pipeline reports it in its result and the
count is undefined (`HitIncr`, `HitPttl`), and a rejected PEXPIRE falls back to memory (`HitPexpire`). What is
compared with the limit is `Admit`, the guard of `@nestjs/throttler`.

### AccessControl

`user` and `role` say which rows exist and which are soft deleted, `type` the type of a role (its index in
`ROLE_HIERARCHY`: lower is higher), `userRoles` the join table. A request belongs to a user (`by`) and works with
the types of his roles that `JwtStrategy` read at its start (`types`), deleted roles included, since the code does not
filter them. `changed`, `joined`, `retyped` and `bare` are history: how often a user's roles were written,
how often a role was given to somebody, which roles had their type changed, and which users had no role at first
or had one revoked. `before` of a request is the count at the moment it last read or wrote what the count counts, so that a
property can say "unless it changed since".

| Code | Actions |
|---|---|
| `UsersService.create` | `BeginCreate`, `RankCheck`, `InsertUser` (row and roles are one nested write) |
| `NotarioRestrictionGuard`, `UsersService.update` | `BeginUpdate`, `NotarioRestriction`, `FindUser`, `RankCheck`, `ClearRoles`, `FillRoles`, `WriteUser` |
| `ProtectSuperAdminGuard`, `NotarioRestrictionGuard`, `UsersService.remove` | `BeginRemove`, `ProtectSuperAdmin`, `NotarioRestriction`, `FindUser`, `DeleteUser` |
| `RolesService.assignToUser` | `BeginAssign`, `AssignFindRole`, `AssignFindUser`, `AssignRole` |
| `RolesService.revokeFromUser` | `BeginRevoke`, `RevokeFindRole`, `RevokeRole` |
| `RolesService.create`, `update`, `remove` | `CreateRole`; `BeginUpdateRole`, `UpdateRoleFind`, `UpdateRole`; `BeginRemoveRole`, `RemoveRoleFind`, `RemoveRoleCount`, `RemoveRole` |

`Fail` is a query that fails at any point of a handler. Whether the requester has the permission of the route is a free
choice, since permissions are left out. Unknown ids, duplicate emails and duplicate names refuse a
request before it writes anything, which `Fail` does as well.

### Permissions

`name`, `grant`, `member`, `supers` and `flag` are the tables (`supers` the roles of type SUPER_ADMIN, which may do
everything), `shown[u]` what the client of `u` got from `GET /auth/me` last, `hinted` the clients told to reload by
`permissions:changed`. `req[r].who` are the users a request is going to tell, read before or after the write as in
the code. History: `due` is what `role_permissions` would be if no list were replaced in two steps, `stale[u]` the
requests that wrote since `u`'s client loaded, `promoted[u]` those a step of which made `u` a SUPER_ADMIN that he was not
before. At first the followed permission may be granted to any of the roles of the seed script's map: a run of the script may
have died half way.

| Code | Actions |
|---|---|
| `PermissionsService.create`, `update`, `remove` | `CreatePermission`, `InsertPermission`; `UpdatePermission`, `Rename`; `RemovePermission`, `DeletePermission` |
| `assignToRole`, `revokeFromRole` | `Grant`, `Revoke`, then `ReadMembers`, `Tell` |
| `RolesService.update` with `permissionIds` | `UpdateRole`, `Clear`, `Fill`, `RoleRow`, `ReadMembers`, `Tell` |
| `RolesService.assignToUser`, `revokeFromUser` | `Assign`, `AssignRole`; `Unassign`, `UnassignRole`; then `Tell` |
| `UsersService.update` with roles or the flag | `UpdateUser`, `CheckTypes`, `ClearRoles`, `FillRoles`, `UserRow`, `Tell` |
| `prisma/seed.js` | `Seed`, `SeedGrant` for each role of its map |
| the client | `Reload` |

`Assign` and `Unassign` are the look-up of the role and the comparison of its rank (`Look`), the write is a step of its own: the
role may have become one of type SUPER_ADMIN in between.

The seed upserts its permissions independently of each other, so one of them (`First`) is followed. Its first user,
its settings and the mail it sends are left out.

### Archives

`row` is the table, `party` the grantors and beneficiaries that are committed, `bucket` the PDFs. The transaction of an
update runs at READ COMMITTED: `seen` is the snapshot of the statement in progress, `gone` and `added` what the
transaction deleted and inserted, visible to nobody until `Commit`. A statement that wants to delete a row another
open transaction has deleted waits for it (`WaitsFor`), and deletes what is still there afterwards. The partial
unique index is asked at the insert and at the update, as PostgreSQL does, not at the look-up.

| Handler | Actions |
|---|---|
| `create` | `CreateLookup`, `CreateInsert` |
| `update` | `UpdateRead`, `UpdateCheckCode`, for each list of the dto `Snapshot` and `Replace`, then `Commit` |
| `remove` | `Unconfirmed`, or `RemoveRead` and `RemoveRow` |
| `uploadPdf`, `attachPdf` | `Upload`, `Put`, `Find`, `Link` |
| `generatePdf` | `Generate`, `GenerateRead`, `Put`, `Link` |

### News

`row`, `bucket`, and `shown`, the screen of a client that was connected all the time and applies each event.
An image is named by the request that uploads it. `create`: `Create`, `Put`, `Insert`, `Publish`; `update`: `Update`, `Put`,
`Drop` (the old image goes before the row is written), `Write`; `remove`: `Remove`, `Drop`, `DeleteRow`, `Retract`.
`S3_BASE_URL` is taken to have no path prefix: with one, `deleteFile` would derive another key from the address of an
image than the one it was stored under, and no old image would ever be deleted.

### Realtime and Inbox

`Realtime` has the sockets with the state of their verification and `register`, the map `userSockets`. The room of a user is what
socket.io holds: his verified, open sockets. `handleConnection` is two steps, before and after `verifyAsync`; a client
that leaves in between is "gone", and the end of its verification registers it all the same ("stale"). `Inbox` EXTENDS it:
its announcements ask `Reached` and `Everybody` at the moment they are made, and `Die` stops requests and sockets
together. There is one process, as the gateway has no adapter that would join several.

| Code | Actions |
|---|---|
| `create` of both services | `Create`, `Insert`, `Names` (the recipient's name, of a personal notification), `Tell` |
| `markRead`, `markAllRead`, `updateStatus` | `Read`, `ReadAll`, `Status`; then `Write`, `Tell` |
| `remove` | `Remove`, `Delete` |
| the gateway | `Connect`, `NoToken`, `RefuseSocket`, `Verified`, `Close`, `DisconnectUser`, `Restart` |

A task's status is named by the request that set it, so that two updates can be told apart.

### Identification and Clients

The checks of `identification.helper.ts` look at two things only, which characters and how many, and so does the model: a
document is a form ("digits", "na", "alnum", "other") and a length. `Clients` enumerates the dtos the validation pipe
lets through: `PartialDtos` for an update, all of whose fields are optional, so that a passport may be announced and missing
(which the service refuses), and the narrower `Dtos` for a creation and the rows of an import. What ends up stored is compared with `WellFormed`, the
definition the comments and messages of the helper give. `create`: `Create`, `Insert`; `bulkCreate`: `Bulk`, `Insert` (one
`createMany`); `update`: `Update`, `Write`; `remove`: `Remove`, `Delete`. All of them then wait for their log row (`Logged`) before they
answer. The process may die there (`FailCall`) with the table changed and the client without an answer, and so an import
without answer may have stored all of its rows or none.

### Settings

A value is named by the request that wrote it. `updateConfig` sends one upsert per key under `Promise.all`: `Config`
puts them in `pending`, `Upsert` executes them in any order, `UpsertFails` ends the handler while the others are on
their way. `LogRow` is the row the service waits for and whose failure it swallows, `Persist` the audit row that
`AuditInterceptor` stores after the answer and nobody waits for. `Audited` says which requests have one: every
mutation, and a GET with query parameters. What a guard refuses never reaches the interceptor and is not
audited; such requests are not in the model. `Bulk` is `PATCH /settings`, which the validation pipe refuses whatever it
contains.

## 3. The runs

| Run | Expect | Question | Bounds |
|---|---|---|---|
| `account` | pass | Do the token chains, their expiry and epoch and the lockout survive any interleaving of any three requests? Does rotation implement `SessionLine`? | 3 requests of every kind, 2 failures to lock, 3 instants, one request may die |
| `serial` | pass | While logins do not overlap: is there one session, and does a stale access token stay stale? | 4 requests, 3 instants |
| `two_logins` | violation | `SingleSession` without the restriction on logins | 3 requests |
| `uafe_files` | pass | Do rows and objects agree, is no object forgotten, does the limit hold without overlap? | 4 requests, 2 files each, limit 2, 2 failures |
| `redis_pods` | pass | Does a revocation hold where it is kept until the token expires? Does a window admit no more than the limit, and is a counter without expiry repaired? | 2 pods, 3 calls, 1 fault, token of 3 instants, clock to 4, limit 1 |
| `access_office` | pass | Does a write still rely on what the check before it found, whatever another request did in between? | 2 requests of 8 operations, 4 users, 4 roles (one of each does not exist at first), one role id in a dto |
| `permissions` | pass | Does a client offer what its user may do? Does a role lose a permission nobody took? Can a SUPER_ADMIN be restricted? Does a run of the seed that ends leave nothing out? | 2 requests, 2 users, 2 roles, both in the seed's map and with or without its permission at first, 2 names, one fault |
| `archives` | pass | Are codes unique, participants of one update, updates free of deadlock, PDFs accounted for, removed archives at rest? | 3 requests on one stored and three new archives, 2 codes, one fault |
| `news` | pass | Do rows and bucket agree, and does a connected client show what there is? | 3 requests, one stored news with or without image, 2 faults |
| `inbox` | pass | Does the register follow the rooms, is a first read told once, is the status told last the status, and does an announcement reach those it is for? | 2 users, 2 sockets, 2 requests, one stored item of either kind, one fault or crash |
| `clients` | pass | Is what is stored well formed, does an import store all or none of its well-formed rows wherever it dies, and does its answer account for every row? | 2 requests, imports of 2 rows, lengths 0, 4, 5, 10, 13, 20, 21, one fault |
| `settings` | pass | Is a configuration that of one update, does a change leave a record, does every request end? | 2 requests, 3 keys, 3 faults |

`two_logins` is a disagreement between what the repository says and what the code does; `PROJECT.json`
("findings") quotes both, and `serial` says under which condition the promise is kept after all.

Some claims of the documentation were refuted in the same way and are kept as configurations, to be run by hand:

| Configuration | Module | Claim that TLC refutes |
|---|---|---|
| `AuthSession_lock.cfg` | `MCAuthSession` | an account is unlocked by an unlock only |
| `AuthSession_replay.cfg` | `MCAuthSession` | a replay is diagnosed only for a consumed token |
| `AuthSession_force.cfg` | `MCAuthSession` | a login is refused with 409 only for a session that works |
| `AuthSession_sockets.cfg` | `MCAuthSession` | sockets follow the session |
| `UafeForm_cap.cfg` | `MCUafeForm` | a form never has more receipts than the limit |
| `RedisFallback_logout.cfg` | `MCRedisFallback` | the pod that answered a logout refuses the token from then on |
| `Settings_bulk.cfg` | `MCSettings` | `PATCH /settings` carries out a bulk update |

(`tlc -config AuthSession_lock.cfg MCAuthSession`.)

**Why the bounds are enough.** A request is a single pass through one handler, so the number of requests bounds
the actors and the length of a history at once. Three requests are a login, whose tokens the other two use, and
two that race; a replay needs the same three, and two logins racing need no third. `serial` needs
four: a session, what supersedes it, what uses it late, and a login that suffers. Three instants are: before an expiry or
an idle window, at it, after it. With two failures to lock, the counter passes the threshold while a lock is
under way. In `UafeForm` one request creates the form, so three race: an upload, a removal and another upload or
the removal of the form; two files are the least for which an upload stops half way, a limit of two the least that two uploads of two
exceed. Two failures let both sides of a race fail. In `RedisFallback` three calls are a logout, a check and one that changes
what the pods believe of Redis, or three hits on a limit of one; two pods are the least that can differ, one
fault is the least that separates the places, and the clock passes the token's expiry and three windows. In `AccessControl`
each property relates one request to what one other did between two of its queries, and two requests are that;
a super administrator, a NOTARIO, a lower user and one still to be created are the ranks that the checks
tell apart. The same holds for `Permissions`, where the second role or user is the one the request is not about. A run of the seed script that
died half way before the two requests is in its first states, so that a request and a second run of the script can follow it. In
`Archives` three updates can each hold one list and want another, the least for a circle longer than two, and two codes
can be exchanged. `News` needs three: two updates that read the same image, and a removal. In `Inbox` the
sender and the recipient are the users that matter, one of two sockets may come while the other goes, and three items are one to be
read and two to be created. The lengths of `Clients` are the boundaries of the checks: empty, too short for a
passport, the shortest passport, a cédula or NA marker, a RUC, the longest passport, too long; two rows are the least of which one can be in error. The two keys of a
configuration and one setting outside it are the least for which two updates mix; three faults let two rows and a
query be lost together, so that `OneFaultLeavesRecord` is about the states with at most one. Beyond
the bounds the proofs take over for the properties they cover. Deadlock is checked in every run; `Terminated` is
the only state allowed to stop, with all requests answered or dead.

**Fairness.** Only `Settings` assumes any: weak fairness of each request's `Progress`, the execution of a
statement that PostgreSQL was sent and the continuations after it. PostgreSQL answers what it was sent and Node's event
loop runs every callback whose result has come, so a step that stays possible is taken. No request has to arrive, no
fault has to happen, and `UpsertFails` and `Crash` are not fair. `RequestsEnd` is checked without symmetry. The other
specifications are `Init /\ [][Next]_vars`: a
handler may die at any await, and no part of that code retries, so there is nothing
that must eventually happen that the code is responsible for (`Purge` runs on a timer, but only frees memory).

**Mutants.** Each property of a passing run has a mutated definition beside the one it changes (`LoginCountFailureLate`,
`RemoveDeleteObjectFirst`, `NextKindAny`, ...): put in the place of the original it makes TLC find the property violated, so
the property does watch that line of the code. Nothing else refers to them.

## 4. The proofs

Each theorem holds for every set of requests and all values of the constants that the named assumptions of its module
allow. Those are of three kinds. Bounds are natural numbers, positive where the configuration requires it
(`BoundsAssumption`, `UafeBounds`, `RedisBounds`, `ClientBounds`, `FaultBound`, `LengthsAreNaturals`). Sentinels are not
values (`RequestsAssumption`, `PlacesDiffer`, `NobodyCalls`, `NullIsNoUser`, `AllIsNoUser`, `NullIsNoName`, `NullIsNoNews`,
`SentinelsDiffer`). And the sets and the first state fit together (`OperationsAssumption`; `InitialRows`: at first a user
holds roles that exist; `SendersAreUsers`; `SeedOfNames`: the seed script's map has roles that exist; `ConfigKeysAreKeys`;
`SeedsAreNoRequests`, `FirstIsNoRequest`: the items of the first state are not named like those that requests create). TLC
evaluates all of them in the runs.

| Theorem | States | Argument |
|---|---|---|
| **AuthSession** | | |
| `TypeCorrect` | `Spec => []TypeOK` | not inductive: a rotation copies the expiry of the token presented, a time only because that token was granted. `TypeInv` adds `Presenting`: whoever presents a token presents a granted one |
| `ThresholdCorrect` | `Spec => []ThresholdLocks` | inductive with `TypeInv`: the counter only grows where it is checked, and is reset together with the lock |
| `OneLivePerSessionCorrect` | `Spec => []OneLivePerSession` | `ChainInv`: a chain has one holder, which is its live token or the one request between consuming it and inserting the successor |
| `RotationKeepsSessionCorrect` | `Spec => []RotationKeepsSession` | the same invariant: a rotator carries the expiry and the epoch of the token it consumed |
| `SessionLineImplemented` | `Spec => ImplementsSessionLine` | the refinement. `Lines`: the line of a session follows from the holder of its chain; `Rooted` says which chains have begun when nobody holds them. A claim is `Consume`, an insert `Open` or `HandOut`, every other step `Close` (possibly of no session) |
| `SingleSessionCorrect` | `SerialSpec => []SingleSession` | `SerialInv`: the login in flight is about to use an epoch above every issued one, so epochs tell sessions apart |
| `StaleAccessCorrect` | `SerialSpec => StaleAccessStaysStale` | the same: a take-over may set the account's epoch back, never to that of an issued token |
| **UafeForm** | | |
| `FileTypeCorrect` | `Spec => []TypeOK` | `FileInv` |
| `RowsHaveObjectsCorrect` | `Spec => []RowsHaveObjects` | `FileInv`: a key is inserted once, in the order of its files, and what is being deleted was inserted and is out of the rows |
| `OrphansAccountedCorrect` | `Spec => []OrphansAccounted` | `OrphanInv`: no object before the form exists, and a request that failed does nothing more |
| `CapCorrect` | `Spec => []CapWithoutOverlap` | `CapInv`: while no request read beside another one that was adding, at most one is adding, and the files it has still to send fit below the limit |
| **RedisFallback** | | |
| `RedisTypeCorrect` | `Spec => []TypeOK` | `KeptInv` |
| `RevocationHoldsCorrect` | `Spec => RevocationHolds` | `KeptInv`: while the token is valid, every logout that was answered without a failure and whose place lost nothing has its record there, lasting at least as long as the token. A SETEX still to run will leave such a record however late it runs (`InTime`), since its time to live was computed before |
| `EndlessCounterCorrect` | `Spec => []EndlessCounterRepaired` | `CounterInv`: a counter was started by a call that has still to set its expiry or has failed |
| `WindowLimitCorrect` | `Spec => []WindowLimit` | `WindowInv`: INCR gives the calls of a window different counts, so those whose count passes (`Passed`) are no more than the limit; in memory a call is counted and compared in one step |
| **AccessControl** | | |
| `AccessTypeCorrect` | `Spec => []TypeOK` | `AccessInv`, of which the following are also consequences |
| `NoEscalationCorrect` | `Spec => NoEscalation` | `Ranked`: between check and write every role named is below the requester's rank or was retyped |
| `SuperAdminProtectedCorrect` | `Spec => SuperAdminProtected` | `Guarded`: what a guard saw of the target holds while the count `changed` stands |
| `UpdateReplacesCorrect` | `Spec => UpdateReplaces` | `Emptied`: between the two writes the target has no roles while `changed` stands |
| `RolelessExplainedCorrect` | `Spec => []RolelessExplained` | `Roleless`, which drops the condition that the user exists and is inductive with the rest |
| `DeletedRoleUnheldCorrect` | `Spec => []DeletedRoleUnheld` | `Deleted` and `Tallied`: a deleted role has its removal among the requests, and nobody held it when that counted |
| **Archives** | | |
| `ArchiveTypeCorrect` | `Spec => []TypeOK` | `ArchiveInv`, of which the following are also consequences. It says of each request which parameters it has (`Shape`), what its transaction deleted, inserted and has still to replace, and what it found that is still true |
| `CodeUniqueCorrect` | `Spec => []CodeUnique` | the index is asked in the step that writes a code |
| `PartiesCorrect` | `Spec => []PartiesOfOneUpdate` | transactions that claim participants of one kind of one archive are near (`ClaimsNear`): one was open when the other took its snapshot, because what a snapshot does not show was committed after it (`WantedSeen`) and what it shows is replaced (`ReplacedGone`) |
| `NoCircularWaitCorrect` | `Spec => []NoCircularWait` | all updates replace the grantors before the beneficiaries: whoever waits for the beneficiaries waits for one that waits for nobody |
| `PdfCorrect` | `Spec => []PdfAccounted` | a PDF is uploaded before it is linked, and never deleted |
| `RemovedRestsCorrect` | `Spec => RemovedArchiveRests` | a request that begins after the removal does not find the archive |
| **Permissions** | | |
| `OfficeCorrect` | `Spec => []CallInv` | the types, what a request has by its operation, and that only permissions that exist are granted |
| `LossCorrect` | `Spec => []LossExplained` | inductive with `CallInv`: a role's update keeps its mark `cleared` from its deleteMany until its createMany has put back the list, and `due` loses what the update drops on purpose |
| `ScreensCorrect` | `Spec => []ScreensFollowGrants` | `ScreenInv`: of the requests that made a client stale one is of those that never tell, or can still be seen to tell that client: it has read him, or it is still to read the members of a role he has |
| `RestrictionCorrect` | `Spec => []RestrictionExplained` | `FlagInv` speaks of every request past its look at the roles (`Passed`) and not only of those that have written the flag, and says that who promoted is past that step, so that a look made later sees it. That the role was no SUPER_ADMIN's when its rank was looked at is not in it: the role need not have kept its type, and whoever's write promotes is in `promoted` |
| `SeedCorrect` | `Spec => SeedComplete` | `SeedInv`: unless somebody can have taken them, the roles the script is done with have the permission |
| **News** | | |
| `NewsCorrect` | `Spec => []CallInv` | the types, where each operation can be, and that what was read or is shown has a row |
| `ImagesCorrect` | `Spec => []ImagesAccounted` | `ImageInv` follows an image from its upload (`Placed`) over the one row that can have it (`Named`) to its deletion (`Dropped`); when the row has another image than a request has read (`Overwritten`), the request that wrote that image is known to have had company |
| `BoardCorrect` | `Spec => []ScreenFollows` | `BoardInv`: what is removed and still shown was removed before its announcement (`RemovedEarly`) or is still to be taken down |
| **Settings** | | |
| `ConfigCorrect` | `SettingsSpec => []ConfigOfOneUpdate` | `Ordered`: of two requests that never overlapped one was over before the other began, and none of its values is left where the other has written; upserts that are sent but not executed (`pending`) count as company |
| `RecordCorrect` | `SettingsSpec => []OneFaultLeavesRecord` | `FaultsCounted`: without a crash each record that a change lacks is paid for by a fault of its own |
| **Clients** | | |
| `StoredCorrect` | `ClientsSpec => []StoredWellFormed` | the lemma `CheckIsLaw`: the chain of checks in `validateIdentificacion` accepts what `WellFormed` has, and nothing else, for documents of every length. The rest of `ClientsInv` says that a request on its way to write holds only rows that were accepted, or for an update none |
| `ImportCorrect` | `ClientsSpec => []ImportAccounted` | `Imported`: the rows named by a request are in the table if and only if it has counted them, which it does where it inserts them and which stays, whether it then answers or dies at its log row. That imported and refused rows add up is `RowsAddUp`, about cardinalities |
| **Realtime, Inbox** | | |
| `InboxTypeCorrect` | `Spec => []TypeOK` | `InboxInv`: the parameters of each request (`Shape`) and `RealtimeInv` |
| `RegisterCorrect` | `Spec => []RegisterOfRoom` | `RealtimeInv` adds `Owned`: a socket that presented a token names its user |
| `HeardCorrect` | `Spec => HeardByAll` | since the register misses no socket of a room, `Reached(u)` is `Room(u)` |
| `ReadToldCorrect` | `Spec => []ReadToldOnce` | `ToldInv`: of two requests that found an item unread, one had not written when the other did, and that one names it in `with` (`Overtaken`, `BothTell`); what `markAllRead` marks besides its list arrived after the list was made (`Late`) |
| `StatusShownCorrect` | `Spec => []StatusShown` | `StatusInv`: a status that waits to be announced is the one of the task, or the task's names it in `with` |

`AccessInv` is inductive because of one fact about all steps, `Grows`: the counts only grow, what a count covers
is unchanged while the count is, and a role that exists keeps existing with its type unless it is recorded as retyped. What
one request found therefore stands beside any step of another (`GoodBeside`), and each action needs a proof only for its
own request.

The proofs of `Inbox` sort the actions by what they do to the history: a step begins requests (`Beginning`), ends them without an
announcement (`Ending`), inserts, writes, or tells; each kind has one lemma for `ToldInv` and one for `StatusInv`.

The proofs of `Permissions` and `News` never argue about an action's text twice: a first layer of lemmas says for each operation
what it does to its own request, which tables it leaves alone and what it writes (`Begun`, `Moved`, `Went`, `Ended`), and the
invariants of the properties are proved from those. In `Clients` one lemma (`CallKeeps`) does for all the steps that insert
nothing, and in `Settings` the proof goes by which statement ran.

The inductive invariants were tried with TLC, as invariants of a small instance, before they were proved. Two properties could not be used as
they stand and show why a strengthening is needed: `RestrictionExplained` is not inductive, because a request that has passed
the check and not yet written the flag is exactly the one that restricts a SUPER_ADMIN later; and `ConfigOfOneUpdate` is not,
because it says nothing of a request whose upserts are still under way.

`TypeOK` of `UafeForm`, `Archives` and `Inbox` is proved and therefore not among the properties of their runs; the types of
`Permissions`, `News`, `Settings` and `Clients` are parts of their invariants.

So every safety invariant and every action property of the passing runs is a theorem, and so is the refinement. Only
model-checked is `RequestsEnd` of `Settings`: liveness under fairness is out of the prover's reach. What else the prover
cannot do (ENABLED, induction over data, RECURSIVE operators) no property here needs. `SingleSession` without the
condition on logins and the claims of the table in section 3 are false, and TLC shows a behaviour for each.

## 5. What is not modelled, and why

- **Notaries** are single rows, created, updated and deleted by one statement each, on which nothing else depends.
- **Bootstrap, configuration, filters, health, file download** wire and format, and keep no state.
- **Handlers that only read** (listings, searches, statistics, profiles) and presigned URLs change nothing.
- **Input validation** except where a property is about what gets through (`Clients`, `Settings`); cleaning of HTML; the content of
  forms; the columns that decide nothing.
- **Unique emails and names**, beyond the codes of archives: the database refuses a duplicate in the
  statement that would write it, and the model's failures of a query cover the refusal. (The identification of a client is only
  indexed: two clients may have the same.)
- **Who may call a route** is a free choice where it depends on permissions, in the modules that are not about
  permissions; so is the role rule of `resetPassword`. Requests that a guard refuses are not audited and not in `Settings`.
- **Log rows** are written by most services in the same way, errors swallowed; `Settings` has them, and `Clients` the step in which a handler waits for one. The other
  modules leave them out, since nothing reads them back: where only the log row follows the last write of a handler, the request ends with that write, and its
  result ("ok", "served") says that the write was made, not that the client got the answer.
- **Check digits** of cédula and RUC (`validators.util.ts`): nothing in the application calls them.
- **The key of a throttled request** (`UserThrottlerGuard.getTracker`): keys do not interact.
- **The failures of Redis under the denylist** that `AuthSession` uses are `RedisFallback`'s subject; the two are
  not composed.
- **Several processes** in `Realtime` and `Inbox`: the gateway has no adapter, so a socket hears only the announcements of its own
  process, and a second one would add nothing but that. A clock that differs between processes is modelled nowhere.
- **The seed script's** first user, settings and mail, and the script that strips stored HTML: upserts that run
  once, by hand.

## 6. Plan

Everything planned is built: the core (`AuthSession`, `UafeForm`, `RedisFallback`, `AccessControl`), then `Archives`, `News`,
`Inbox` with `Realtime`, `Clients` with `Identification`, `Permissions`, and `Settings` with fairness. What is left:

1. The composition of `RedisFallback` with `AuthSession`, in the place of the set `denied`, and what of `RevocationHolds`
   carries over to `JwtStrategy`.
2. An abstract specification of an archive whose participants one update replaces at once; `Archives` implements it only while
   updates of one archive do not overlap, as `PartiesOfOneUpdate` already says.
3. An abstract specification of the board (`News`) and of the register (`Realtime`) for which `ScreenFollows` and `RegisterOfRoom` are
   the mapping, with the refinement proved step by step.
