--------------------------- MODULE RedisFallback ---------------------------
(***************************************************************************)
(* What the pods of the API keep in Redis, and in their own memory while   *)
(* Redis is away: the denylist of revoked access tokens                    *)
(* (TokenDenylistService) and the counters of the rate limiter             *)
(* (RedisThrottlerStorage), over RedisService.                             *)
(*                                                                         *)
(* Keys do not interact, so there is one access token and one counter.     *)
(* Each pod takes Redis for available from its last "ready" to the next    *)
(* error.  A command to Redis is a step; it may fail, executed or not, and *)
(* Redis may lose a key: it persists nothing and evicts under pressure.    *)
(***************************************************************************)
EXTENDS Naturals, FiniteSets

CONSTANTS
  Pods,       \* processes of the API
  Requests,   \* calls to the two services; each is made at most once
  Redis, NULL,
  TokenExp,   \* exp claim of the access token, in seconds
  Limit,      \* limit of the throttler
  Ttl,        \* ttl of the throttler, in seconds
  MaxClock,   \* bound: the clock stops here
  MaxFaults   \* bound: failed commands, changes of availability, losses

ASSUME PlacesDiffer == Redis \notin Pods /\ NULL \notin Pods \cup {Redis} \cup Nat
ASSUME RedisBounds ==
  /\ TokenExp \in Nat /\ Limit \in Nat /\ Ttl \in Nat \ {0}
  /\ MaxClock \in Nat /\ MaxFaults \in Nat

VARIABLES
  available,  \* RedisService._available, of each pod
  revoked,    \* the key revoked:<jti> in Redis: when it expires, or NULL
  denied,     \* the denied map of each pod: the exp of the token, or NULL
  counter,    \* the key of the counter in Redis
  mem,        \* the mem map of each pod: its record of the counter
  req,        \* the calls: program counter and local variables
  lost,       \* history: the places that lost what they held
  faults,     \* history: how many faults there were
  now         \* the clock

redisVars ==
  <<available, revoked, denied, counter, mem, req, lost, faults, now>>
denylist == <<revoked, denied>>
throttler == <<counter, mem>>

Places == Pods \cup {Redis}

(***************************************************************************)
(* A window of the counter.  expiresAt is NULL for a key without a time to *)
(* live; hitters is history: the calls counted in this window.             *)
(***************************************************************************)
Window == [ hits: Nat, expiresAt: Nat \cup {NULL}, hitters: SUBSET Requests ]
NoWindow == [ hits |-> 0, expiresAt |-> NULL, hitters |-> {} ]

(***************************************************************************)
(* place is where the call looked or wrote, failed that a command of its   *)
(* own failed; owed is history: the logouts answered when a check began.   *)
(***************************************************************************)
CallState ==
  [ pc: { "new", "setex", "exists", "incr", "pttl", "pexpire", "done" },
    result: { "none", "denied", "accepted", "rejected", "admitted", "throttled",
              "crashed" },
    pod: Pods \cup {NULL}, place: Places \cup {NULL},
    ttl: Nat, hits: Nat, failed: BOOLEAN, owed: SUBSET Requests ]

NewCall ==
  [ pc |-> "new", result |-> "none", pod |-> NULL, place |-> NULL,
    ttl |-> 0, hits |-> 0, failed |-> FALSE, owed |-> {} ]

TypeOK ==
  /\ available \in [Pods -> BOOLEAN]
  /\ revoked \in Nat \cup {NULL}
  /\ denied \in [Pods -> Nat \cup {NULL}]
  /\ counter \in Window
  /\ mem \in [Pods -> Window]
  /\ req \in [Requests -> CallState]
  /\ lost \subseteq Places
  /\ faults \in Nat
  /\ now \in Nat

\* onModuleInit waits for the first connection, and goes on without it.
Init ==
  /\ available \in [Pods -> BOOLEAN]
  /\ revoked = NULL
  /\ denied = [p \in Pods |-> NULL]
  /\ counter = NoWindow
  /\ mem = [p \in Pods |-> NoWindow]
  /\ req = [r \in Requests |-> NewCall]
  /\ lost = {} /\ faults = 0 /\ now = 0

----------------------------------------------------------------------------
At(r, pc) == req[r].pc = pc

Become(r, x) == req' = [req EXCEPT ![r] = x]

\* The call begins on pod p and waits for Redis at pc.
Send(r, pc, p) ==
  Become(r, [req[r] EXCEPT !.pc = pc, !.pod = p, !.place = Redis])

Finish(r, result) == Become(r, [req[r] EXCEPT !.pc = "done", !.result = result])

\* It is answered from the memory of its pod at once.
FinishInMemory(r, result, p) ==
  Become(r, [req[r] EXCEPT !.pc = "done", !.result = result, !.pod = p, !.place = p])

Fault == faults < MaxFaults /\ faults' = faults + 1
NoFault == UNCHANGED <<lost, faults>>

\* A command of RedisService failed: it is logged, and nothing is thrown.
Degrade(r) == available' = [available EXCEPT ![req[r].pod] = FALSE]

----------------------------------------------------------------------------
(***************************************************************************)
(* deny(jti, exp) by a logout.  isAvailable and the command it guards run  *)
(* without an await in between.                                            *)
(***************************************************************************)
\* Mutant: the fallback keeps the remaining time and not the exp.
DenyRemaining(r, p) ==
  /\ At(r, "new") /\ now < TokenExp /\ ~available[p]
  /\ denied' = [denied EXCEPT ![p] = TokenExp - now]
  /\ FinishInMemory(r, "denied", p)
  /\ NoFault /\ UNCHANGED <<available, revoked, throttler, now>>

\* Mutant: an expired token is denied like any other.
DenyExpired(r, p) ==
  /\ At(r, "new") /\ available[p]
  /\ Become(r, [req[r] EXCEPT !.pc = "setex", !.pod = p, !.place = Redis,
                              !.ttl = TokenExp - now])
  /\ NoFault /\ UNCHANGED <<available, denylist, throttler, now>>

Deny(r, p) ==
  /\ At(r, "new")
  /\ \/ /\ now >= TokenExp
        /\ Finish(r, "denied")
        /\ UNCHANGED denied
     \/ /\ now < TokenExp /\ available[p]
        /\ Become(r, [req[r] EXCEPT !.pc = "setex", !.pod = p, !.place = Redis,
                                    !.ttl = TokenExp - now])
        /\ UNCHANGED denied
     \/ /\ now < TokenExp /\ ~available[p]
        /\ denied' = [denied EXCEPT ![p] = TokenExp]
        /\ FinishInMemory(r, "denied", p)
  /\ NoFault /\ UNCHANGED <<available, revoked, throttler, now>>

\* setex returns normally whether the command failed or not, so the memory
\* of the pod is never used then; a command that timed out may have run.
DenyStored(r) ==
  /\ At(r, "setex")
  /\ \/ revoked' = now + req[r].ttl /\ NoFault /\ UNCHANGED available
        /\ Finish(r, "denied")
     \/ revoked' \in { revoked, now + req[r].ttl } /\ Fault /\ UNCHANGED lost
        /\ Degrade(r)
        /\ Become(r, [req[r] EXCEPT !.pc = "done", !.result = "denied", !.failed = TRUE])
  /\ UNCHANGED <<denied, throttler, now>>

(***************************************************************************)
(* isDenied(jti), in the validation of a token that has not expired.       *)
(***************************************************************************)
Answered == {d \in Requests : req[d].result = "denied"}

Check(r, p) ==
  /\ At(r, "new") /\ now < TokenExp
  /\ \/ /\ available[p]
        /\ Become(r, [req[r] EXCEPT !.pc = "exists", !.pod = p, !.place = Redis,
                                    !.owed = Answered])
     \/ /\ ~available[p]
        /\ Become(r, [req[r] EXCEPT !.pc = "done", !.pod = p, !.place = p, !.owed = Answered,
             !.result = IF denied[p] # NULL /\ now <= denied[p] THEN "rejected"
                                                                ELSE "accepted"])
  /\ NoFault /\ UNCHANGED <<available, denylist, throttler, now>>

\* A command that fails counts as "not denied".
CheckAnswered(r) ==
  /\ At(r, "exists")
  /\ \/ /\ Finish(r, IF revoked # NULL /\ now < revoked THEN "rejected" ELSE "accepted")
        /\ NoFault /\ UNCHANGED available
     \/ /\ Become(r, [req[r] EXCEPT !.pc = "done", !.result = "accepted", !.failed = TRUE])
        /\ Degrade(r)
        /\ Fault /\ UNCHANGED lost
  /\ UNCHANGED <<denylist, throttler, now>>

\* memoryIsDenied and purgeExpired drop the entry of an expired token.
Purge(p) ==
  /\ denied[p] # NULL /\ now > denied[p]
  /\ denied' = [denied EXCEPT ![p] = NULL]
  /\ NoFault /\ UNCHANGED <<available, revoked, throttler, req, now>>

----------------------------------------------------------------------------
(***************************************************************************)
(* increment(key, ttl), whose answer the throttler compares with limit.    *)
(***************************************************************************)
Admit(hits) == IF hits <= Limit THEN "admitted" ELSE "throttled"

\* The window w after r was counted in it.
Counted(w, r) == [w EXCEPT !.hits = @ + 1, !.hitters = @ \cup {r}]

\* Mutant: the answer is the count before this hit.
MemIncrementStale(r, p) ==
  LET open == mem[p].hits > 0 /\ now < mem[p].expiresAt
      w == IF open THEN Counted(mem[p], r)
           ELSE [ hits |-> 1, expiresAt |-> now + Ttl, hitters |-> {r} ]
  IN  /\ mem' = [mem EXCEPT ![p] = w]
      /\ Become(r, [req[r] EXCEPT !.pc = "done", !.pod = p, !.place = p,
                      !.failed = At(r, "pexpire"), !.result = Admit(w.hits - 1)])

MemIncrement(r, p) ==
  LET open == mem[p].hits > 0 /\ now < mem[p].expiresAt
      w == IF open THEN Counted(mem[p], r)
           ELSE [ hits |-> 1, expiresAt |-> now + Ttl, hitters |-> {r} ]
  IN  /\ mem' = [mem EXCEPT ![p] = w]
      /\ Become(r, [req[r] EXCEPT !.pc = "done", !.pod = p, !.place = p,
                      !.failed = At(r, "pexpire"), !.result = Admit(w.hits)])

Hit(r, p) ==
  /\ At(r, "new")
  /\ \/ available[p] /\ Send(r, "incr", p) /\ UNCHANGED mem
     \/ ~available[p] /\ MemIncrement(r, p)
  /\ NoFault /\ UNCHANGED <<available, denylist, counter, now>>

(***************************************************************************)
(* The pipeline is not a transaction: other clients run between INCR and   *)
(* PTTL.  exec does not throw when a command in it fails: the count is     *)
(* then undefined, which no limit is exceeded by.                          *)
(***************************************************************************)
CounterOpen == counter.hits > 0 /\ (counter.expiresAt # NULL => now < counter.expiresAt)

CounterNext(r) ==
  IF CounterOpen THEN Counted(counter, r)
                 ELSE [ hits |-> 1, expiresAt |-> NULL, hitters |-> {r} ]

HitIncr(r) ==
  /\ At(r, "incr")
  /\ \/ /\ counter' = CounterNext(r)
        /\ Become(r, [req[r] EXCEPT !.pc = "pttl", !.hits = CounterNext(r).hits])
        /\ NoFault
     \/ /\ counter' \in { counter, CounterNext(r) }
        /\ Become(r, [req[r] EXCEPT !.pc = "done", !.result = "admitted", !.failed = TRUE])
        /\ Fault /\ UNCHANGED lost
  /\ UNCHANGED <<available, denylist, mem, now>>

\* Mutant: only the first hit sets the time to live.
HitPttlFirstOnly(r) ==
  /\ At(r, "pttl")
  /\ IF req[r].hits = 1 THEN Become(r, [req[r] EXCEPT !.pc = "pexpire"])
                        ELSE Finish(r, Admit(req[r].hits))
  /\ NoFault /\ UNCHANGED <<available, denylist, throttler, now>>

\* PTTL answers -1 for a key without a time to live.
HitPttl(r) ==
  LET endless == CounterOpen /\ counter.expiresAt = NULL
  IN  /\ At(r, "pttl")
      /\ \/ /\ req[r].hits = 1 \/ endless
            /\ Become(r, [req[r] EXCEPT !.pc = "pexpire"])
            /\ NoFault
         \/ /\ req[r].hits # 1 /\ ~endless
            /\ Finish(r, Admit(req[r].hits))
            /\ NoFault
         \/ /\ Become(r, [req[r] EXCEPT !.failed = TRUE,
                            !.pc = IF req[r].hits = 1 THEN "pexpire" ELSE "done",
                            !.result = IF req[r].hits = 1 THEN "none" ELSE Admit(req[r].hits)])
            /\ Fault /\ UNCHANGED lost
      /\ UNCHANGED <<available, denylist, throttler, now>>

\* A failure here is caught: the hit is counted in memory as well.
HitPexpire(r) ==
  LET expiring == IF CounterOpen THEN [counter EXCEPT !.expiresAt = now + Ttl] ELSE counter
  IN  /\ At(r, "pexpire")
      /\ \/ /\ counter' = expiring
            /\ Finish(r, Admit(req[r].hits))
            /\ NoFault /\ UNCHANGED mem
         \/ /\ counter' \in { counter, expiring }
            /\ MemIncrement(r, req[r].pod)
            /\ Fault /\ UNCHANGED lost
      /\ UNCHANGED <<available, denylist, now>>

----------------------------------------------------------------------------
\* The connection of a pod closes or fails, or is ready again.
Connection(p) ==
  /\ available' = [available EXCEPT ![p] = ~@]
  /\ Fault
  /\ UNCHANGED <<denylist, throttler, req, lost, now>>

\* Redis restarts empty, or evicts one of the two keys.
RedisLoses ==
  /\ \/ revoked' = NULL /\ UNCHANGED counter
     \/ counter' = NoWindow /\ UNCHANGED revoked
     \/ revoked' = NULL /\ counter' = NoWindow
  /\ lost' = lost \cup {Redis}
  /\ Fault
  /\ UNCHANGED <<available, denied, mem, req, now>>

\* A pod restarts: its maps and the calls it was serving are gone.
PodRestarts(p) ==
  /\ denied' = [denied EXCEPT ![p] = NULL]
  /\ mem' = [mem EXCEPT ![p] = NoWindow]
  /\ available' \in {available, [available EXCEPT ![p] = ~@]}
  /\ req' = [r \in Requests |->
               IF req[r].pod = p /\ ~At(r, "done")
               THEN [req[r] EXCEPT !.pc = "done", !.result = "crashed", !.failed = TRUE]
               ELSE req[r]]
  /\ lost' = lost \cup {p}
  /\ Fault
  /\ UNCHANGED <<revoked, counter, now>>

Tick ==
  /\ now < MaxClock
  /\ now' = now + 1
  /\ UNCHANGED <<available, denylist, throttler, req, lost, faults>>

Terminated ==
  /\ \A r \in Requests : At(r, "done")
  /\ now = MaxClock
  /\ UNCHANGED redisVars

CallStep(r) ==
  \/ \E p \in Pods : Deny(r, p) \/ Check(r, p) \/ Hit(r, p)
  \/ DenyStored(r) \/ CheckAnswered(r)
  \/ HitIncr(r) \/ HitPttl(r) \/ HitPexpire(r)

Next ==
  \/ \E r \in Requests : CallStep(r)
  \/ \E p \in Pods : Purge(p) \/ Connection(p) \/ PodRestarts(p)
  \/ RedisLoses \/ Tick \/ Terminated

Spec == Init /\ [][Next]_redisVars

----------------------------------------------------------------------------
(***************************************************************************)
(* A token whose logout was answered is accepted while it is valid only if *)
(* the command of the logout or of the check failed, the two went to       *)
(* different places, or the place lost what it held.  No time that passes  *)
(* between the steps ends a revocation early                               *)
(* (token-denylist.service.ts:26-66).                                      *)
(***************************************************************************)
Accepts(r) == req[r].result # "accepted" /\ req'[r].result = "accepted" /\ now < TokenExp

RevocationHolds ==
  [][\A r \in Requests : Accepts(r) =>
       \A d \in req'[r].owed :
         \/ req[d].failed \/ req'[r].failed
         \/ req[d].place # req'[r].place
         \/ req'[r].place \in lost]_redisVars

(***************************************************************************)
(* A counter without a time to live, which would throttle a user for ever, *)
(* is only left behind by calls that failed: any other call that it counted*)
(* is about to give it one (redis-throttler.storage.ts:45-54).             *)
(***************************************************************************)
EndlessCounterRepaired ==
  counter.hits > 0 /\ counter.expiresAt = NULL =>
    \A r \in counter.hitters : At(r, "done") => req[r].failed

(***************************************************************************)
(* In one window no more calls than the limit are admitted, whichever of   *)
(* them overlap, unless a command of theirs failed                         *)
(* (redis-throttler.storage.ts:28-70).                                     *)
(***************************************************************************)
WindowLimit ==
  \A w \in {counter} \cup {mem[p] : p \in Pods} :
    Cardinality({r \in w.hitters : req[r].result = "admitted" /\ ~req[r].failed}) <= Limit

(***************************************************************************)
(* A pod that answered a logout does not accept the token again, with      *)
(* Redis or, when a command to it fails, with the fallback in its memory   *)
(* (token-denylist.service.ts:12-13, 36; README.md:348).                   *)
(***************************************************************************)
PodRemembersLogout ==
  [][\A r \in Requests : Accepts(r) /\ lost = {} =>
       \A d \in req'[r].owed : req[d].pod # req'[r].pod]_redisVars
=============================================================================
