------------------------ MODULE RedisFallbackProofs ------------------------
(***************************************************************************)
(* A revocation holds where it is kept, for any number of pods and calls,  *)
(* any limits and any faults.                                              *)
(*                                                                         *)
(* The invariant says where: a logout that was answered and did not fail   *)
(* left, at its place, a record that lasts as long as the token; a SETEX   *)
(* that is still to run will, because its time to live was computed no     *)
(* later than it runs.                                                     *)
(***************************************************************************)
EXTENDS RedisFallback, FiniteSetTheorems, TLAPS

\* The logout d was answered, and nothing went wrong with its record.
Recorded(d) ==
  req[d].result = "denied" /\ ~req[d].failed /\ req[d].place \notin lost

Kept ==
  now < TokenExp =>
    \A d \in Requests : Recorded(d) =>
      /\ req[d].place \in Places
      /\ req[d].place = Redis => revoked \in Nat /\ revoked >= TokenExp
      /\ req[d].place # Redis => denied[req[d].place] = TokenExp

InTime == \A r \in Requests : At(r, "setex") => now + req[r].ttl >= TokenExp

AtRedis ==
  \A r \in Requests :
    /\ req[r].pc \in { "setex", "exists" } => req[r].place = Redis
    /\ req[r].pc \notin { "new", "done" } => req[r].pod \in Pods

DeniedDone == \A r \in Requests : req[r].result = "denied" => At(r, "done")

OwedDenied == \A r \in Requests : \A d \in req[r].owed : req[d].result = "denied"

KeptInv == TypeOK /\ Kept /\ InTime /\ AtRedis /\ DeniedDone /\ OwedDenied

----------------------------------------------------------------------------
Others(r) == \A q \in Requests \ {r} : req'[q] = req[q]

LEMMA BecomeOnly ==
  ASSUME TypeOK, NEW r \in Requests, NEW x, Become(r, x)
  PROVE  /\ req'[r] = x
         /\ Others(r)
         /\ x \in CallState => req' \in [Requests -> CallState]
  BY DEF Become, TypeOK, Others

\* The fields of a call that was answered.
LEMMA FinishOnly ==
  ASSUME TypeOK, NEW r \in Requests,
         NEW result \in { "denied", "accepted", "rejected", "admitted", "throttled" },
         Finish(r, result)
  PROVE  /\ req' \in [Requests -> CallState] /\ Others(r)
         /\ req'[r].pc = "done" /\ req'[r].result = result
         /\ req'[r].place = req[r].place /\ req'[r].failed = req[r].failed
         /\ req'[r].owed = req[r].owed
<1> DEFINE x == [req[r] EXCEPT !.pc = "done", !.result = result]
<1>1. req[r] \in CallState  BY DEF TypeOK
<1>2. /\ x \in CallState /\ x.pc = "done" /\ x.result = result
      /\ x.place = req[r].place /\ x.failed = req[r].failed /\ x.owed = req[r].owed
  BY <1>1 DEF CallState
<1>3. Become(r, x)  BY DEF Finish
<1> HIDE DEF x
<1> QED  BY <1>2, <1>3, BecomeOnly

\* A call whose own command failed.
LEMMA FailOnly ==
  ASSUME TypeOK, NEW r \in Requests,
         NEW result \in { "denied", "accepted", "admitted" },
         Become(r, [req[r] EXCEPT !.pc = "done", !.result = result, !.failed = TRUE])
  PROVE  /\ req' \in [Requests -> CallState] /\ Others(r)
         /\ req'[r].pc = "done" /\ req'[r].result = result
         /\ req'[r].failed = TRUE /\ req'[r].owed = req[r].owed
<1> DEFINE x == [req[r] EXCEPT !.pc = "done", !.result = result, !.failed = TRUE]
<1>1. req[r] \in CallState  BY DEF TypeOK
<1>2. /\ x \in CallState /\ x.pc = "done" /\ x.result = result
      /\ x.failed = TRUE /\ x.owed = req[r].owed
  BY <1>1 DEF CallState
<1>3. Become(r, x)  OBVIOUS
<1> HIDE DEF x
<1> QED  BY <1>2, <1>3, BecomeOnly

(***************************************************************************)
(* A step of r that records no logout and takes no record away.            *)
(***************************************************************************)
LEMMA KeptBeside ==
  ASSUME KeptInv, NEW r \in Requests, TypeOK', Others(r),
         UNCHANGED <<revoked, denied, now>>, lost \subseteq lost',
         ~At(r, "done"), req'[r].result # "denied", ~At(r, "setex")',
         At(r, "exists")' => req'[r].place = Redis,
         req'[r].pc \notin { "new", "done" } => req'[r].pod \in Pods,
         \A d \in req'[r].owed : req[d].result = "denied"
  PROVE  KeptInv'
<1>1. \A d \in Requests : Recorded(d)' => Recorded(d) /\ req'[d] = req[d]
  BY DEF Recorded, Others
<1>2. Kept'  BY <1>1 DEF KeptInv, Kept
<1>3. InTime'  BY DEF KeptInv, InTime, Others, At
<1>4. AtRedis'
  <2> SUFFICES ASSUME NEW q \in Requests
               PROVE  /\ req'[q].pc \in { "setex", "exists" } => req'[q].place = Redis
                      /\ req'[q].pc \notin { "new", "done" } => req'[q].pod \in Pods
    BY DEF AtRedis
  <2> QED  BY DEF KeptInv, AtRedis, Others, At
<1>5. DeniedDone'  BY DEF KeptInv, DeniedDone, Others, At
<1>6. OwedDenied'
  <2> SUFFICES ASSUME NEW q \in Requests, NEW d \in req'[q].owed
               PROVE  req'[d].result = "denied"
    BY DEF OwedDenied
  <2>1. req[d].result = "denied"  BY DEF KeptInv, OwedDenied, Others
  <2>2. d \in Requests  BY DEF TypeOK, CallState
  <2>3. d # r  BY <2>1 DEF KeptInv, DeniedDone
  <2> QED  BY <2>1, <2>2, <2>3 DEF Others
<1> QED  BY <1>2, <1>3, <1>4, <1>5, <1>6 DEF KeptInv

----------------------------------------------------------------------------
(***************************************************************************)
(* Windows of the counter.                                                 *)
(***************************************************************************)
LEMMA CountedType ==
  ASSUME NEW w \in Window, NEW r \in Requests
  PROVE  Counted(w, r) \in Window
<1>1. w.hits + 1 \in Nat /\ w.hitters \cup {r} \in SUBSET Requests  BY DEF Window
<1> QED  BY <1>1 DEF Counted, Window

LEMMA CounterNextType ==
  ASSUME TypeOK, NEW r \in Requests
  PROVE  CounterNext(r) \in Window /\ CounterNext(r).hits \in Nat
<1>1. [ hits |-> 1, expiresAt |-> NULL, hitters |-> {r} ] \in Window  BY DEF Window
<1>2. CounterNext(r) \in Window  BY <1>1, CountedType DEF CounterNext, TypeOK
<1> QED  BY <1>2 DEF Window

LEMMA MemIncrementOnly ==
  ASSUME TypeOK, NEW r \in Requests, NEW p \in Pods, MemIncrement(r, p)
  PROVE  /\ mem' \in [Pods -> Window]
         /\ req' \in [Requests -> CallState] /\ Others(r)
         /\ req'[r].pc = "done" /\ req'[r].result \in { "admitted", "throttled" }
         /\ req'[r].owed = req[r].owed
<1> DEFINE open == mem[p].hits > 0 /\ now < mem[p].expiresAt
           w == IF open THEN Counted(mem[p], r)
                ELSE [ hits |-> 1, expiresAt |-> now + Ttl, hitters |-> {r} ]
           x == [req[r] EXCEPT !.pc = "done", !.pod = p, !.place = p,
                   !.failed = At(r, "pexpire"), !.result = Admit(w.hits)]
<1>1. mem' = [mem EXCEPT ![p] = w] /\ Become(r, x)  BY DEF MemIncrement
<1>2. [ hits |-> 1, expiresAt |-> now + Ttl, hitters |-> {r} ] \in Window
  BY RedisBounds DEF TypeOK, Window
<1>3. mem[p] \in Window  BY DEF TypeOK
<1>4. w \in Window
  <2> HIDE DEF open
  <2> QED  BY <1>2, <1>3, CountedType
<1>5. Admit(w.hits) \in { "admitted", "throttled" }
  <2> HIDE DEF w
  <2> QED  BY DEF Admit
<1> HIDE DEF w, open
<1>6. mem' \in [Pods -> Window]  BY <1>1, <1>4 DEF TypeOK
<1>7. At(r, "pexpire") \in BOOLEAN  BY DEF At
<1> DEFINE b == At(r, "pexpire")
           a == Admit(w.hits)
<1>8. req[r] \in CallState  BY DEF TypeOK
<1>9. x \in CallState /\ x.pc = "done" /\ x.result = a /\ x.owed = req[r].owed
  <2> HIDE DEF a, b
  <2>1. p \in Pods \cup {NULL} /\ p \in Places \cup {NULL}  BY DEF Places
  <2>2. b \in BOOLEAN /\ a \in { "admitted", "throttled" }  BY <1>5, <1>7 DEF a, b
  <2> DEFINE y == [req[r] EXCEPT !.pc = "done", !.pod = p, !.place = p,
                     !.failed = b, !.result = a]
  <2>3. y \in CallState /\ y.pc = "done" /\ y.result = a /\ y.owed = req[r].owed
    BY <1>8, <2>1, <2>2 DEF CallState
  <2>4. y = x  BY DEF a, b
  <2> QED  BY <2>3, <2>4
<1> HIDE DEF x
<1>10. req'[r] = x /\ Others(r) /\ req' \in [Requests -> CallState]
  BY <1>1, <1>9, BecomeOnly
<1> QED  BY <1>5, <1>6, <1>9, <1>10

(***************************************************************************)
(* The throttler leaves the denylist alone.                                *)
(***************************************************************************)
LEMMA KeptHit ==
  ASSUME KeptInv, NEW r \in Requests, NEW p \in Pods, Hit(r, p)
  PROVE  KeptInv'
<1>1. CASE available[p] /\ Send(r, "incr", p) /\ UNCHANGED mem
  <2> DEFINE x == [req[r] EXCEPT !.pc = "incr", !.pod = p, !.place = Redis]
  <2>1. req[r] \in CallState /\ p \in Pods \cup {NULL} /\ Redis \in Places \cup {NULL}
    BY DEF KeptInv, TypeOK, Places
  <2>2. /\ x \in CallState /\ x.pc = "incr" /\ x.result = req[r].result
        /\ x.owed = req[r].owed /\ x.pod = p
    BY <2>1 DEF CallState
  <2>3. Become(r, x)  BY <1>1 DEF Send
  <2> HIDE DEF x
  <2>4. req'[r] = x /\ Others(r) /\ req' \in [Requests -> CallState]
    BY <2>2, <2>3, BecomeOnly DEF KeptInv
  <2>5. TypeOK'  BY <1>1, <2>4 DEF Hit, NoFault, denylist, KeptInv, TypeOK
  <2>6. req[r].result # "denied"  BY DEF Hit, KeptInv, DeniedDone, At
  <2> QED
    BY <2>2, <2>4, <2>5, <2>6, KeptBeside
    DEF Hit, NoFault, denylist, At, KeptInv, OwedDenied
<1>2. CASE MemIncrement(r, p)
  <2>1. TypeOK'
    BY <1>2, MemIncrementOnly DEF Hit, NoFault, denylist, KeptInv, TypeOK
  <2> QED
    BY <1>2, <2>1, MemIncrementOnly, KeptBeside
    DEF Hit, NoFault, denylist, At, KeptInv, OwedDenied
<1> QED  BY <1>1, <1>2 DEF Hit

LEMMA KeptIncr ==
  ASSUME KeptInv, NEW r \in Requests, HitIncr(r)
  PROVE  KeptInv'
<1> DEFINE n == CounterNext(r).hits
<1>0. counter \in Window /\ CounterNext(r) \in Window /\ n \in Nat
  BY CounterNextType DEF KeptInv, TypeOK
<1>1. CASE /\ counter' = CounterNext(r)
           /\ Become(r, [req[r] EXCEPT !.pc = "pttl", !.hits = CounterNext(r).hits])
           /\ NoFault
  <2> DEFINE x == [req[r] EXCEPT !.pc = "pttl", !.hits = n]
  <2>1. req[r] \in CallState  BY DEF KeptInv, TypeOK
  <2>2. Become(r, x)  BY <1>1
  <2>3. /\ x \in CallState /\ x.pc = "pttl" /\ x.result = req[r].result
        /\ x.owed = req[r].owed /\ x.pod = req[r].pod
    <3> HIDE DEF n
    <3> QED  BY <1>0, <2>1 DEF CallState
  <2> HIDE DEF x, n
  <2>4. req'[r] = x /\ Others(r) /\ req' \in [Requests -> CallState]
    BY <2>2, <2>3, BecomeOnly DEF KeptInv
  <2>5. TypeOK'  BY <1>0, <1>1, <2>4 DEF HitIncr, NoFault, denylist, KeptInv, TypeOK
  <2>6. req[r].result # "denied" /\ req[r].pod \in Pods
    BY DEF HitIncr, KeptInv, DeniedDone, AtRedis, At
  <2> QED
    BY <1>1, <2>3, <2>4, <2>5, <2>6, KeptBeside
    DEF HitIncr, NoFault, denylist, At, KeptInv, OwedDenied
<1>2. CASE /\ counter' \in { counter, CounterNext(r) }
           /\ Become(r, [req[r] EXCEPT !.pc = "done", !.result = "admitted", !.failed = TRUE])
           /\ Fault /\ UNCHANGED lost
  <2> HIDE DEF n
  <2>1. /\ req' \in [Requests -> CallState] /\ Others(r)
        /\ req'[r].pc = "done" /\ req'[r].result = "admitted"
        /\ req'[r].owed = req[r].owed
    BY <1>2, FailOnly DEF KeptInv
  <2>2. counter' \in Window  BY <1>0, <1>2
  <2>3. TypeOK'
    BY <1>2, <2>1, <2>2 DEF HitIncr, Fault, denylist, KeptInv, TypeOK
  <2> QED
    BY <1>2, <2>1, <2>3, KeptBeside DEF HitIncr, denylist, At, KeptInv, OwedDenied
<1> QED  BY <1>1, <1>2 DEF HitIncr

LEMMA KeptPttl ==
  ASSUME KeptInv, NEW r \in Requests, HitPttl(r)
  PROVE  KeptInv'
<1>0. req[r] \in CallState /\ req[r].result # "denied" /\ req[r].pod \in Pods
  BY DEF KeptInv, TypeOK, HitPttl, DeniedDone, AtRedis, At
<1>1. Admit(req[r].hits) \in { "admitted", "throttled" }  BY DEF Admit
<1>2. CASE Become(r, [req[r] EXCEPT !.pc = "pexpire"]) /\ NoFault
  <2> DEFINE x == [req[r] EXCEPT !.pc = "pexpire"]
  <2>1. /\ x \in CallState /\ x.pc = "pexpire" /\ x.result = req[r].result
        /\ x.owed = req[r].owed /\ x.pod = req[r].pod
    BY <1>0 DEF CallState
  <2>2. Become(r, x)  BY <1>2
  <2> HIDE DEF x
  <2>3. req'[r] = x /\ Others(r) /\ req' \in [Requests -> CallState]
    BY <2>1, <2>2, BecomeOnly DEF KeptInv
  <2>4. TypeOK'  BY <1>2, <2>3 DEF HitPttl, NoFault, denylist, throttler, KeptInv, TypeOK
  <2> QED
    BY <1>0, <1>2, <2>1, <2>3, <2>4, KeptBeside
    DEF HitPttl, NoFault, denylist, At, KeptInv, OwedDenied
<1>3. CASE Finish(r, Admit(req[r].hits)) /\ NoFault
  <2>1. /\ req' \in [Requests -> CallState] /\ Others(r)
        /\ req'[r].pc = "done" /\ req'[r].result # "denied"
        /\ req'[r].owed = req[r].owed
    BY <1>1, <1>3, FinishOnly DEF KeptInv
  <2>2. TypeOK'  BY <1>3, <2>1 DEF HitPttl, NoFault, denylist, throttler, KeptInv, TypeOK
  <2> QED
    BY <1>3, <2>1, <2>2, KeptBeside
    DEF HitPttl, NoFault, denylist, At, KeptInv, OwedDenied
<1>4. CASE /\ Become(r, [req[r] EXCEPT !.failed = TRUE,
                !.pc = IF req[r].hits = 1 THEN "pexpire" ELSE "done",
                !.result = IF req[r].hits = 1 THEN "none" ELSE Admit(req[r].hits)])
           /\ Fault /\ UNCHANGED lost
  <2> DEFINE pc == IF req[r].hits = 1 THEN "pexpire" ELSE "done"
             result == IF req[r].hits = 1 THEN "none" ELSE Admit(req[r].hits)
             x == [req[r] EXCEPT !.failed = TRUE, !.pc = pc, !.result = result]
  <2>1. pc \in { "pexpire", "done" } /\ result \in { "none", "admitted", "throttled" }
    BY <1>1
  <2>2. Become(r, x)  BY <1>4
  <2> HIDE DEF pc, result
  <2>3. /\ x \in CallState /\ x.pc = pc /\ x.result = result
        /\ x.owed = req[r].owed /\ x.pod = req[r].pod
    BY <1>0, <2>1 DEF CallState
  <2> HIDE DEF x
  <2>4. req'[r] = x /\ Others(r) /\ req' \in [Requests -> CallState]
    BY <2>2, <2>3, BecomeOnly DEF KeptInv
  <2>5. TypeOK'
    BY <1>4, <2>4 DEF HitPttl, Fault, denylist, throttler, KeptInv, TypeOK
  <2> QED
    BY <1>0, <1>4, <2>1, <2>3, <2>4, <2>5, KeptBeside
    DEF HitPttl, denylist, At, KeptInv, OwedDenied
<1> QED  BY <1>2, <1>3, <1>4 DEF HitPttl

LEMMA KeptPexpire ==
  ASSUME KeptInv, NEW r \in Requests, HitPexpire(r)
  PROVE  KeptInv'
<1> DEFINE expiring ==
      IF CounterOpen THEN [counter EXCEPT !.expiresAt = now + Ttl] ELSE counter
<1>1. counter \in Window /\ expiring \in Window
  BY RedisBounds DEF KeptInv, TypeOK, Window
<1>2. CASE /\ counter' = expiring
           /\ Finish(r, Admit(req[r].hits))
           /\ NoFault /\ UNCHANGED mem
  <2> HIDE DEF expiring
  <2>1. Admit(req[r].hits) \in { "admitted", "throttled" }  BY DEF Admit
  <2>2. /\ req' \in [Requests -> CallState] /\ Others(r)
        /\ req'[r].pc = "done" /\ req'[r].result # "denied"
        /\ req'[r].owed = req[r].owed
    BY <1>2, <2>1, FinishOnly DEF KeptInv
  <2>3. TypeOK'  BY <1>1, <1>2, <2>2 DEF HitPexpire, NoFault, denylist, KeptInv, TypeOK
  <2> QED
    BY <1>2, <2>2, <2>3, KeptBeside
    DEF HitPexpire, NoFault, denylist, At, KeptInv, OwedDenied
<1>3. CASE /\ counter' \in { counter, expiring }
           /\ MemIncrement(r, req[r].pod)
           /\ Fault /\ UNCHANGED lost
  <2> HIDE DEF expiring
  <2>1. CASE req[r].pod \in Pods
    <3>1. /\ mem' \in [Pods -> Window]
          /\ req' \in [Requests -> CallState] /\ Others(r)
          /\ req'[r].pc = "done" /\ req'[r].result # "denied"
          /\ req'[r].owed = req[r].owed
      BY <1>3, <2>1, MemIncrementOnly DEF KeptInv
    <3>2. counter' \in Window  BY <1>1, <1>3
    <3>3. TypeOK'
      BY <1>3, <3>1, <3>2 DEF HitPexpire, Fault, denylist, KeptInv, TypeOK
    <3> QED
      BY <1>3, <3>1, <3>3, KeptBeside DEF HitPexpire, denylist, At, KeptInv, OwedDenied
  <2>2. req[r].pod \in Pods  BY DEF HitPexpire, KeptInv, AtRedis, At
  <2> QED  BY <2>1, <2>2
<1> QED  BY <1>2, <1>3 DEF HitPexpire

----------------------------------------------------------------------------
(***************************************************************************)
(* The denylist.                                                           *)
(***************************************************************************)
LEMMA OwedKept ==
  ASSUME KeptInv, NEW r \in Requests, Others(r), ~At(r, "done"),
         req'[r].owed = req[r].owed
  PROVE  OwedDenied'
<1> SUFFICES ASSUME NEW q \in Requests, NEW d \in req'[q].owed
             PROVE  req'[d].result = "denied"
  BY DEF OwedDenied
<1>1. req[d].result = "denied" /\ d \in Requests
  BY DEF KeptInv, OwedDenied, Others, TypeOK, CallState
<1>2. d # r  BY <1>1 DEF KeptInv, DeniedDone
<1> QED  BY <1>1, <1>2 DEF Others

\* The call r is answered "denied": what is left to show is its record.
LEMMA KeptAnswered ==
  ASSUME KeptInv, NEW r \in Requests, TypeOK', Others(r), UNCHANGED <<now, lost>>,
         ~At(r, "done"), req'[r].pc = "done", req'[r].owed = req[r].owed, Kept'
  PROVE  KeptInv'
<1>1. InTime'  BY DEF KeptInv, InTime, Others, At
<1>2. AtRedis'
  <2> SUFFICES ASSUME NEW q \in Requests
               PROVE  /\ req'[q].pc \in { "setex", "exists" } => req'[q].place = Redis
                      /\ req'[q].pc \notin { "new", "done" } => req'[q].pod \in Pods
    BY DEF AtRedis
  <2> QED  BY DEF KeptInv, AtRedis, Others, At
<1>3. DeniedDone'  BY DEF KeptInv, DeniedDone, Others, At
<1> QED  BY <1>1, <1>2, <1>3, OwedKept DEF KeptInv

LEMMA KeptDeny ==
  ASSUME KeptInv, NEW r \in Requests, NEW p \in Pods, Deny(r, p)
  PROVE  KeptInv'
<1>0. req[r] \in CallState /\ ~At(r, "done") /\ req[r].result # "denied" /\ now \in Nat
  BY DEF KeptInv, TypeOK, Deny, DeniedDone, At
<1>1. CASE now >= TokenExp /\ Finish(r, "denied") /\ UNCHANGED denied
  <2>1. /\ req' \in [Requests -> CallState] /\ Others(r)
        /\ req'[r].pc = "done" /\ req'[r].owed = req[r].owed
    BY <1>1, FinishOnly DEF KeptInv
  <2>2. TypeOK'  BY <1>1, <2>1 DEF Deny, NoFault, throttler, KeptInv, TypeOK
  <2>3. Kept'  BY <1>0, <1>1, RedisBounds DEF Deny, Kept
  <2> QED  BY <1>0, <2>1, <2>2, <2>3, KeptAnswered DEF Deny, NoFault
<1>2. CASE /\ now < TokenExp /\ available[p]
           /\ Become(r, [req[r] EXCEPT !.pc = "setex", !.pod = p, !.place = Redis,
                                       !.ttl = TokenExp - now])
           /\ UNCHANGED denied
  <2> DEFINE t == TokenExp - now
             x == [req[r] EXCEPT !.pc = "setex", !.pod = p, !.place = Redis, !.ttl = t]
  <2>1. t \in Nat /\ now + t = TokenExp  BY <1>0, <1>2, RedisBounds
  <2>2. Become(r, x)  BY <1>2
  <2> HIDE DEF t
  <2>3. p \in Pods \cup {NULL} /\ Redis \in Places \cup {NULL}  BY DEF Places
  <2>4. /\ x \in CallState /\ x.pc = "setex" /\ x.result = req[r].result
        /\ x.owed = req[r].owed /\ x.pod = p /\ x.place = Redis /\ x.ttl = t
    BY <1>0, <2>1, <2>3 DEF CallState
  <2> HIDE DEF x
  <2>5. req'[r] = x /\ Others(r) /\ req' \in [Requests -> CallState]
    BY <2>2, <2>4, BecomeOnly DEF KeptInv
  <2>6. TypeOK'  BY <1>2, <2>5 DEF Deny, NoFault, throttler, KeptInv, TypeOK
  <2>7. Kept'
    <3>1. \A d \in Requests : Recorded(d)' => Recorded(d) /\ req'[d] = req[d]
      BY <1>0, <2>4, <2>5 DEF Recorded, Others, Deny, NoFault
    <3> QED  BY <1>2, <3>1 DEF Deny, KeptInv, Kept
  <2>8. InTime'
    BY <2>1, <2>4, <2>5, RedisBounds DEF Deny, KeptInv, InTime, Others, At
  <2>9. AtRedis'
    <3> SUFFICES ASSUME NEW q \in Requests
                 PROVE  /\ req'[q].pc \in { "setex", "exists" } => req'[q].place = Redis
                        /\ req'[q].pc \notin { "new", "done" } => req'[q].pod \in Pods
      BY DEF AtRedis
    <3> QED  BY <2>4, <2>5 DEF KeptInv, AtRedis, Others
  <2>10. DeniedDone'  BY <1>0, <2>4, <2>5 DEF KeptInv, DeniedDone, Others, At
  <2>11. OwedDenied'  BY <1>0, <2>4, <2>5, OwedKept
  <2> QED  BY <2>6, <2>7, <2>8, <2>9, <2>10, <2>11 DEF KeptInv
<1>3. CASE /\ now < TokenExp /\ ~available[p]
           /\ denied' = [denied EXCEPT ![p] = TokenExp]
           /\ FinishInMemory(r, "denied", p)
  <2> DEFINE x == [req[r] EXCEPT !.pc = "done", !.result = "denied", !.pod = p, !.place = p]
  <2>1. Become(r, x)  BY <1>3 DEF FinishInMemory
  <2>2. p \in Pods \cup {NULL} /\ p \in Places \cup {NULL}  BY DEF Places
  <2>3. /\ x \in CallState /\ x.pc = "done" /\ x.owed = req[r].owed /\ x.place = p
    BY <1>0, <2>2 DEF CallState
  <2> HIDE DEF x
  <2>4. req'[r] = x /\ Others(r) /\ req' \in [Requests -> CallState]
    BY <2>1, <2>3, BecomeOnly DEF KeptInv
  <2>5. denied \in [Pods -> Nat \cup {NULL}]  BY DEF KeptInv, TypeOK
  <2>6. denied' \in [Pods -> Nat \cup {NULL}]  BY <1>3, <2>5, RedisBounds
  <2>7. TypeOK'  BY <2>4, <2>6 DEF Deny, NoFault, throttler, KeptInv, TypeOK
  <2>8. Kept'
    <3> SUFFICES ASSUME NEW d \in Requests, Recorded(d)'
                 PROVE  /\ req'[d].place \in Places
                        /\ req'[d].place = Redis => revoked' \in Nat /\ revoked' >= TokenExp
                        /\ req'[d].place # Redis => denied'[req'[d].place] = TokenExp
      BY DEF Kept
    <3>1. CASE d = r
      BY <1>3, <2>3, <2>4, <2>5, <3>1, PlacesDiffer DEF Places
    <3>2. CASE d # r
      <4>1. Recorded(d) /\ req'[d] = req[d] /\ revoked' = revoked
        BY <2>4, <3>2 DEF Recorded, Others, Deny, NoFault
      <4>2. /\ req[d].place \in Places
            /\ req[d].place = Redis => revoked \in Nat /\ revoked >= TokenExp
            /\ req[d].place # Redis => denied[req[d].place] = TokenExp
        BY <1>3, <4>1 DEF KeptInv, Kept
      <4>3. req[d].place # Redis => denied'[req[d].place] = TokenExp
        BY <1>3, <2>5, <4>2 DEF Places
      <4> QED  BY <4>1, <4>2, <4>3
    <3> QED  BY <3>1, <3>2
  <2> QED  BY <1>0, <2>3, <2>4, <2>7, <2>8, KeptAnswered DEF Deny, NoFault
<1> QED  BY <1>1, <1>2, <1>3 DEF Deny

LEMMA KeptDenyStored ==
  ASSUME KeptInv, NEW r \in Requests, DenyStored(r)
  PROVE  KeptInv'
<1> DEFINE until == now + req[r].ttl
<1>0. /\ req[r] \in CallState /\ ~At(r, "done") /\ req[r].result # "denied"
      /\ now \in Nat /\ req[r].place = Redis
  BY DEF KeptInv, TypeOK, DenyStored, DeniedDone, AtRedis, At
<1>1. until \in Nat /\ until >= TokenExp
  BY <1>0 DEF KeptInv, DenyStored, InTime, CallState
<1>2. ASSUME revoked' \in { revoked, until }, Others(r), lost' = lost, now' = now,
             denied' = denied,
             req'[r].result = "denied" /\ ~req'[r].failed =>
               req'[r].place = Redis /\ revoked' = until
      PROVE  Kept'
  <2> HIDE DEF until
  <2> SUFFICES ASSUME NEW d \in Requests, Recorded(d)', now < TokenExp
               PROVE  /\ req'[d].place \in Places
                      /\ req'[d].place = Redis => revoked' \in Nat /\ revoked' >= TokenExp
                      /\ req'[d].place # Redis => denied'[req'[d].place] = TokenExp
    BY <1>2 DEF Kept
  <2>1. CASE d = r
    BY <1>1, <1>2, <2>1 DEF Recorded, Places
  <2>2. CASE d # r
    <3>1. Recorded(d) /\ req'[d] = req[d]  BY <1>2, <2>2 DEF Recorded, Others
    <3> QED  BY <1>1, <1>2, <3>1 DEF KeptInv, Kept
  <2> QED  BY <2>1, <2>2
<1>3. CASE revoked' = until /\ NoFault /\ UNCHANGED available /\ Finish(r, "denied")
  <2> HIDE DEF until
  <2>1. /\ req' \in [Requests -> CallState] /\ Others(r)
        /\ req'[r].pc = "done" /\ req'[r].owed = req[r].owed
        /\ req'[r].place = req[r].place
    BY <1>3, FinishOnly DEF KeptInv
  <2>2. TypeOK'  BY <1>1, <1>3, <2>1 DEF DenyStored, NoFault, throttler, KeptInv, TypeOK
  <2>3. Kept'  BY <1>0, <1>2, <1>3, <2>1 DEF DenyStored, NoFault
  <2> QED  BY <1>0, <1>3, <2>1, <2>2, <2>3, KeptAnswered DEF DenyStored, NoFault
<1>4. CASE /\ revoked' \in { revoked, until } /\ Fault /\ UNCHANGED lost
           /\ Degrade(r)
           /\ Become(r, [req[r] EXCEPT !.pc = "done", !.result = "denied", !.failed = TRUE])
  <2> HIDE DEF until
  <2>1. /\ req' \in [Requests -> CallState] /\ Others(r)
        /\ req'[r].pc = "done" /\ req'[r].failed = TRUE
        /\ req'[r].owed = req[r].owed
    BY <1>4, FailOnly DEF KeptInv
  <2>2. TypeOK'
    <3>1. available' \in [Pods -> BOOLEAN]  BY <1>4 DEF Degrade, KeptInv, TypeOK
    <3>2. revoked' \in Nat \cup {NULL}  BY <1>1, <1>4 DEF KeptInv, TypeOK
    <3>3. faults' \in Nat  BY <1>4 DEF Fault, KeptInv, TypeOK
    <3> QED
      BY <1>4, <2>1, <3>1, <3>2, <3>3 DEF DenyStored, throttler, KeptInv, TypeOK
  <2>3. Kept'  BY <1>2, <1>4, <2>1 DEF DenyStored
  <2> QED  BY <1>0, <1>4, <2>1, <2>2, <2>3, KeptAnswered DEF DenyStored
<1> QED  BY <1>3, <1>4 DEF DenyStored

LEMMA KeptCheck ==
  ASSUME KeptInv, NEW r \in Requests, NEW p \in Pods, Check(r, p)
  PROVE  KeptInv'
<1>0. req[r] \in CallState /\ ~At(r, "done")
  BY DEF KeptInv, TypeOK, Check, At
<1>1. Answered \in SUBSET Requests /\ \A d \in Answered : req[d].result = "denied"
  BY DEF Answered
<1>2. p \in Pods \cup {NULL} /\ p \in Places \cup {NULL} /\ Redis \in Places \cup {NULL}
  BY DEF Places
<1>3. CASE Become(r, [req[r] EXCEPT !.pc = "exists", !.pod = p, !.place = Redis,
                                    !.owed = Answered])
  <2> DEFINE x == [req[r] EXCEPT !.pc = "exists", !.pod = p, !.place = Redis,
                                 !.owed = Answered]
  <2>1. /\ x \in CallState /\ x.pc = "exists" /\ x.result = req[r].result
        /\ x.owed = Answered /\ x.pod = p /\ x.place = Redis
    BY <1>0, <1>1, <1>2 DEF CallState
  <2>2. Become(r, x)  BY <1>3
  <2> HIDE DEF x
  <2>3. req'[r] = x /\ Others(r) /\ req' \in [Requests -> CallState]
    BY <2>1, <2>2, BecomeOnly DEF KeptInv
  <2>4. TypeOK'  BY <2>3 DEF Check, NoFault, denylist, throttler, KeptInv, TypeOK
  <2>5. req[r].result # "denied"  BY <1>0 DEF KeptInv, DeniedDone
  <2> QED
    BY <1>0, <1>1, <2>1, <2>3, <2>4, <2>5, KeptBeside DEF Check, NoFault, denylist, At
<1>4. ASSUME NEW result \in { "accepted", "rejected" },
             Become(r, [req[r] EXCEPT !.pc = "done", !.pod = p, !.place = p,
                                      !.owed = Answered, !.result = result])
      PROVE  KeptInv'
  <2> DEFINE x == [req[r] EXCEPT !.pc = "done", !.pod = p, !.place = p,
                                 !.owed = Answered, !.result = result]
  <2>1. /\ x \in CallState /\ x.pc = "done" /\ x.result = result /\ x.owed = Answered
    BY <1>0, <1>1, <1>2 DEF CallState
  <2>2. Become(r, x)  BY <1>4
  <2> HIDE DEF x
  <2>3. req'[r] = x /\ Others(r) /\ req' \in [Requests -> CallState]
    BY <2>1, <2>2, BecomeOnly DEF KeptInv
  <2>4. TypeOK'  BY <2>3 DEF Check, NoFault, denylist, throttler, KeptInv, TypeOK
  <2> QED
    BY <1>0, <1>1, <2>1, <2>3, <2>4, KeptBeside DEF Check, NoFault, denylist, At
<1>5. CASE ~available[p]
  <2> DEFINE rejects == denied[p] # NULL /\ now <= denied[p]
             result == IF rejects THEN "rejected" ELSE "accepted"
  <2>1. Become(r, [req[r] EXCEPT !.pc = "done", !.pod = p, !.place = p,
                                 !.owed = Answered, !.result = result])
    BY <1>5 DEF Check
  <2>2. result \in { "accepted", "rejected" }  OBVIOUS
  <2> HIDE DEF result
  <2> QED  BY <1>4, <2>1, <2>2
<1> QED  BY <1>3, <1>5 DEF Check

LEMMA KeptCheckAnswered ==
  ASSUME KeptInv, NEW r \in Requests, CheckAnswered(r)
  PROVE  KeptInv'
<1>0. ~At(r, "done")  BY DEF CheckAnswered, At
<1>1. ASSUME NEW result \in { "accepted", "rejected" }, Finish(r, result),
             NoFault, UNCHANGED available
      PROVE  KeptInv'
  <2>1. /\ req' \in [Requests -> CallState] /\ Others(r)
        /\ req'[r].pc = "done" /\ req'[r].result = result
        /\ req'[r].owed = req[r].owed
    BY <1>1, FinishOnly DEF KeptInv
  <2>2. TypeOK'
    BY <1>1, <2>1 DEF CheckAnswered, NoFault, denylist, throttler, KeptInv, TypeOK
  <2> QED
    BY <1>0, <1>1, <2>1, <2>2, KeptBeside
    DEF CheckAnswered, NoFault, denylist, At, KeptInv, OwedDenied
<1>2. CASE /\ Finish(r, IF revoked # NULL /\ now < revoked THEN "rejected" ELSE "accepted")
           /\ NoFault /\ UNCHANGED available
  <2> DEFINE rejects == revoked # NULL /\ now < revoked
             result == IF rejects THEN "rejected" ELSE "accepted"
  <2>1. result \in { "accepted", "rejected" } /\ Finish(r, result)  BY <1>2
  <2> HIDE DEF result
  <2> QED  BY <1>1, <1>2, <2>1
<1>3. CASE /\ Become(r, [req[r] EXCEPT !.pc = "done", !.result = "accepted", !.failed = TRUE])
           /\ Degrade(r) /\ Fault /\ UNCHANGED lost
  <2>1. /\ req' \in [Requests -> CallState] /\ Others(r)
        /\ req'[r].pc = "done" /\ req'[r].result = "accepted"
        /\ req'[r].owed = req[r].owed
    BY <1>3, FailOnly DEF KeptInv
  <2>2. available' \in [Pods -> BOOLEAN]  BY <1>3 DEF Degrade, KeptInv, TypeOK
  <2>3. faults' \in Nat  BY <1>3 DEF Fault, KeptInv, TypeOK
  <2>4. TypeOK'
    BY <1>3, <2>1, <2>2, <2>3 DEF CheckAnswered, denylist, throttler, KeptInv, TypeOK
  <2> QED
    BY <1>0, <1>3, <2>1, <2>4, KeptBeside
    DEF CheckAnswered, denylist, At, KeptInv, OwedDenied
<1> QED  BY <1>2, <1>3 DEF CheckAnswered

----------------------------------------------------------------------------
(***************************************************************************)
(* Time and faults.                                                        *)
(***************************************************************************)

\* A step that leaves the calls alone.
LEMMA KeptAround ==
  ASSUME KeptInv, TypeOK', UNCHANGED <<req, now>>, Kept'
  PROVE  KeptInv'
  BY DEF KeptInv, InTime, AtRedis, DeniedDone, OwedDenied, At

LEMMA KeptPurge ==
  ASSUME KeptInv, NEW p \in Pods, Purge(p)
  PROVE  KeptInv'
<1>1. denied \in [Pods -> Nat \cup {NULL}]  BY DEF KeptInv, TypeOK
<1>2. denied' \in [Pods -> Nat \cup {NULL}]  BY <1>1 DEF Purge
<1>3. TypeOK'  BY <1>2 DEF Purge, NoFault, throttler, KeptInv, TypeOK
<1>4. Kept'
  <2> SUFFICES ASSUME NEW d \in Requests, Recorded(d)', now < TokenExp
               PROVE  /\ req[d].place \in Places
                      /\ req[d].place = Redis => revoked \in Nat /\ revoked >= TokenExp
                      /\ req[d].place # Redis => denied'[req[d].place] = TokenExp
    BY DEF Kept, Purge
  <2>1. Recorded(d)  BY DEF Recorded, Purge, NoFault
  <2>2. /\ req[d].place \in Places
        /\ req[d].place = Redis => revoked \in Nat /\ revoked >= TokenExp
        /\ req[d].place # Redis => denied[req[d].place] = TokenExp
    BY <2>1 DEF KeptInv, Kept
  <2>3. now \in Nat /\ TokenExp \in Nat  BY RedisBounds DEF KeptInv, TypeOK
  <2>4. denied[p] # TokenExp
    <3> SUFFICES ASSUME denied[p] = TokenExp PROVE FALSE  OBVIOUS
    <3> QED  BY <2>3 DEF Purge
  <2>5. req[d].place # Redis => denied'[req[d].place] = TokenExp
    BY <1>1, <2>2, <2>4 DEF Purge, Places
  <2> QED  BY <2>2, <2>5
<1> QED  BY <1>3, <1>4, KeptAround DEF Purge

LEMMA KeptConnection ==
  ASSUME KeptInv, NEW p \in Pods, Connection(p)
  PROVE  KeptInv'
<1>1. available' \in [Pods -> BOOLEAN]  BY DEF Connection, KeptInv, TypeOK
<1>2. faults' \in Nat  BY DEF Connection, Fault, KeptInv, TypeOK
<1>3. TypeOK'  BY <1>1, <1>2 DEF Connection, denylist, throttler, KeptInv, TypeOK
<1>4. Kept'  BY DEF Connection, denylist, KeptInv, Kept, Recorded
<1> QED  BY <1>3, <1>4, KeptAround DEF Connection

LEMMA KeptRedisLoses ==
  ASSUME KeptInv, RedisLoses
  PROVE  KeptInv'
<1>1. NoWindow \in Window  BY DEF NoWindow, Window
<1>2. revoked' \in Nat \cup {NULL} /\ counter' \in Window
  BY <1>1 DEF RedisLoses, KeptInv, TypeOK
<1>3. lost' \subseteq Places /\ faults' \in Nat
  BY DEF RedisLoses, Fault, KeptInv, TypeOK, Places
<1>4. TypeOK'  BY <1>2, <1>3 DEF RedisLoses, KeptInv, TypeOK
<1>5. Kept'
  <2>1. \A d \in Requests : Recorded(d)' => Recorded(d) /\ req[d].place # Redis
    BY DEF RedisLoses, Recorded
  <2> QED  BY <2>1 DEF RedisLoses, KeptInv, Kept
<1> QED  BY <1>4, <1>5, KeptAround DEF RedisLoses

LEMMA KeptPodRestarts ==
  ASSUME KeptInv, NEW p \in Pods, PodRestarts(p)
  PROVE  KeptInv'
<1> DEFINE x(r) == IF req[r].pod = p /\ ~At(r, "done")
                   THEN [req[r] EXCEPT !.pc = "done", !.result = "crashed", !.failed = TRUE]
                   ELSE req[r]
<1>1. \A r \in Requests : req[r] \in CallState  BY DEF KeptInv, TypeOK
<1>2. ASSUME NEW r \in Requests
      PROVE  /\ req'[r] \in CallState /\ req'[r].owed = req[r].owed
             /\ \/ req'[r] = req[r]
                \/ /\ ~At(r, "done") /\ req'[r].pc = "done"
                   /\ req'[r].result = "crashed"
  <2>0. req[r] \in CallState  BY <1>1
  <2>1. req'[r] = x(r)  BY DEF PodRestarts
  <2>2. CASE req[r].pod = p /\ ~At(r, "done")
    <3> DEFINE y == [req[r] EXCEPT !.pc = "done", !.result = "crashed", !.failed = TRUE]
    <3>1. req'[r] = y  BY <2>1, <2>2
    <3>2. y \in CallState /\ y.pc = "done" /\ y.result = "crashed" /\ y.owed = req[r].owed
      BY <2>0 DEF CallState
    <3> HIDE DEF y
    <3> QED  BY <2>2, <3>1, <3>2
  <2>3. CASE ~(req[r].pod = p /\ ~At(r, "done"))
    <3>1. req'[r] = req[r]  BY <2>1, <2>3
    <3> QED  BY <1>1, <3>1
  <2> QED  BY <2>2, <2>3
<1> HIDE DEF x
<1>3. \A d \in Requests : req[d].result = "denied" => req'[d] = req[d]
  BY <1>2 DEF KeptInv, DeniedDone
<1>4. TypeOK'
  <2>1. req' \in [Requests -> CallState]
    <3>1. req' = [r \in Requests |-> req'[r]]  BY DEF PodRestarts
    <3> QED  BY <1>2, <3>1
  <2>2. NoWindow \in Window  BY DEF NoWindow, Window
  <2>3. denied' \in [Pods -> Nat \cup {NULL}]  BY DEF PodRestarts, KeptInv, TypeOK
  <2>4. mem' \in [Pods -> Window]  BY <2>2 DEF PodRestarts, KeptInv, TypeOK
  <2>5. available' \in [Pods -> BOOLEAN]
    <3>1. available \in [Pods -> BOOLEAN]  BY DEF KeptInv, TypeOK
    <3>2. [available EXCEPT ![p] = ~@] \in [Pods -> BOOLEAN]  BY <3>1
    <3> QED  BY <3>1, <3>2 DEF PodRestarts
  <2>6. lost' \subseteq Places /\ faults' \in Nat
    <3>1. lost' = lost \cup {p} /\ faults' = faults + 1  BY Zenon DEF PodRestarts, Fault
    <3>2. lost \subseteq Places /\ faults \in Nat  BY DEF KeptInv, TypeOK
    <3> QED  BY <3>1, <3>2 DEF Places
  <2> QED
    BY <2>1, <2>3, <2>4, <2>5, <2>6 DEF PodRestarts, KeptInv, TypeOK
<1>5. Kept'
  <2> SUFFICES ASSUME NEW d \in Requests, Recorded(d)', now < TokenExp
               PROVE  /\ req'[d].place \in Places
                      /\ req'[d].place = Redis => revoked \in Nat /\ revoked >= TokenExp
                      /\ req'[d].place # Redis => denied'[req'[d].place] = TokenExp
    BY DEF Kept, PodRestarts
  <2>1. req'[d] = req[d]  BY <1>2 DEF Recorded
  <2>2. Recorded(d) /\ req[d].place # p
    <3>1. lost' = lost \cup {p}  BY Zenon DEF PodRestarts
    <3> QED  BY <2>1, <3>1 DEF Recorded
  <2>3. /\ req[d].place \in Places
        /\ req[d].place = Redis => revoked \in Nat /\ revoked >= TokenExp
        /\ req[d].place # Redis => denied[req[d].place] = TokenExp
    BY <2>2 DEF KeptInv, Kept
  <2>4. req[d].place # Redis => denied'[req[d].place] = TokenExp
    BY <2>2, <2>3 DEF PodRestarts, KeptInv, TypeOK, Places
  <2> QED  BY <2>1, <2>3, <2>4
<1>6. InTime'
  <2>1. \A r \in Requests : At(r, "setex")' => req'[r] = req[r]  BY <1>2 DEF At
  <2> QED  BY <2>1 DEF PodRestarts, KeptInv, InTime, At
<1>7. AtRedis'
  <2>1. \A r \in Requests : req'[r].pc # "done" => req'[r] = req[r]  BY <1>2
  <2> QED  BY <2>1 DEF KeptInv, AtRedis
<1>8. DeniedDone'  BY <1>2 DEF KeptInv, DeniedDone, At
<1>9. OwedDenied'
  <2> SUFFICES ASSUME NEW q \in Requests, NEW d \in req'[q].owed
               PROVE  req'[d].result = "denied"
    BY DEF OwedDenied
  <2>1. d \in Requests /\ req[d].result = "denied"
    BY <1>1, <1>2 DEF KeptInv, OwedDenied, CallState
  <2> QED  BY <1>3, <2>1
<1> QED  BY <1>4, <1>5, <1>6, <1>7, <1>8, <1>9 DEF KeptInv

LEMMA KeptTick ==
  ASSUME KeptInv, Tick
  PROVE  KeptInv'
<1>1. now \in Nat /\ now' = now + 1 /\ TokenExp \in Nat
  BY RedisBounds DEF Tick, KeptInv, TypeOK
<1>2. TypeOK'  BY <1>1 DEF Tick, denylist, throttler, KeptInv, TypeOK
<1>3. Kept'
  <2>1. now' < TokenExp => now < TokenExp  BY <1>1
  <2> QED  BY <2>1 DEF Tick, denylist, KeptInv, Kept, Recorded
<1>4. InTime'
  <2> SUFFICES ASSUME NEW r \in Requests, At(r, "setex")
               PROVE  now' + req[r].ttl >= TokenExp
    BY DEF Tick, InTime, At
  <2>1. req[r].ttl \in Nat  BY DEF KeptInv, TypeOK, CallState
  <2>2. now + req[r].ttl >= TokenExp  BY DEF KeptInv, InTime
  <2> QED  BY <1>1, <2>1, <2>2
<1> QED
  BY <1>2, <1>3, <1>4 DEF Tick, KeptInv, AtRedis, DeniedDone, OwedDenied, At

----------------------------------------------------------------------------
LEMMA KeptInit == Init => KeptInv
<1> SUFFICES ASSUME Init PROVE KeptInv  OBVIOUS
<1>1. NewCall \in CallState  BY DEF NewCall, CallState
<1>2. NoWindow \in Window  BY DEF NoWindow, Window
<1>3. TypeOK  BY <1>1, <1>2 DEF Init, TypeOK
<1>4. \A r \in Requests : req[r] = NewCall  BY DEF Init
<1>5. NewCall.pc = "new" /\ NewCall.result = "none" /\ NewCall.owed = {}  BY DEF NewCall
<1> QED
  BY <1>3, <1>4, <1>5
  DEF KeptInv, Kept, Recorded, InTime, AtRedis, DeniedDone, OwedDenied, At

LEMMA KeptNext == KeptInv /\ [Next]_redisVars => KeptInv'
<1> SUFFICES ASSUME KeptInv, [Next]_redisVars PROVE KeptInv'  OBVIOUS
<1>1. ASSUME NEW r \in Requests, CallStep(r) PROVE KeptInv'
  BY <1>1, KeptDeny, KeptCheck, KeptHit, KeptDenyStored, KeptCheckAnswered,
     KeptIncr, KeptPttl, KeptPexpire DEF CallStep
<1>2. ASSUME NEW p \in Pods, Purge(p) \/ Connection(p) \/ PodRestarts(p) PROVE KeptInv'
  BY <1>2, KeptPurge, KeptConnection, KeptPodRestarts
<1>3. CASE RedisLoses \/ Tick  BY <1>3, KeptRedisLoses, KeptTick
<1>4. CASE UNCHANGED redisVars
  BY <1>4
  DEF redisVars, KeptInv, TypeOK, Kept, Recorded, InTime, AtRedis, DeniedDone,
      OwedDenied, At
<1> QED  BY <1>1, <1>2, <1>3, <1>4 DEF Next, Terminated

(***************************************************************************)
(* The maps of the pods, the keys in Redis and the local variables of the  *)
(* calls keep their types; no time to live is negative                     *)
(* (token-denylist.service.ts:27-28).                                      *)
(***************************************************************************)
THEOREM RedisTypeCorrect == Spec => []TypeOK
<1>1. KeptInv => TypeOK  BY DEF KeptInv
<1> QED  BY <1>1, KeptInit, KeptNext, PTL DEF Spec

\* Only the two steps of a check accept a token.
LEMMA OnlyChecksAccept ==
  ASSUME TypeOK, AtRedis, NEW r \in Requests, CallStep(r), Accepts(r)
  PROVE  (\E p \in Pods : Check(r, p)) \/ CheckAnswered(r)
<1> DEFINE a == Admit(req[r].hits)
<1>0. req[r] \in CallState /\ req[r].result # "accepted" /\ req'[r].result = "accepted"
  BY DEF TypeOK, Accepts
<1>a. a \in { "admitted", "throttled" }  BY DEF Admit
<1> HIDE DEF a
<1>1. ASSUME NEW result \in { "denied", "admitted", "throttled" }, Finish(r, result)
      PROVE  FALSE
  BY <1>0, <1>1, FinishOnly
<1>2. ASSUME NEW x, Become(r, x), x.result # "accepted" PROVE FALSE
  BY <1>0, <1>2, BecomeOnly
<1>3. ASSUME NEW p \in Pods, MemIncrement(r, p) PROVE FALSE
  BY <1>0, <1>3, MemIncrementOnly
<1>4. ASSUME NEW p \in Pods, Deny(r, p) PROVE FALSE
  <2>1. CASE Finish(r, "denied")  BY <1>1, <2>1
  <2>2. CASE FinishInMemory(r, "denied", p)
    <3> DEFINE x == [req[r] EXCEPT !.pc = "done", !.result = "denied", !.pod = p,
                                   !.place = p]
    <3>1. Become(r, x) /\ x.result = "denied"
      BY <1>0, <2>2 DEF FinishInMemory, CallState
    <3> HIDE DEF x
    <3> QED  BY <1>2, <3>1
  <2>3. CASE Become(r, [req[r] EXCEPT !.pc = "setex", !.pod = p, !.place = Redis,
                                      !.ttl = TokenExp - now])
    <3> DEFINE t == TokenExp - now
               x == [req[r] EXCEPT !.pc = "setex", !.pod = p, !.place = Redis, !.ttl = t]
    <3>1. Become(r, x)  BY <2>3
    <3> HIDE DEF t
    <3>2. x.result = req[r].result  BY <1>0 DEF CallState
    <3> HIDE DEF x
    <3> QED  BY <1>0, <1>2, <3>1, <3>2
  <2> QED  BY <1>4, <2>1, <2>2, <2>3 DEF Deny
<1>5. ASSUME DenyStored(r) PROVE FALSE
  <2>1. CASE Finish(r, "denied")  BY <1>1, <2>1
  <2>2. CASE Become(r, [req[r] EXCEPT !.pc = "done", !.result = "denied",
                                      !.failed = TRUE])
    BY <1>0, <2>2, FailOnly
  <2> QED  BY <1>5, <2>1, <2>2 DEF DenyStored
<1>6. ASSUME NEW p \in Pods, Hit(r, p) PROVE FALSE
  <2>1. CASE Send(r, "incr", p)
    <3> DEFINE x == [req[r] EXCEPT !.pc = "incr", !.pod = p, !.place = Redis]
    <3>1. Become(r, x) /\ x.result = req[r].result  BY <1>0, <2>1 DEF Send, CallState
    <3> HIDE DEF x
    <3> QED  BY <1>0, <1>2, <3>1
  <2> QED  BY <1>3, <1>6, <2>1 DEF Hit
<1>7. ASSUME HitIncr(r) PROVE FALSE
  <2>1. CASE Become(r, [req[r] EXCEPT !.pc = "pttl", !.hits = CounterNext(r).hits])
    <3> DEFINE n == CounterNext(r).hits
               x == [req[r] EXCEPT !.pc = "pttl", !.hits = n]
    <3>1. Become(r, x)  BY <2>1
    <3> HIDE DEF n
    <3>2. x.result = req[r].result  BY <1>0 DEF CallState
    <3> HIDE DEF x
    <3> QED  BY <1>0, <1>2, <3>1, <3>2
  <2>2. CASE Become(r, [req[r] EXCEPT !.pc = "done", !.result = "admitted",
                                      !.failed = TRUE])
    BY <1>0, <2>2, FailOnly
  <2> QED  BY <1>7, <2>1, <2>2 DEF HitIncr
<1>8. ASSUME HitPttl(r) PROVE FALSE
  <2>1. CASE Become(r, [req[r] EXCEPT !.pc = "pexpire"])
    <3> DEFINE x == [req[r] EXCEPT !.pc = "pexpire"]
    <3>1. Become(r, x) /\ x.result = req[r].result  BY <1>0, <2>1 DEF CallState
    <3> HIDE DEF x
    <3> QED  BY <1>0, <1>2, <3>1
  <2>2. CASE Finish(r, Admit(req[r].hits))  BY <1>a, <1>1, <2>2 DEF a
  <2>3. CASE Become(r, [req[r] EXCEPT !.failed = TRUE,
                 !.pc = IF req[r].hits = 1 THEN "pexpire" ELSE "done",
                 !.result = IF req[r].hits = 1 THEN "none" ELSE Admit(req[r].hits)])
    <3> DEFINE pc == IF req[r].hits = 1 THEN "pexpire" ELSE "done"
               result == IF req[r].hits = 1 THEN "none" ELSE a
               x == [req[r] EXCEPT !.failed = TRUE, !.pc = pc, !.result = result]
    <3>1. Become(r, x)  BY <2>3 DEF a
    <3>2. result # "accepted"  BY <1>a
    <3> HIDE DEF pc, result
    <3>3. x.result = result  BY <1>0 DEF CallState
    <3> HIDE DEF x
    <3> QED  BY <1>2, <3>1, <3>2, <3>3
  <2> QED  BY <1>8, <2>1, <2>2, <2>3 DEF HitPttl
<1>9. ASSUME HitPexpire(r) PROVE FALSE
  <2>1. req[r].pod \in Pods  BY <1>9 DEF HitPexpire, AtRedis, At
  <2> QED  BY <1>a, <1>1, <1>3, <1>9, <2>1 DEF HitPexpire, a
<1> QED  BY <1>4, <1>5, <1>6, <1>7, <1>8, <1>9 DEF CallStep

\* What such a step finds at its place is the record of the logout.
LEMMA AcceptedUnrecorded ==
  ASSUME KeptInv, NEW r \in Requests, CallStep(r), Accepts(r), ~req'[r].failed,
         NEW d \in req'[r].owed
  PROVE  req[d].failed \/ req[d].place # req'[r].place \/ req'[r].place \in lost
<1> SUFFICES ASSUME ~req[d].failed, req[d].place = req'[r].place, req'[r].place \notin lost
             PROVE  FALSE
  OBVIOUS
<1>0. req[r] \in CallState /\ now < TokenExp /\ now \in Nat /\ TokenExp \in Nat
  BY RedisBounds DEF KeptInv, TypeOK, Accepts
<1>1. ASSUME d \in Requests, req[d].result = "denied"
      PROVE  /\ req[d].place \in Places
             /\ req[d].place = Redis => revoked \in Nat /\ revoked >= TokenExp
             /\ req[d].place # Redis => denied[req[d].place] = TokenExp
  BY <1>0, <1>1 DEF KeptInv, Kept, Recorded
<1>2. ASSUME NEW p \in Pods, Check(r, p) PROVE FALSE
  <2>1. CASE Become(r, [req[r] EXCEPT !.pc = "exists", !.pod = p, !.place = Redis,
                                      !.owed = Answered])
    <3> DEFINE x == [req[r] EXCEPT !.pc = "exists", !.pod = p, !.place = Redis,
                                   !.owed = Answered]
    <3>1. x.result = req[r].result  BY <1>0 DEF CallState
    <3>2. Become(r, x)  BY <2>1
    <3> HIDE DEF x
    <3> QED  BY <3>1, <3>2, BecomeOnly DEF KeptInv, Accepts
  <2>2. CASE ~available[p]
    <3> DEFINE rejects == denied[p] # NULL /\ now <= denied[p]
               result == IF rejects THEN "rejected" ELSE "accepted"
               x == [req[r] EXCEPT !.pc = "done", !.pod = p, !.place = p,
                                   !.owed = Answered, !.result = result]
    <3>1. Become(r, x)  BY <1>2, <2>2 DEF Check
    <3>2. result = "accepted" => ~rejects  OBVIOUS
    <3> HIDE DEF rejects, result
    <3>3. x.result = result /\ x.place = p /\ x.owed = Answered
      BY <1>0 DEF CallState
    <3> HIDE DEF x
    <3>4. req'[r] = x  BY <3>1, BecomeOnly DEF KeptInv
    <3>5. ~rejects  BY <3>2, <3>3, <3>4 DEF Accepts
    <3>6. d \in Requests /\ req[d].result = "denied" /\ req[d].place = p
      BY <3>3, <3>4 DEF Answered
    <3>7. denied[p] = TokenExp  BY <1>1, <3>6, PlacesDiffer
    <3> QED  BY <1>0, <3>5, <3>7, PlacesDiffer DEF rejects
  <2> QED  BY <1>2, <2>1, <2>2 DEF Check
<1>3. CASE CheckAnswered(r)
  <2>1. CASE Become(r, [req[r] EXCEPT !.pc = "done", !.result = "accepted",
                                      !.failed = TRUE])
    BY <2>1, FailOnly DEF KeptInv
  <2>2. CASE Finish(r, IF revoked # NULL /\ now < revoked THEN "rejected" ELSE "accepted")
    <3> DEFINE rejects == revoked # NULL /\ now < revoked
               result == IF rejects THEN "rejected" ELSE "accepted"
    <3>1. Finish(r, result)  BY <2>2
    <3>2. result \in { "accepted", "rejected" } /\ (result = "accepted" => ~rejects)
      OBVIOUS
    <3> HIDE DEF rejects, result
    <3>3. /\ req'[r].result = result /\ req'[r].place = req[r].place
          /\ req'[r].owed = req[r].owed
      BY <3>1, <3>2, FinishOnly DEF KeptInv
    <3>4. ~rejects  BY <3>2, <3>3 DEF Accepts
    <3>5. req[r].place = Redis  BY <1>3 DEF CheckAnswered, KeptInv, AtRedis, At
    <3>6. d \in Requests /\ req[d].result = "denied" /\ req[d].place = Redis
      BY <1>0, <3>3, <3>5 DEF KeptInv, OwedDenied, CallState
    <3>7. revoked \in Nat /\ revoked >= TokenExp  BY <1>1, <3>6
    <3> QED  BY <1>0, <3>4, <3>7, PlacesDiffer DEF rejects
  <2> QED  BY <1>3, <2>1, <2>2 DEF CheckAnswered
<1> QED  BY <1>2, <1>3, OnlyChecksAccept DEF KeptInv

(***************************************************************************)
(* A token whose logout was answered is accepted while it is valid only if *)
(* a command failed, the logout and the check used different places, or    *)
(* the place lost what it held (token-denylist.service.ts:26-66).          *)
(***************************************************************************)
THEOREM RevocationHoldsCorrect == Spec => RevocationHolds
<1> DEFINE Holds ==
      \A r \in Requests : Accepts(r) =>
        \A d \in req'[r].owed :
          \/ req[d].failed \/ req'[r].failed
          \/ req[d].place # req'[r].place
          \/ req'[r].place \in lost
<1>1. KeptInv /\ [Next]_redisVars => [Holds]_redisVars
  <2> SUFFICES ASSUME KeptInv, Next, NEW r \in Requests, Accepts(r), ~req'[r].failed,
                      NEW d \in req'[r].owed
               PROVE  \/ req[d].failed
                      \/ req[d].place # req'[r].place
                      \/ req'[r].place \in lost
    OBVIOUS
  <2>1. ASSUME req'[r] = req[r] PROVE FALSE  BY <2>1 DEF Accepts
  <2>2. ASSUME NEW q \in Requests, CallStep(q) PROVE q = r
    <3>1. \E x : req' = [req EXCEPT ![q] = x]
      BY <2>2 DEF CallStep, Deny, Check, Hit, DenyStored, CheckAnswered, HitIncr, HitPttl,
                  HitPexpire, Finish, FinishInMemory, MemIncrement, Send, Become
    <3>2. q # r => req'[r] = req[r]  BY <3>1 DEF KeptInv, TypeOK
    <3> QED  BY <2>1, <3>2
  <2>3. ASSUME NEW p \in Pods, PodRestarts(p) PROVE FALSE
    <3>1. req'[r] = IF req[r].pod = p /\ ~At(r, "done")
                    THEN [req[r] EXCEPT !.pc = "done", !.result = "crashed", !.failed = TRUE]
                    ELSE req[r]
      BY Zenon, <2>3 DEF PodRestarts
    <3> DEFINE x == [req[r] EXCEPT !.pc = "done", !.result = "crashed", !.failed = TRUE]
    <3>2. req[r] \in CallState  BY DEF KeptInv, TypeOK
    <3>3. x.result = "crashed"  BY <3>2 DEF CallState
    <3> HIDE DEF x
    <3>4. req'[r] = x  BY <2>1, <3>1 DEF x
    <3> QED  BY <3>3, <3>4 DEF Accepts
  <2>4. ASSUME \/ \E p \in Pods : Purge(p) \/ Connection(p)
               \/ RedisLoses \/ Tick \/ Terminated
        PROVE  FALSE
    BY <2>1, <2>4 DEF Purge, Connection, RedisLoses, Tick, Terminated, redisVars
  <2> QED  BY <2>2, <2>3, <2>4, AcceptedUnrecorded DEF Next
<1> QED  BY <1>1, KeptInit, KeptNext, PTL DEF Spec, RevocationHolds
----------------------------------------------------------------------------
(***************************************************************************)
(* WindowLimit and EndlessCounterRepaired.  INCR gives the calls of one    *)
(* window different counts, so no more of them than the limit has a count  *)
(* that passes: Passed, which grows only while the counter is below the    *)
(* limit, and of which those admitted without a failure are a part.  A     *)
(* record in memory is counted and compared in one step.                   *)
(***************************************************************************)
Passed == {r \in counter.hitters : ~req[r].failed /\ req[r].hits <= Limit}

CounterInv ==
  /\ IsFiniteSet(counter.hitters)
  /\ Cardinality(Passed) <= counter.hits /\ Cardinality(Passed) <= Limit
  /\ \A r \in counter.hitters :
       /\ req[r].pc \in { "pttl", "pexpire", "done" }
       /\ req[r].result = "admitted" => req[r].failed \/ req[r].hits <= Limit
  /\ \A r \in Requests : req[r].result = "admitted" => At(r, "done")
  /\ EndlessCounterRepaired

AdmittedIn(w) == {r \in w.hitters : req[r].result = "admitted" /\ ~req[r].failed}

MemInv ==
  \A p \in Pods :
    /\ IsFiniteSet(mem[p].hitters)
    /\ Cardinality(AdmittedIn(mem[p])) <= mem[p].hits
    /\ Cardinality(AdmittedIn(mem[p])) <= Limit
    /\ \A r \in mem[p].hitters : At(r, "done")

WindowInv == CounterInv /\ MemInv

\* A step keeps what counting a call made of it.
Steady(q) ==
  /\ At(q, "done") => req'[q] = req[q]
  /\ req'[q].result = "admitted" => req[q].result = "admitted" \/ At(q, "done")'
  /\ req[q].pc \in { "pttl", "pexpire" } =>
       /\ req'[q].pc \in { "pttl", "pexpire", "done" }
       /\ req'[q].hits = req[q].hits
       /\ req[q].failed => req'[q].failed
       /\ req'[q].result = "admitted" => req'[q].failed \/ req'[q].hits <= Limit

LEMMA SteadyOthers ==
  ASSUME CounterInv, NEW r \in Requests, Others(r), Steady(r),
         counter.hitters \subseteq Requests
  PROVE  \A q \in Requests : Steady(q) \/ req'[q] = req[q]
  BY DEF Others

(***************************************************************************)
(* A step that counts no call in the counter.                              *)
(***************************************************************************)
LEMMA CounterKept ==
  ASSUME TypeOK, CounterInv, \A q \in Requests : Steady(q) \/ req'[q] = req[q],
         \/ counter' = NoWindow
         \/ /\ counter'.hitters = counter.hitters /\ counter'.hits = counter.hits
            /\ counter'.expiresAt = NULL =>
                 /\ counter.expiresAt = NULL
                 /\ counter.hits > 0 =>
                      \A q \in counter.hitters :
                        At(q, "done")' => At(q, "done") \/ req'[q].failed
  PROVE  CounterInv'
<1>1. \A q \in Requests : req'[q].result = "admitted" => At(q, "done")'
  BY DEF Steady, CounterInv, At
<1>2. CASE counter' = NoWindow
  <2>1. counter'.hitters = {} /\ counter'.hits = 0  BY <1>2 DEF NoWindow
  <2>2. Passed' = {}  BY <2>1 DEF Passed
  <2> QED
    BY <1>1, <2>1, <2>2, FS_EmptySet, RedisBounds DEF CounterInv, EndlessCounterRepaired
<1>3. CASE /\ counter'.hitters = counter.hitters /\ counter'.hits = counter.hits
           /\ counter'.expiresAt = NULL =>
                /\ counter.expiresAt = NULL
                /\ counter.hits > 0 =>
                     \A q \in counter.hitters :
                       At(q, "done")' => At(q, "done") \/ req'[q].failed
  <2>1. counter.hitters \subseteq Requests /\ counter.hits \in Nat
    BY DEF TypeOK, Window
  <2>2. \A q \in counter.hitters :
          /\ req'[q].pc \in { "pttl", "pexpire", "done" }
          /\ req'[q].hits = req[q].hits
          /\ req[q].failed => req'[q].failed
          /\ req'[q].result = "admitted" => req'[q].failed \/ req'[q].hits <= Limit
    BY <2>1 DEF Steady, CounterInv, At
  <2>3. Passed' \subseteq Passed  BY <1>3, <2>2 DEF Passed
  <2>4. IsFiniteSet(Passed)  BY FS_Subset DEF CounterInv, Passed
  <2>5. /\ Cardinality(Passed') <= Cardinality(Passed)
        /\ Cardinality(Passed) \in Nat /\ Cardinality(Passed') \in Nat
    BY <2>3, <2>4, FS_Subset, FS_CardinalityType
  <2>6. Cardinality(Passed') <= counter'.hits /\ Cardinality(Passed') <= Limit
    BY <1>3, <2>1, <2>5, RedisBounds DEF CounterInv
  <2>7. EndlessCounterRepaired'
    <3> SUFFICES ASSUME counter'.hits > 0, counter'.expiresAt = NULL,
                        NEW q \in counter'.hitters, At(q, "done")'
                 PROVE  req'[q].failed
      BY DEF EndlessCounterRepaired
    <3>1. q \in Requests /\ counter.hits > 0 /\ counter.expiresAt = NULL  BY <1>3, <2>1
    <3>2. CASE At(q, "done")
      <4>1. req[q].failed  BY <1>3, <3>1, <3>2 DEF CounterInv, EndlessCounterRepaired
      <4>2. req'[q] = req[q]  BY <3>1, <3>2 DEF Steady
      <4> QED  BY <4>1, <4>2
    <3> QED  BY <1>3, <3>1, <3>2
  <2> QED  BY <1>1, <1>3, <2>2, <2>6, <2>7 DEF CounterInv
<1> QED  BY <1>2, <1>3

LEMMA MemKept ==
  ASSUME TypeOK, MemInv, \A q \in Requests : At(q, "done") => req'[q] = req[q],
         \A p \in Pods : mem'[p] = mem[p] \/ mem'[p] = NoWindow
  PROVE  MemInv'
<1> SUFFICES ASSUME NEW p \in Pods
             PROVE  /\ IsFiniteSet(mem'[p].hitters)
                    /\ Cardinality(AdmittedIn(mem[p])') <= mem'[p].hits
                    /\ Cardinality(AdmittedIn(mem[p])') <= Limit
                    /\ \A r \in mem'[p].hitters : At(r, "done")'
  BY DEF MemInv
<1>1. CASE mem'[p] = mem[p]
  <2>1. \A q \in mem[p].hitters : req'[q] = req[q] /\ At(q, "done")
    BY DEF MemInv, TypeOK, Window
  <2>2. AdmittedIn(mem[p])' = AdmittedIn(mem[p])  BY <1>1, <2>1 DEF AdmittedIn
  <2> QED  BY <1>1, <2>1, <2>2 DEF MemInv, At
<1>2. CASE mem'[p] = NoWindow
  <2>1. mem'[p].hitters = {} /\ mem'[p].hits = 0  BY <1>2 DEF NoWindow
  <2>2. AdmittedIn(mem[p])' = {}  BY <2>1 DEF AdmittedIn
  <2> QED  BY <2>1, <2>2, FS_EmptySet, RedisBounds
<1> QED  BY <1>1, <1>2

(***************************************************************************)
(* A call more in a window: whoever it counts among S are those that were, *)
(* and r if its count passes.                                              *)
(***************************************************************************)
LEMMA OneMore ==
  ASSUME NEW S, NEW T, NEW r, IsFiniteSet(S), NEW n \in Nat, NEW m \in Nat,
         Cardinality(S) <= n, Cardinality(S) <= Limit,
         \/ m = n + 1 /\ T \subseteq S \cup {r}
         \/ m = 1 /\ T \subseteq {r},
         m > Limit => r \notin T
  PROVE  Cardinality(T) <= m /\ Cardinality(T) <= Limit
<1>1. Cardinality(S) \in Nat  BY FS_CardinalityType
<1>2. /\ IsFiniteSet(S \cup {r}) /\ Cardinality(S \cup {r}) \in Nat
      /\ Cardinality(S \cup {r}) <= Cardinality(S) + 1
  <2>1. /\ IsFiniteSet(S \cup {r})
        /\ Cardinality(S \cup {r}) = IF r \in S THEN Cardinality(S) ELSE Cardinality(S) + 1
    BY FS_AddElement
  <2> QED  BY <1>1, <2>1
<1>3. IsFiniteSet({r}) /\ Cardinality({r}) = 1  BY FS_Singleton
<1>4. CASE m = n + 1 /\ T \subseteq S \cup {r}
  <2>1. /\ Cardinality(T) \in Nat /\ Cardinality(T) <= Cardinality(S \cup {r})
    BY <1>2, <1>4, FS_Subset, FS_CardinalityType
  <2>2. CASE m > Limit
    <3>1. T \subseteq S  BY <1>4, <2>2
    <3>2. Cardinality(T) <= Cardinality(S)  BY <3>1, FS_Subset
    <3> QED  BY <1>1, <1>4, <2>1, <3>2, RedisBounds
  <2>3. CASE m <= Limit
    BY <1>1, <1>2, <1>4, <2>1, <2>3, RedisBounds
  <2> QED  BY <2>2, <2>3, RedisBounds
<1>5. CASE m = 1 /\ T \subseteq {r}
  <2>1. CASE m > Limit
    <3>1. T = {}  BY <1>5, <2>1
    <3> QED  BY <1>5, <3>1, FS_EmptySet, RedisBounds
  <2>2. CASE m <= Limit
    <3>1. Cardinality(T) \in Nat /\ Cardinality(T) <= 1
      BY <1>3, <1>5, FS_Subset, FS_CardinalityType
    <3> QED  BY <1>5, <2>2, <3>1, RedisBounds
  <2> QED  BY <2>1, <2>2, RedisBounds
<1> QED  BY <1>4, <1>5

LEMMA CounterGrows ==
  ASSUME TypeOK, CounterInv, NEW r \in Requests, Others(r), At(r, "incr"),
         counter' = CounterNext(r),
         req'[r].pc \in { "pttl", "done" },
         At(r, "done")' => req'[r].failed,
         req'[r].result = "admitted" => At(r, "done")',
         req'[r].failed \/ req'[r].hits = CounterNext(r).hits
  PROVE  CounterInv'
<1> DEFINE n == CounterNext(r).hits
<1>1. /\ counter.hits \in Nat /\ counter.hitters \subseteq Requests
      /\ n \in Nat /\ counter'.hits = n
  BY CounterNextType DEF TypeOK, Window
<1>2. r \notin counter.hitters  BY DEF CounterInv, At
<1>3. \A q \in counter.hitters : req'[q] = req[q]  BY <1>1, <1>2 DEF Others
<1>4. \/ n = counter.hits + 1 /\ counter'.hitters = counter.hitters \cup {r}
         /\ counter'.expiresAt = counter.expiresAt /\ counter.hits > 0
      \/ n = 1 /\ counter'.hitters = {r}
  <2>1. CASE CounterOpen
    <3>1. counter \in Window  BY DEF TypeOK
    <3> QED  BY <2>1, <3>1 DEF CounterNext, Counted, CounterOpen, Window
  <2>2. CASE ~CounterOpen  BY <2>2 DEF CounterNext
  <2> QED  BY <2>1, <2>2
<1> HIDE DEF n
<1>5. counter'.hitters \subseteq counter.hitters \cup {r}  BY <1>4
<1>6. IsFiniteSet(counter'.hitters)
  <2>1. IsFiniteSet(counter.hitters)  BY DEF CounterInv
  <2>2. IsFiniteSet(counter.hitters \cup {r}) /\ IsFiniteSet({r})
    BY <2>1, FS_AddElement, FS_Singleton
  <2> QED  BY <1>4, <2>2
<1>7. IsFiniteSet(Passed)  BY FS_Subset DEF CounterInv, Passed
<1>8. \/ n = counter.hits + 1 /\ Passed' \subseteq Passed \cup {r}
      \/ n = 1 /\ Passed' \subseteq {r}
  BY <1>3, <1>4 DEF Passed
<1>9. n > Limit => r \notin Passed'
  <2>1. SUFFICES ASSUME n > Limit, ~req'[r].failed PROVE ~(req'[r].hits <= Limit)
    BY DEF Passed
  <2>2. req'[r].hits = n  BY <2>1 DEF n
  <2> QED  BY <1>1, <2>1, <2>2, RedisBounds
<1>10. Cardinality(Passed') <= n /\ Cardinality(Passed') <= Limit
  BY <1>1, <1>7, <1>8, <1>9, OneMore DEF CounterInv
<1>11. \A q \in counter'.hitters :
         /\ req'[q].pc \in { "pttl", "pexpire", "done" }
         /\ req'[q].result = "admitted" => req'[q].failed \/ req'[q].hits <= Limit
  BY <1>3, <1>5 DEF CounterInv
<1>12. \A q \in Requests : req'[q].result = "admitted" => At(q, "done")'
  BY DEF CounterInv, Others, At
<1>13. EndlessCounterRepaired'
  <2> SUFFICES ASSUME counter'.expiresAt = NULL, NEW q \in counter'.hitters, At(q, "done")'
               PROVE  req'[q].failed
    BY DEF EndlessCounterRepaired
  <2>1. CASE q = r  BY <2>1
  <2>2. CASE q # r
    <3>1. q \in counter.hitters /\ counter.expiresAt = NULL /\ counter.hits > 0
      BY <1>4, <2>2
    <3>2. req'[q] = req[q] /\ At(q, "done")  BY <1>3, <3>1 DEF At
    <3> QED  BY <3>1, <3>2 DEF CounterInv, EndlessCounterRepaired
  <2> QED  BY <2>1, <2>2
<1> QED  BY <1>1, <1>6, <1>10, <1>11, <1>12, <1>13 DEF CounterInv

\* In memory, the count is compared as it is made.
LEMMA MemGrows ==
  ASSUME TypeOK, MemInv, NEW r \in Requests, NEW p \in Pods, MemIncrement(r, p),
         ~At(r, "done")
  PROVE  MemInv'
<1> DEFINE open == mem[p].hits > 0 /\ now < mem[p].expiresAt
           w == IF open THEN Counted(mem[p], r)
                ELSE [ hits |-> 1, expiresAt |-> now + Ttl, hitters |-> {r} ]
           x == [req[r] EXCEPT !.pc = "done", !.pod = p, !.place = p,
                   !.failed = At(r, "pexpire"), !.result = Admit(w.hits)]
<1>1. mem' = [mem EXCEPT ![p] = w] /\ Become(r, x)  BY DEF MemIncrement
<1>2. mem[p] \in Window /\ mem \in [Pods -> Window]  BY DEF TypeOK
<1>3. \/ w.hits = mem[p].hits + 1 /\ w.hitters = mem[p].hitters \cup {r}
      \/ w.hits = 1 /\ w.hitters = {r}
  <2> HIDE DEF open
  <2>1. CASE open  BY <1>2, <2>1 DEF Counted, Window
  <2>2. CASE ~open  BY <2>2
  <2> QED  BY <2>1, <2>2
<1>4. x.pc = "done" /\ x.result = Admit(w.hits)
  <2> HIDE DEF w
  <2> QED  BY DEF TypeOK, CallState
<1> HIDE DEF w, x
<1>5. /\ mem'[p] = w /\ \A q \in Pods \ {p} : mem'[q] = mem[q]
      /\ req'[r] = x /\ Others(r)
  BY <1>1, <1>2, BecomeOnly
<1>6. w.hits \in Nat /\ mem[p].hits \in Nat  BY <1>2, <1>3 DEF Window
<1>7. \A q \in Pods : \A s \in mem[q].hitters :
        s \in Requests /\ At(s, "done") /\ s # r /\ req'[s] = req[s]
  BY <1>5 DEF TypeOK, Window, MemInv, Others
<1>8. ASSUME NEW q \in Pods \ {p}
      PROVE  /\ IsFiniteSet(mem'[q].hitters)
             /\ Cardinality(AdmittedIn(mem[q])') <= mem'[q].hits
             /\ Cardinality(AdmittedIn(mem[q])') <= Limit
             /\ \A s \in mem'[q].hitters : At(s, "done")'
  <2>1. mem'[q] = mem[q]  BY <1>5
  <2>2. AdmittedIn(mem[q])' = AdmittedIn(mem[q])  BY <1>7, <2>1 DEF AdmittedIn
  <2> QED  BY <1>7, <2>1, <2>2 DEF MemInv, At
<1>9. /\ IsFiniteSet(mem'[p].hitters)
      /\ Cardinality(AdmittedIn(mem[p])') <= mem'[p].hits
      /\ Cardinality(AdmittedIn(mem[p])') <= Limit
      /\ \A s \in mem'[p].hitters : At(s, "done")'
  <2> DEFINE S == AdmittedIn(mem[p])
             T == AdmittedIn(mem[p])'
  <2>1. IsFiniteSet(mem[p].hitters) /\ Cardinality(S) <= mem[p].hits /\ Cardinality(S) <= Limit
    BY DEF MemInv
  <2>2. IsFiniteSet(S)  BY <2>1, FS_Subset DEF AdmittedIn
  <2>3. T = {s \in w.hitters : req'[s].result = "admitted" /\ ~req'[s].failed}
    BY <1>5 DEF AdmittedIn
  <2>4. \/ w.hits = mem[p].hits + 1 /\ T \subseteq S \cup {r}
        \/ w.hits = 1 /\ T \subseteq {r}
    BY <1>3, <1>7, <2>3 DEF AdmittedIn
  <2>5. w.hits > Limit => r \notin T
    <3>1. w.hits > Limit => req'[r].result = "throttled"
      BY <1>4, <1>5, <1>6, RedisBounds DEF Admit
    <3> QED  BY <2>3, <3>1
  <2> HIDE DEF S, T
  <2>6. Cardinality(T) <= w.hits /\ Cardinality(T) <= Limit
    BY <1>6, <2>1, <2>2, <2>4, <2>5, OneMore
  <2>7. IsFiniteSet(w.hitters)
    <3>1. IsFiniteSet(mem[p].hitters \cup {r}) /\ IsFiniteSet({r})
      BY <2>1, FS_AddElement, FS_Singleton
    <3> QED  BY <1>3, <3>1
  <2>8. \A s \in w.hitters : At(s, "done")'
    BY <1>3, <1>4, <1>5, <1>7 DEF At
  <2> QED  BY <1>5, <2>6, <2>7, <2>8 DEF T
<1> QED  BY <1>8, <1>9 DEF MemInv

----------------------------------------------------------------------------
(***************************************************************************)
(* Both invariants, action by action.                                      *)
(***************************************************************************)
\* The calls to the denylist, which no window counts.
LEMMA DenylistAside ==
  ASSUME KeptInv, NEW r \in Requests, NEW p \in Pods,
         Deny(r, p) \/ Check(r, p) \/ DenyStored(r) \/ CheckAnswered(r)
  PROVE  /\ Others(r) /\ req[r].pc \in { "new", "setex", "exists" }
         /\ req'[r].result = req[r].result \/ At(r, "done")'
         /\ UNCHANGED throttler
<1>0. /\ req[r] \in CallState /\ req[r].pc \in { "new", "setex", "exists" }
      /\ UNCHANGED throttler
  BY DEF KeptInv, TypeOK, Deny, Check, DenyStored, CheckAnswered, At, throttler
<1>1. ASSUME NEW result, Finish(r, result) PROVE Others(r) /\ At(r, "done")'
  <2> DEFINE x == [req[r] EXCEPT !.pc = "done", !.result = result]
  <2>1. x.pc = "done" /\ Become(r, x)  BY <1>0, <1>1 DEF Finish, CallState
  <2> HIDE DEF x
  <2> QED  BY <2>1, BecomeOnly DEF KeptInv, At
<1>2. ASSUME NEW result,
             Become(r, [req[r] EXCEPT !.pc = "done", !.result = result, !.failed = TRUE])
      PROVE  Others(r) /\ At(r, "done")'
  <2> DEFINE x == [req[r] EXCEPT !.pc = "done", !.result = result, !.failed = TRUE]
  <2>1. x.pc = "done" /\ Become(r, x)  BY <1>0, <1>2 DEF CallState
  <2> HIDE DEF x
  <2> QED  BY <2>1, BecomeOnly DEF KeptInv, At
<1>3. CASE Deny(r, p)
  <2>1. CASE Finish(r, "denied")  BY <1>0, <1>1, <2>1
  <2>2. CASE Become(r, [req[r] EXCEPT !.pc = "setex", !.pod = p, !.place = Redis,
                                      !.ttl = TokenExp - now])
    <3> DEFINE x == [req[r] EXCEPT !.pc = "setex", !.pod = p, !.place = Redis,
                                   !.ttl = TokenExp - now]
    <3>1. x.result = req[r].result /\ Become(r, x)  BY <1>0, <2>2 DEF CallState
    <3> HIDE DEF x
    <3> QED  BY <1>0, <3>1, BecomeOnly DEF KeptInv
  <2>3. CASE FinishInMemory(r, "denied", p)
    <3> DEFINE x == [req[r] EXCEPT !.pc = "done", !.result = "denied", !.pod = p, !.place = p]
    <3>1. x.pc = "done" /\ Become(r, x)  BY <1>0, <2>3 DEF FinishInMemory, CallState
    <3> HIDE DEF x
    <3> QED  BY <1>0, <3>1, BecomeOnly DEF KeptInv, At
  <2> QED  BY <1>3, <2>1, <2>2, <2>3 DEF Deny
<1>4. CASE Check(r, p)
  <2>1. CASE Become(r, [req[r] EXCEPT !.pc = "exists", !.pod = p, !.place = Redis,
                                      !.owed = Answered])
    <3> DEFINE x == [req[r] EXCEPT !.pc = "exists", !.pod = p, !.place = Redis,
                                   !.owed = Answered]
    <3>1. x.result = req[r].result /\ Become(r, x)  BY <1>0, <2>1 DEF CallState
    <3> HIDE DEF x
    <3> QED  BY <1>0, <3>1, BecomeOnly DEF KeptInv
  <2>2. ASSUME NEW result,
               Become(r, [req[r] EXCEPT !.pc = "done", !.pod = p, !.place = p,
                                        !.owed = Answered, !.result = result])
        PROVE  Others(r) /\ At(r, "done")'
    <3> DEFINE x == [req[r] EXCEPT !.pc = "done", !.pod = p, !.place = p,
                                   !.owed = Answered, !.result = result]
    <3>1. x.pc = "done" /\ Become(r, x)  BY <1>0, <2>2 DEF CallState
    <3> HIDE DEF x
    <3> QED  BY <3>1, BecomeOnly DEF KeptInv, At
  <2> QED  BY <1>0, <1>4, <2>1, <2>2 DEF Check
<1>5. CASE DenyStored(r)  BY <1>0, <1>1, <1>2, <1>5 DEF DenyStored
<1>6. CASE CheckAnswered(r)  BY <1>0, <1>1, <1>2, <1>6 DEF CheckAnswered
<1> QED  BY <1>3, <1>4, <1>5, <1>6

\* A step of r that no window counts, and that decides nothing about r.
LEMMA WindowAside ==
  ASSUME KeptInv, WindowInv, NEW r \in Requests, Others(r),
         req[r].pc \in { "new", "setex", "exists", "incr" },
         req'[r].result = req[r].result \/ At(r, "done")',
         UNCHANGED throttler
  PROVE  WindowInv'
<1>1. \A q \in Requests : Steady(q) \/ req'[q] = req[q]
  BY DEF Steady, Others, At
<1>2. \A q \in Requests : At(q, "done") => req'[q] = req[q]  BY DEF Others, At
<1>3. counter.hitters \subseteq Requests /\ r \notin counter.hitters
  BY DEF KeptInv, TypeOK, Window, WindowInv, CounterInv
<1>4. \A q \in counter.hitters : req'[q] = req[q]  BY <1>3 DEF Others
<1>5. CounterInv'
  BY <1>1, <1>4, CounterKept DEF KeptInv, WindowInv, throttler, At
<1>6. MemInv'  BY <1>2, MemKept DEF KeptInv, WindowInv, throttler
<1> QED  BY <1>5, <1>6 DEF WindowInv

LEMMA WindowHit ==
  ASSUME KeptInv, WindowInv, NEW r \in Requests, NEW p \in Pods, Hit(r, p)
  PROVE  WindowInv'
<1>0. req[r] \in CallState /\ At(r, "new")  BY DEF KeptInv, TypeOK, Hit
<1>1. CASE Send(r, "incr", p) /\ UNCHANGED mem
  <2> DEFINE x == [req[r] EXCEPT !.pc = "incr", !.pod = p, !.place = Redis]
  <2>1. x.result = req[r].result /\ Become(r, x)  BY <1>0, <1>1 DEF Send, CallState
  <2> HIDE DEF x
  <2>2. Others(r) /\ req'[r].result = req[r].result  BY <2>1, BecomeOnly DEF KeptInv
  <2> QED  BY <1>0, <1>1, <2>2, WindowAside DEF Hit, At, throttler
<1>2. CASE MemIncrement(r, p)
  <2>1. MemInv'  BY <1>0, <1>2, MemGrows DEF KeptInv, WindowInv, At
  <2>2. Others(r) /\ At(r, "done")'
    BY <1>2, MemIncrementOnly DEF KeptInv, At
  <2>3. \A q \in Requests : Steady(q) \/ req'[q] = req[q]
    BY <1>0, <2>2 DEF Steady, Others, At
  <2>4. counter.hitters \subseteq Requests /\ r \notin counter.hitters
    BY <1>0 DEF KeptInv, TypeOK, Window, WindowInv, CounterInv, At
  <2>5. \A q \in counter.hitters : req'[q] = req[q]  BY <2>2, <2>4 DEF Others
  <2>6. CounterInv'
    BY <2>3, <2>5, CounterKept DEF Hit, KeptInv, WindowInv, At
  <2> QED  BY <2>1, <2>6 DEF WindowInv
<1> QED  BY <1>1, <1>2 DEF Hit

LEMMA WindowIncr ==
  ASSUME KeptInv, WindowInv, NEW r \in Requests, HitIncr(r)
  PROVE  WindowInv'
<1> DEFINE n == CounterNext(r).hits
<1>0. /\ req[r] \in CallState /\ At(r, "incr") /\ UNCHANGED mem
      /\ req[r].result # "admitted" /\ n \in Nat
  BY CounterNextType DEF KeptInv, TypeOK, HitIncr, WindowInv, CounterInv, At
<1> HIDE DEF n
<1>1. CASE /\ counter' = CounterNext(r)
           /\ Become(r, [req[r] EXCEPT !.pc = "pttl", !.hits = CounterNext(r).hits])
  <2> DEFINE x == [req[r] EXCEPT !.pc = "pttl", !.hits = n]
  <2>1. x.pc = "pttl" /\ x.hits = n /\ x.result = req[r].result
    BY <1>0 DEF CallState
  <2>2. Become(r, x)  BY <1>1 DEF n
  <2> HIDE DEF x
  <2>3. req'[r] = x /\ Others(r)  BY <2>2, BecomeOnly DEF KeptInv
  <2>4. CounterInv'
    BY <1>0, <1>1, <2>1, <2>3, CounterGrows DEF KeptInv, WindowInv, At, n
  <2>5. \A q \in Requests : At(q, "done") => req'[q] = req[q]
    BY <1>0, <2>3 DEF Others, At
  <2>6. MemInv'  BY <1>0, <2>5, MemKept DEF KeptInv, WindowInv
  <2> QED  BY <2>4, <2>6 DEF WindowInv
<1>2. CASE /\ counter' \in { counter, CounterNext(r) }
           /\ Become(r, [req[r] EXCEPT !.pc = "done", !.result = "admitted", !.failed = TRUE])
  <2>1. Others(r) /\ At(r, "done")' /\ req'[r].failed = TRUE
    BY <1>2, FailOnly DEF KeptInv, At
  <2>2. CASE counter' = counter
    BY <1>0, <2>1, <2>2, WindowAside DEF throttler, At
  <2>3. CASE counter' = CounterNext(r)
    <3>1. CounterInv'
      BY <1>0, <2>1, <2>3, CounterGrows DEF KeptInv, WindowInv, At
    <3>2. \A q \in Requests : At(q, "done") => req'[q] = req[q]
      BY <1>0, <2>1 DEF Others, At
    <3>3. MemInv'  BY <1>0, <3>2, MemKept DEF KeptInv, WindowInv
    <3> QED  BY <3>1, <3>3 DEF WindowInv
  <2> QED  BY <1>2, <2>2, <2>3
<1> QED  BY <1>1, <1>2 DEF HitIncr

\* A step of r between its count and its answer, after which a counter
\* without a time to live is left to those that failed.
LEMMA WindowAnswer ==
  ASSUME KeptInv, CounterInv, NEW r \in Requests, Others(r),
         req[r].pc \in { "pttl", "pexpire" }, Steady(r),
         counter'.hitters = counter.hitters, counter'.hits = counter.hits,
         counter'.expiresAt = NULL =>
           /\ counter.expiresAt = NULL
           /\ counter.hits > 0 /\ At(r, "done")' => req'[r].failed
  PROVE  CounterInv'
<1>1. \A q \in Requests : Steady(q) \/ req'[q] = req[q]  BY DEF Others
<1>2. counter.hitters \subseteq Requests  BY DEF KeptInv, TypeOK, Window
<1>3. counter'.expiresAt = NULL =>
        /\ counter.expiresAt = NULL
        /\ counter.hits > 0 =>
             \A q \in counter.hitters : At(q, "done")' => At(q, "done") \/ req'[q].failed
  BY <1>2 DEF Others, At
<1> QED  BY <1>1, <1>3, CounterKept DEF KeptInv

LEMMA AnsweredSteady ==
  ASSUME KeptInv, NEW r \in Requests, req[r].pc \in { "pttl", "pexpire" },
         Finish(r, Admit(req[r].hits))
  PROVE  Others(r) /\ At(r, "done")' /\ Steady(r)
<1> DEFINE a == Admit(req[r].hits)
           x == [req[r] EXCEPT !.pc = "done", !.result = a]
<1>1. a = "admitted" => req[r].hits <= Limit  BY DEF Admit
<1> HIDE DEF a
<1>2. req[r] \in CallState  BY DEF KeptInv, TypeOK
<1>3. /\ x.pc = "done" /\ x.result = a /\ x.hits = req[r].hits
      /\ x.failed = req[r].failed
  BY <1>2 DEF CallState
<1>4. Become(r, x)  BY DEF Finish, a
<1> HIDE DEF x
<1>5. req'[r] = x /\ Others(r)  BY <1>4, BecomeOnly DEF KeptInv
<1> QED  BY <1>1, <1>3, <1>5 DEF Steady, At

LEMMA WindowPttl ==
  ASSUME KeptInv, WindowInv, NEW r \in Requests, HitPttl(r)
  PROVE  WindowInv'
<1>0. /\ req[r] \in CallState /\ At(r, "pttl") /\ UNCHANGED throttler
      /\ req[r].result # "admitted"
  BY DEF KeptInv, TypeOK, HitPttl, WindowInv, CounterInv, At
<1> DEFINE endless == CounterOpen /\ counter.expiresAt = NULL
<1>1. /\ Others(r) /\ Steady(r)
      /\ \/ At(r, "pexpire")'
         \/ At(r, "done")' /\ (~endless \/ req'[r].failed)
  <2> HIDE DEF endless
  <2>1. CASE Become(r, [req[r] EXCEPT !.pc = "pexpire"])
    <3> DEFINE x == [req[r] EXCEPT !.pc = "pexpire"]
    <3>1. /\ x.pc = "pexpire" /\ x.result = req[r].result /\ x.hits = req[r].hits
          /\ x.failed = req[r].failed
      BY <1>0 DEF CallState
    <3>2. Become(r, x)  BY <2>1
    <3> HIDE DEF x
    <3>3. req'[r] = x /\ Others(r)  BY <3>2, BecomeOnly DEF KeptInv
    <3> QED  BY <1>0, <3>1, <3>3 DEF Steady, At
  <2>2. CASE Finish(r, Admit(req[r].hits)) /\ ~endless
    BY <1>0, <2>2, AnsweredSteady DEF At
  <2>3. CASE Become(r, [req[r] EXCEPT !.failed = TRUE,
                 !.pc = IF req[r].hits = 1 THEN "pexpire" ELSE "done",
                 !.result = IF req[r].hits = 1 THEN "none" ELSE Admit(req[r].hits)])
    <3> DEFINE pc == IF req[r].hits = 1 THEN "pexpire" ELSE "done"
               result == IF req[r].hits = 1 THEN "none" ELSE Admit(req[r].hits)
               x == [req[r] EXCEPT !.failed = TRUE, !.pc = pc, !.result = result]
    <3>1. /\ pc \in { "pexpire", "done" }
          /\ result = "admitted" => pc = "done"
      OBVIOUS
    <3>2. Become(r, x)  BY <2>3
    <3> HIDE DEF pc, result
    <3>3. /\ x.pc = pc /\ x.result = result /\ x.hits = req[r].hits /\ x.failed = TRUE
      BY <1>0 DEF CallState
    <3> HIDE DEF x
    <3>4. req'[r] = x /\ Others(r)  BY <3>2, BecomeOnly DEF KeptInv
    <3> QED  BY <1>0, <3>1, <3>3, <3>4 DEF Steady, At
  <2> QED  BY <2>1, <2>2, <2>3 DEF HitPttl, endless
<1>2. counter'.expiresAt = NULL =>
        (counter.hits > 0 /\ At(r, "done")' => req'[r].failed)
  BY <1>0, <1>1 DEF CounterOpen, throttler, At
<1>3. CounterInv'
  BY <1>0, <1>1, <1>2, WindowAnswer DEF WindowInv, throttler, At
<1>4. \A q \in Requests : At(q, "done") => req'[q] = req[q]
  BY <1>0, <1>1 DEF Others, At
<1>5. MemInv'  BY <1>0, <1>4, MemKept DEF KeptInv, WindowInv, throttler
<1> QED  BY <1>3, <1>5 DEF WindowInv

LEMMA WindowPexpire ==
  ASSUME KeptInv, WindowInv, NEW r \in Requests, HitPexpire(r)
  PROVE  WindowInv'
<1> DEFINE expiring ==
      IF CounterOpen THEN [counter EXCEPT !.expiresAt = now + Ttl] ELSE counter
<1>0. /\ req[r] \in CallState /\ At(r, "pexpire") /\ req[r].pod \in Pods
      /\ counter \in Window
  BY DEF KeptInv, TypeOK, HitPexpire, AtRedis, At
<1>1. /\ expiring.hitters = counter.hitters /\ expiring.hits = counter.hits
      /\ expiring.expiresAt = NULL => counter.expiresAt = NULL /\ counter.hits = 0
  <2>1. CASE CounterOpen
    <3>1. now + Ttl \in Nat  BY RedisBounds DEF KeptInv, TypeOK
    <3> QED  BY <1>0, <2>1, <3>1, PlacesDiffer DEF Window
  <2>2. CASE ~CounterOpen
    BY <1>0, <2>2 DEF CounterOpen, Window
  <2> QED  BY <2>1, <2>2
<1> HIDE DEF expiring
<1>2. CASE counter' = expiring /\ Finish(r, Admit(req[r].hits)) /\ UNCHANGED mem
  <2>1. Others(r) /\ At(r, "done")' /\ Steady(r)
    BY <1>0, <1>2, AnsweredSteady DEF At
  <2>2. CounterInv'
    BY <1>0, <1>1, <1>2, <2>1, WindowAnswer DEF WindowInv, At
  <2>3. \A q \in Requests : At(q, "done") => req'[q] = req[q]
    BY <1>0, <2>1 DEF Others, At
  <2>4. MemInv'  BY <1>2, <2>3, MemKept DEF KeptInv, WindowInv
  <2> QED  BY <2>2, <2>4 DEF WindowInv
<1>3. CASE counter' \in { counter, expiring } /\ MemIncrement(r, req[r].pod)
  <2>1. MemInv'  BY <1>0, <1>3, MemGrows DEF KeptInv, WindowInv, At
  <2>2. Others(r) /\ At(r, "done")'
    BY <1>0, <1>3, MemIncrementOnly DEF KeptInv, At
  <2>3. req'[r].failed /\ req'[r].hits = req[r].hits
    <3> DEFINE p == req[r].pod
               w == IF mem[p].hits > 0 /\ now < mem[p].expiresAt THEN Counted(mem[p], r)
                    ELSE [ hits |-> 1, expiresAt |-> now + Ttl, hitters |-> {r} ]
               a == Admit(w.hits)
               b == At(r, "pexpire")
               x == [req[r] EXCEPT !.pc = "done", !.pod = p, !.place = p,
                       !.failed = b, !.result = a]
    <3>1. Become(r, x)  BY <1>3 DEF MemIncrement
    <3> HIDE DEF a, p, w
    <3>2. x.failed = b /\ x.hits = req[r].hits
      <4> HIDE DEF b
      <4> QED  BY <1>0 DEF CallState
    <3> HIDE DEF x
    <3>3. req'[r] = x  BY <3>1, BecomeOnly DEF KeptInv
    <3> QED  BY <1>0, <3>2, <3>3
  <2>4. Steady(r)  BY <1>0, <2>2, <2>3 DEF Steady, At
  <2>5. CounterInv'
    BY <1>0, <1>1, <1>3, <2>2, <2>3, <2>4, WindowAnswer DEF WindowInv, At
  <2> QED  BY <2>1, <2>5 DEF WindowInv
<1> QED  BY <1>2, <1>3 DEF HitPexpire, expiring

\* Nothing that happens around the calls adds to a window.
LEMMA WindowAround ==
  ASSUME KeptInv, WindowInv, UNCHANGED req, counter' = counter \/ counter' = NoWindow,
         UNCHANGED mem
  PROVE  WindowInv'
<1>1. CounterInv'  BY CounterKept DEF KeptInv, WindowInv, At
<1>2. MemInv'  BY MemKept DEF KeptInv, WindowInv
<1> QED  BY <1>1, <1>2 DEF WindowInv

LEMMA WindowPodRestarts ==
  ASSUME KeptInv, WindowInv, NEW p \in Pods, PodRestarts(p)
  PROVE  WindowInv'
<1> DEFINE x(q) == [req[q] EXCEPT !.pc = "done", !.result = "crashed", !.failed = TRUE]
<1>1. \A q \in Requests : req'[q] = IF req[q].pod = p /\ ~At(q, "done") THEN x(q) ELSE req[q]
  BY Zenon DEF PodRestarts
<1>2. \A q \in Requests :
        /\ x(q).pc = "done" /\ x(q).result = "crashed" /\ x(q).failed = TRUE
        /\ x(q).hits = req[q].hits
  BY DEF KeptInv, TypeOK, CallState
<1> HIDE DEF x
<1>3. \A q \in Requests : Steady(q) \/ req'[q] = req[q]
  BY <1>1, <1>2 DEF Steady, At
<1>4. counter.hitters \subseteq Requests  BY DEF KeptInv, TypeOK, Window
<1>5. \A q \in counter.hitters : At(q, "done")' => At(q, "done") \/ req'[q].failed
  BY <1>1, <1>2, <1>4 DEF At
<1>6. CounterInv'
  BY <1>3, <1>5, CounterKept DEF KeptInv, WindowInv, PodRestarts
<1>7. \A q \in Requests : At(q, "done") => req'[q] = req[q]  BY <1>1
<1>8. \A q \in Pods : mem'[q] = mem[q] \/ mem'[q] = NoWindow
  BY DEF PodRestarts, KeptInv, TypeOK
<1>9. MemInv'  BY <1>7, <1>8, MemKept DEF KeptInv, WindowInv
<1> QED  BY <1>6, <1>9 DEF WindowInv

LEMMA WindowInit == Init => WindowInv
<1> SUFFICES ASSUME Init PROVE WindowInv  OBVIOUS
<1>1. counter.hitters = {} /\ counter.hits = 0  BY DEF Init, NoWindow
<1>2. \A p \in Pods : mem[p].hitters = {} /\ mem[p].hits = 0  BY DEF Init, NoWindow
<1>3. \A r \in Requests : req[r].result = "none"  BY DEF Init, NewCall
<1>4. Passed = {}  BY <1>1 DEF Passed
<1>5. CounterInv
  BY <1>1, <1>3, <1>4, FS_EmptySet, RedisBounds DEF CounterInv, EndlessCounterRepaired
<1>6. \A p \in Pods : AdmittedIn(mem[p]) = {}  BY <1>2 DEF AdmittedIn
<1>7. MemInv  BY <1>2, <1>6, FS_EmptySet, RedisBounds DEF MemInv
<1> QED  BY <1>5, <1>7 DEF WindowInv

LEMMA WindowNext == KeptInv /\ WindowInv /\ [Next]_redisVars => WindowInv'
<1> SUFFICES ASSUME KeptInv, WindowInv, [Next]_redisVars PROVE WindowInv'  OBVIOUS
<1>1. ASSUME NEW r \in Requests, CallStep(r) PROVE WindowInv'
  <2>1. ASSUME NEW p \in Pods,
               Deny(r, p) \/ Check(r, p) \/ DenyStored(r) \/ CheckAnswered(r)
        PROVE  WindowInv'
    BY <2>1, DenylistAside, WindowAside
  <2>2. CASE DenyStored(r) \/ CheckAnswered(r)
    <3>1. req[r].pod \in Pods
      BY <2>2 DEF DenyStored, CheckAnswered, KeptInv, AtRedis, At
    <3> QED  BY <2>1, <2>2, <3>1
  <2> QED  BY <1>1, <2>1, <2>2, WindowHit, WindowIncr, WindowPttl, WindowPexpire
           DEF CallStep
<1>2. ASSUME NEW p \in Pods, Purge(p) \/ Connection(p) PROVE WindowInv'
  BY <1>2, WindowAround DEF Purge, Connection, throttler
<1>3. CASE RedisLoses  BY <1>3, WindowAround DEF RedisLoses
<1>4. CASE Tick \/ UNCHANGED redisVars
  BY <1>4, WindowAround DEF Tick, throttler, redisVars
<1> QED
  BY <1>1, <1>2, <1>3, <1>4, WindowPodRestarts DEF Next, Terminated

\* A counter that would throttle for ever is left behind by failures only
\* (redis-throttler.storage.ts:45-54).
THEOREM EndlessCounterCorrect == Spec => []EndlessCounterRepaired
<1>1. WindowInv => EndlessCounterRepaired  BY DEF WindowInv, CounterInv
<1> QED  BY <1>1, KeptInit, KeptNext, WindowInit, WindowNext, PTL DEF Spec

(***************************************************************************)
(* No window admits more calls than the limit, except those one of whose   *)
(* commands failed (redis-throttler.storage.ts:28-70).                     *)
(***************************************************************************)
THEOREM WindowLimitCorrect == Spec => []WindowLimit
<1>1. KeptInv /\ WindowInv => WindowLimit
  <2> SUFFICES ASSUME KeptInv, WindowInv PROVE WindowLimit
    OBVIOUS
  <2>1. Cardinality(AdmittedIn(counter)) <= Limit
    <3>1. AdmittedIn(counter) \subseteq Passed
      BY DEF AdmittedIn, Passed, WindowInv, CounterInv
    <3>2. IsFiniteSet(Passed) /\ Cardinality(Passed) <= Limit
      BY FS_Subset DEF Passed, WindowInv, CounterInv
    <3>3. /\ Cardinality(AdmittedIn(counter)) <= Cardinality(Passed)
          /\ Cardinality(AdmittedIn(counter)) \in Nat /\ Cardinality(Passed) \in Nat
      BY <3>1, <3>2, FS_Subset, FS_CardinalityType
    <3> QED  BY <3>2, <3>3, RedisBounds
  <2>2. \A p \in Pods : Cardinality(AdmittedIn(mem[p])) <= Limit
    BY DEF WindowInv, MemInv
  <2> QED  BY <2>1, <2>2 DEF WindowLimit, AdmittedIn
<1> QED  BY <1>1, KeptInit, KeptNext, WindowInit, WindowNext, PTL DEF Spec
=============================================================================
