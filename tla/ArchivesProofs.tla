--------------------------- MODULE ArchivesProofs ---------------------------
(***************************************************************************)
(* The properties of Archives for any number of archives, requests and     *)
(* codes.                                                                  *)
(*                                                                         *)
(* The invariant says of each request what it found that is still true,    *)
(* and of each open transaction which participants it deleted, inserted    *)
(* and has still to replace.  Two transactions that claim the participants *)
(* of one kind of one archive are near: one was open when the other took   *)
(* a snapshot.                                                             *)
(***************************************************************************)
EXTENDS Archives, TLAPS

Results == { "none", "ok", "rejected", "notFound", "failed" }

\* Where a request has an archive, and where it has found it.
OnArchive == { "checkCode", "snapshot", "replace", "commit", "delete", "put", "images",
               "render", "find", "link" }

Found == { "checkCode", "snapshot", "replace", "commit", "delete", "render", "link" }

First(kinds) == IF "grantor" \in kinds THEN "grantor" ELSE "beneficiary"

\* The parameters that request r, in state x, has.
Shape(r, x) ==
  /\ x.pc \in {"insert", "checkCode"} => x.code \in Codes
  /\ x.pc \in OnArchive => x.id \in Archives
  /\ x.pc \in Found => row[x.id].state # "absent"
  /\ x.pc \in {"new", "insert"} => row[r] = NoRow
  /\ x.pc \in {"snapshot", "replace"} => x.kinds # {}

\* What its transaction saw, deleted and inserted.  Grantors come first.
Transaction(r, x) ==
  /\ x.pc = "replace" => \A p \in x.seen : p.archive = x.id /\ p.kind = First(x.kinds)
  /\ \A p \in x.gone : p.archive = x.id /\ p.kind \notin x.kinds
  /\ \A p \in x.gone : p.kind = "beneficiary" => x.kinds = {}
  /\ \A p \in x.added : p.archive = x.id /\ p.by = r
  /\ x.gone # {} \/ x.added # {} => x.pc \in {"snapshot", "replace", "commit"}

\* What became of its PDF.
Stored(r, x) ==
  /\ x.pc \in {"find", "link"} => r \in bucket
  /\ r \in bucket =>
       \/ x.pc \in {"find", "link"}
       \/ /\ x.pc = "done"
          /\ \/ x.result \in {"failed", "notFound"}
             \/ x.result = "ok" /\ x.id \in Archives /\ row[x.id].pdf # NULL

\* If its archive was removed since, it was under way by then.
Overtaken(r, x) == x.pc \in Found /\ row[x.id].state = "deleted" => r \in caught[x.id]

Good(r, x) == Shape(r, x) /\ Transaction(r, x) /\ Stored(r, x) /\ Overtaken(r, x)

Rows ==
  /\ \A a \in Archives : row[a].state = "absent" => row[a] = NoRow
  /\ \A p \in party : row[p.archive].state # "absent"
  /\ \A p \in party : p.by \in Requests => At(p.by, "done")

----------------------------------------------------------------------------
Near(r, s) == s \in req[r].with \/ r \in req[s].with

NearBy(r, p) == p.by \in Requests /\ Near(r, p.by)

\* The participants that r is about to replace, and those it has replaced.
Wants(r, p) == At(r, "replace") /\ p.archive = req[r].id /\ p.kind = First(req[r].kinds)

Has(r, p) == \E q \in req[r].added : p.archive = q.archive /\ p.kind = q.kind

Claims(r, p) == Wants(r, p) \/ Has(r, p)

WantedSeen ==
  \A r \in Requests : \A p \in party : Wants(r, p) => p \in req[r].seen \/ NearBy(r, p)

ReplacedGone ==
  \A r \in Requests : \A p \in party : Has(r, p) => p \in req[r].gone \/ NearBy(r, p)

ClaimsNear ==
  \A r, s \in Requests : \A p \in Party : r # s /\ Claims(r, p) /\ Claims(s, p) => Near(r, s)

Transactions == WantedSeen /\ ReplacedGone /\ ClaimsNear

LinkedStored == \A a \in Archives : row[a].pdf \in bucket \cup {NULL}

ArchiveInv ==
  /\ TypeOK /\ (\A r \in Requests : Good(r, req[r])) /\ Rows
  /\ Transactions /\ PartiesOfOneUpdate /\ CodeUnique /\ LinkedStored

----------------------------------------------------------------------------
LEMMA RequestsAreArchives == Requests \subseteq Archives /\ NULL \notin Requests
  BY NullIsNoValue DEF Archives

\* What a request that becomes x leaves alone.
LEMMA BecomeOnly ==
  ASSUME TypeOK, NEW r \in Requests, NEW x, Become(r, x)
  PROVE  /\ req'[r] = x
         /\ \A s \in Requests \ {r} : req'[s] = req[s]
         /\ x \in RequestState => req' \in [Requests -> RequestState]
  BY DEF Become, TypeOK

\* Claims and nearness of the transactions when only r changes, to a state
\* that claims no more than before.
LEMMA ClaimsFewer ==
  ASSUME ArchiveInv, NEW r \in Requests, NEW x \in RequestState, Become(r, x),
         req[r].with \subseteq x.with, x.pc # "replace",
         x.added = {} \/ (x.added = req[r].added /\ x.gone = req[r].gone)
  PROVE  /\ \A s, t \in Requests : Near(s, t) => Near(s, t)'
         /\ \A s \in Requests : \A p \in Party : Claims(s, p)' => Claims(s, p)
         /\ \A s \in Requests : \A p \in Party :
              Wants(s, p)' => Wants(s, p) /\ req'[s].seen = req[s].seen
         /\ \A s \in Requests : \A p \in Party :
              Has(s, p)' => Has(s, p) /\ req'[s].gone = req[s].gone
<1>1. /\ req'[r] = x
      /\ \A s \in Requests \ {r} : req'[s] = req[s]
  BY BecomeOnly DEF ArchiveInv
<1>2. ASSUME NEW s \in Requests, NEW t \in Requests, Near(s, t) PROVE Near(s, t)'
  BY <1>1, <1>2 DEF Near
<1>3. ASSUME NEW s \in Requests, NEW p \in Party, Wants(s, p)'
      PROVE  Wants(s, p) /\ req'[s].seen = req[s].seen
  BY <1>1, <1>3 DEF Wants, At
<1>4. ASSUME NEW s \in Requests, NEW p \in Party, Has(s, p)'
      PROVE  Has(s, p) /\ req'[s].gone = req[s].gone
  BY <1>1, <1>4 DEF Has
<1> QED  BY <1>2, <1>3, <1>4 DEF Claims

\* A step of a request that only looks, refuses or goes on.
LEMMA LookKeeps ==
  ASSUME ArchiveInv, NEW r \in Requests, ~At(r, "done"), NEW x \in RequestState, Become(r, x),
         UNCHANGED <<row, party, bucket, caught>>, faults' \in Nat, Good(r, x),
         req[r].with \subseteq x.with, x.pc # "replace",
         x.added = {} \/ (x.added = req[r].added /\ x.gone = req[r].gone)
  PROVE  ArchiveInv'
<1>1. /\ req'[r] = x
      /\ \A s \in Requests \ {r} : req'[s] = req[s]
      /\ req' \in [Requests -> RequestState]
  BY BecomeOnly DEF ArchiveInv
<1>2. TypeOK'  BY <1>1 DEF ArchiveInv, TypeOK
<1>3. ASSUME NEW s \in Requests PROVE Good(s, req[s])'
  BY <1>1 DEF ArchiveInv, Good, Shape, Transaction, Stored, Overtaken
<1>4. Rows'  BY <1>1 DEF ArchiveInv, Rows, At
<1>5. party \subseteq Party  BY DEF ArchiveInv, TypeOK
<1>6. WantedSeen'  BY <1>5, ClaimsFewer DEF ArchiveInv, Transactions, WantedSeen, NearBy
<1>7. ReplacedGone'  BY <1>5, ClaimsFewer DEF ArchiveInv, Transactions, ReplacedGone, NearBy
<1>8. ClaimsNear'  BY ClaimsFewer DEF ArchiveInv, Transactions, ClaimsNear
<1>9. PartiesOfOneUpdate'
  BY ClaimsFewer DEF ArchiveInv, PartiesOfOneUpdate, Near
<1>10. CodeUnique' /\ LinkedStored'
  BY DEF ArchiveInv, CodeUnique, LinkedStored, Active
<1> QED
  BY <1>2, <1>3, <1>4, <1>6, <1>7, <1>8, <1>9, <1>10 DEF ArchiveInv, Transactions

\* The record of a request that is answered.
LEMMA AnsweredRecord ==
  ASSUME TypeOK, NEW r \in Requests, NEW result \in Results
  PROVE  LET x == Answered(r, result) IN
         /\ x \in RequestState /\ x.pc = "done" /\ x.result = result /\ x.id = req[r].id
         /\ x.gone = {} /\ x.added = {} /\ x.with = req[r].with
<1>1. req[r] \in RequestState  BY DEF TypeOK
<1> QED  BY <1>1 DEF Answered, RequestState, Results

LEMMA RefuseKeeps ==
  ASSUME ArchiveInv, NEW r \in Requests, ~At(r, "done"), NEW result \in Results,
         Answer(r, result), UNCHANGED <<row, party, bucket, caught>>, faults' \in Nat,
         r \notin bucket \/ result \in {"failed", "notFound"}
  PROVE  ArchiveInv'
<1> DEFINE x == Answered(r, result)
<1>1. /\ x \in RequestState /\ x.pc = "done" /\ x.result = result
      /\ x.gone = {} /\ x.added = {} /\ x.with = req[r].with
  BY AnsweredRecord DEF ArchiveInv
<1>2. Become(r, x)  BY DEF Answer
<1> HIDE DEF x
<1>3. Good(r, x)
  BY <1>1 DEF Good, Shape, Transaction, Stored, Overtaken, OnArchive, Found
<1> QED  BY <1>1, <1>2, <1>3, LookKeeps

\* A request whose PDF is stored, or that has it, is at one of these.
LEMMA NoPdf ==
  ASSUME ArchiveInv, NEW r \in Requests, ~At(r, "done"), ~At(r, "find"), ~At(r, "link")
  PROVE  r \notin bucket
  BY DEF ArchiveInv, Good, Stored, At

LEMMA CountFaults ==
  ASSUME ArchiveInv
  PROVE  (UNCHANGED faults => faults' \in Nat) /\ (Fault => faults' \in Nat)
  BY DEF ArchiveInv, TypeOK, Fault

\* A transaction that is not open has deleted and inserted nothing.
LEMMA NotOpen ==
  ASSUME ArchiveInv, NEW r \in Requests,
         req[r].pc \notin {"snapshot", "replace", "commit"}
  PROVE  req[r].gone = {} /\ req[r].added = {}
  BY DEF ArchiveInv, Good, Transaction

\* A request at a query, without open transaction, becomes x.
LEMMA GoOnKeeps ==
  ASSUME ArchiveInv, NEW r \in Requests, ~At(r, "done"),
         req[r].pc \notin {"snapshot", "replace", "commit"},
         NEW x \in RequestState, Become(r, x),
         UNCHANGED <<row, party, bucket, caught, faults>>,
         x.with = req[r].with, x.pc # "replace", x.added = {}, x.gone = {},
         Shape(r, x), Stored(r, x), Overtaken(r, x)
  PROVE  ArchiveInv'
<1>1. Transaction(r, x)  BY DEF Transaction
<1>2. faults' \in Nat  BY CountFaults
<1> QED  BY <1>1, <1>2, LookKeeps DEF Good

\* A request goes on, with the archive a, to a query at which a was found
\* or need not be.
LEMMA ProceedKeeps ==
  ASSUME ArchiveInv, NEW r \in Requests, ~At(r, "done"),
         req[r].pc \notin {"snapshot", "replace", "commit"},
         NEW a \in Archives, NEW pc \in {"delete", "put", "images", "render", "link"},
         Proceed(r, a, pc), pc \in Found => Active(a),
         IF pc = "link" THEN r \in bucket ELSE r \notin bucket,
         UNCHANGED <<row, party, bucket, caught, faults>>
  PROVE  ArchiveInv'
<1> DEFINE x == [req[r] EXCEPT !.pc = pc, !.id = a]
<1>1. req[r] \in RequestState /\ req[r].gone = {} /\ req[r].added = {}
  BY NotOpen DEF ArchiveInv, TypeOK
<1>2. /\ x \in RequestState /\ x.pc = pc /\ x.id = a /\ x.with = req[r].with
      /\ x.gone = {} /\ x.added = {}
  BY <1>1 DEF RequestState
<1>3. Become(r, x)  BY DEF Proceed
<1> HIDE DEF x
<1>4. Shape(r, x)  BY <1>2 DEF Shape, OnArchive, Found, Active
<1>5. Stored(r, x)  BY <1>2 DEF Stored
<1>6. Overtaken(r, x)  BY <1>2 DEF Overtaken, Active
<1> QED  BY <1>2, <1>3, <1>4, <1>5, <1>6, GoOnKeeps

----------------------------------------------------------------------------
(***************************************************************************)
(* The steps that look up, refuse and go on.                               *)
(***************************************************************************)
LEMMA CreateLookupKeeps ==
  ASSUME ArchiveInv, NEW r \in Requests, NEW c \in Codes, NEW kinds \in SUBSET Kinds,
         CreateLookup(r, c, kinds)
  PROVE  ArchiveInv'
<1> DEFINE x == [req[r] EXCEPT !.pc = "insert", !.code = c, !.kinds = kinds]
<1>1. At(r, "new") /\ UNCHANGED <<row, party, bucket, caught, faults>>  BY DEF CreateLookup
<1>2. /\ req[r] \in RequestState /\ req[r].gone = {} /\ req[r].added = {}
      /\ r \notin bucket /\ row[r] = NoRow
  BY <1>1, NotOpen, NoPdf DEF ArchiveInv, TypeOK, At, Good, Shape
<1>3. Answer(r, "rejected") \/ Become(r, x)  BY DEF CreateLookup, ParticipantsRefused
<1>4. /\ x \in RequestState /\ x.pc = "insert" /\ x.code = c /\ x.with = req[r].with
      /\ x.gone = {} /\ x.added = {}
  BY <1>2 DEF RequestState
<1> HIDE DEF x
<1>5. Shape(r, x) /\ Stored(r, x) /\ Overtaken(r, x)
  BY <1>2, <1>4 DEF Shape, Stored, Overtaken, OnArchive, Found
<1>6. CASE Become(r, x)  BY <1>1, <1>4, <1>5, <1>6, GoOnKeeps DEF At
<1>7. CASE Answer(r, "rejected")
  BY <1>1, <1>2, <1>7, RefuseKeeps, CountFaults DEF At, Results
<1> QED  BY <1>3, <1>6, <1>7

LEMMA UpdateReadKeeps ==
  ASSUME ArchiveInv, NEW r \in Requests, NEW a \in Archives, NEW c \in Codes \cup {NULL},
         NEW kinds \in SUBSET Kinds, UpdateRead(r, a, c, kinds)
  PROVE  ArchiveInv'
<1> DEFINE x == [req[r] EXCEPT !.id = a, !.code = c, !.kinds = kinds, !.pc =
                   IF c \in {NULL, row[a].code} THEN TxStart(kinds) ELSE "checkCode"]
<1>1. At(r, "new") /\ UNCHANGED <<row, party, bucket, caught, faults>>  BY DEF UpdateRead
<1>2. /\ req[r] \in RequestState /\ req[r].gone = {} /\ req[r].added = {}
      /\ r \notin bucket
  BY <1>1, NotOpen, NoPdf DEF ArchiveInv, TypeOK, At
<1>3. \/ Answer(r, "rejected") \/ Answer(r, "notFound")
      \/ Become(r, x) /\ Active(a)
  BY DEF UpdateRead, ParticipantsRefused
<1>4. /\ x \in RequestState /\ x.id = a /\ x.code = c /\ x.kinds = kinds
      /\ x.with = req[r].with /\ x.gone = {} /\ x.added = {}
      /\ \/ x.pc = "checkCode" /\ c \in Codes
         \/ x.pc = "commit"
         \/ x.pc = "snapshot" /\ kinds # {}
  BY <1>2 DEF RequestState, TxStart
<1> HIDE DEF x
<1>5. CASE Become(r, x) /\ Active(a)
  <2>1. Shape(r, x)  BY <1>4, <1>5 DEF Shape, Active
  <2>2. Stored(r, x)  BY <1>2, <1>4 DEF Stored
  <2>3. Overtaken(r, x)  BY <1>4, <1>5 DEF Overtaken, Active
  <2> QED  BY <1>1, <1>4, <1>5, <2>1, <2>2, <2>3, GoOnKeeps DEF At
<1>6. CASE Answer(r, "rejected") \/ Answer(r, "notFound")
  BY <1>1, <1>2, <1>6, RefuseKeeps, CountFaults DEF At, Results
<1> QED  BY <1>3, <1>5, <1>6

LEMMA UpdateCheckCodeKeeps ==
  ASSUME ArchiveInv, NEW r \in Requests, UpdateCheckCode(r)
  PROVE  ArchiveInv'
<1> DEFINE x == [req[r] EXCEPT !.pc = TxStart(req[r].kinds)]
<1>1. At(r, "checkCode") /\ UNCHANGED <<row, party, bucket, caught, faults>>
  BY DEF UpdateCheckCode
<1>2. /\ req[r] \in RequestState /\ req[r].gone = {} /\ req[r].added = {}
      /\ r \notin bucket /\ Shape(r, req[r]) /\ Overtaken(r, req[r])
  BY <1>1, NotOpen, NoPdf DEF ArchiveInv, TypeOK, At, Good
<1>3. Answer(r, "rejected") \/ Become(r, x)  BY DEF UpdateCheckCode
<1>4. /\ x \in RequestState /\ x.id = req[r].id /\ x.kinds = req[r].kinds
      /\ x.with = req[r].with /\ x.gone = {} /\ x.added = {}
      /\ x.pc = "commit" \/ (x.pc = "snapshot" /\ x.kinds # {})
  BY <1>2 DEF RequestState, TxStart
<1> HIDE DEF x
<1>5. Shape(r, x) /\ Stored(r, x) /\ Overtaken(r, x)
  BY <1>1, <1>2, <1>4 DEF Shape, Stored, Overtaken, OnArchive, Found, At
<1>6. CASE Become(r, x)  BY <1>1, <1>4, <1>5, <1>6, GoOnKeeps DEF At
<1>7. CASE Answer(r, "rejected")
  BY <1>1, <1>2, <1>7, RefuseKeeps, CountFaults DEF At, Results
<1> QED  BY <1>3, <1>6, <1>7

LEMMA UnconfirmedKeeps ==
  ASSUME ArchiveInv, NEW r \in Requests, Unconfirmed(r)
  PROVE  ArchiveInv'
<1>1. /\ At(r, "new") /\ Answer(r, "rejected")
      /\ UNCHANGED <<row, party, bucket, caught, faults>>
  BY DEF Unconfirmed
<1> QED  BY <1>1, NoPdf, RefuseKeeps, CountFaults DEF At, Results

LEMMA RemoveReadKeeps ==
  ASSUME ArchiveInv, NEW r \in Requests, NEW a \in Archives, RemoveRead(r, a)
  PROVE  ArchiveInv'
<1>1. At(r, "new") /\ UNCHANGED <<row, party, bucket, caught, faults>>  BY DEF RemoveRead
<1>2. r \notin bucket  BY <1>1, NoPdf DEF At
<1>3. CASE Active(a) /\ Proceed(r, a, "delete")
  BY <1>1, <1>2, <1>3, ProceedKeeps DEF At
<1>4. CASE Answer(r, "notFound")
  BY <1>1, <1>2, <1>4, RefuseKeeps, CountFaults DEF At, Results
<1> QED  BY <1>3, <1>4 DEF RemoveRead

LEMMA UploadKeeps ==
  ASSUME ArchiveInv, NEW r \in Requests, NEW a \in Archives, Upload(r, a) \/ Generate(r, a)
  PROVE  ArchiveInv'
<1>1. At(r, "new") /\ UNCHANGED <<row, party, bucket, caught, faults>>
  BY DEF Upload, Generate
<1>2. r \notin bucket  BY <1>1, NoPdf DEF At
<1>3. CASE Proceed(r, a, "put") \/ Proceed(r, a, "images")
  BY <1>1, <1>2, <1>3, ProceedKeeps DEF At, Found
<1>4. CASE Answer(r, "rejected")
  BY <1>1, <1>2, <1>4, RefuseKeeps, CountFaults DEF At, Results
<1> QED  BY <1>3, <1>4 DEF Upload, Generate, FileRefused

LEMMA GenerateReadKeeps ==
  ASSUME ArchiveInv, NEW r \in Requests, GenerateRead(r)
  PROVE  ArchiveInv'
<1>1. At(r, "images") /\ UNCHANGED <<row, party, bucket, caught, faults>>
  BY DEF GenerateRead
<1>2. r \notin bucket /\ req[r].id \in Archives
  BY <1>1, NoPdf DEF At, ArchiveInv, Good, Shape, OnArchive
<1>3. CASE Active(req[r].id) /\ Proceed(r, req[r].id, "render")
  BY <1>1, <1>2, <1>3, ProceedKeeps DEF At
<1>4. CASE Answer(r, "rejected") \/ Answer(r, "notFound")
  BY <1>1, <1>2, <1>4, RefuseKeeps, CountFaults DEF At, Results
<1> QED  BY <1>3, <1>4 DEF GenerateRead

LEMMA FindKeeps ==
  ASSUME ArchiveInv, NEW r \in Requests, Find(r)
  PROVE  ArchiveInv'
<1>1. At(r, "find") /\ UNCHANGED <<row, party, bucket, caught, faults>>  BY DEF Find
<1>2. req[r].id \in Archives /\ r \in bucket
  BY <1>1 DEF At, ArchiveInv, Good, Shape, OnArchive, Stored
<1>3. CASE Active(req[r].id) /\ Proceed(r, req[r].id, "link")
  BY <1>1, <1>2, <1>3, ProceedKeeps DEF At
<1>4. CASE Answer(r, "notFound")
  BY <1>1, <1>4, RefuseKeeps, CountFaults DEF At, Results
<1> QED  BY <1>3, <1>4 DEF Find

LEMMA FailKeeps ==
  ASSUME ArchiveInv, NEW r \in Requests, Fail(r)
  PROVE  ArchiveInv'
  BY RefuseKeeps, CountFaults DEF Fail, InFlight, At, Results

----------------------------------------------------------------------------
(***************************************************************************)
(* The statements of a transaction.                                        *)
(***************************************************************************)
\* A transaction that claims participants of archive a has begun to write.
LEMMA ClaimsWriting ==
  ASSUME ArchiveInv, NEW s \in Requests, NEW p \in Party, Claims(s, p)
  PROVE  /\ Writing(s, p.archive) /\ req[s].id = p.archive
         /\ req[s].pc \in {"snapshot", "replace", "commit"}
<1>1. Good(s, req[s])  BY DEF ArchiveInv
<1>2. CASE Wants(s, p)  BY <1>2 DEF Wants, Writing, InFlight, At
<1>3. CASE Has(s, p)
  <2>1. req[s].added # {} /\ req[s].id = p.archive  BY <1>1, <1>3 DEF Has, Good, Transaction
  <2>2. req[s].pc \in {"snapshot", "replace", "commit"}
    BY <1>1, <2>1 DEF Good, Transaction
  <2> QED  BY <2>1, <2>2 DEF Writing, InFlight, At
<1> QED  BY <1>2, <1>3 DEF Claims

LEMMA SnapshotKeeps ==
  ASSUME ArchiveInv, NEW r \in Requests, Snapshot(r)
  PROVE  ArchiveInv'
<1> DEFINE seen == {p \in party : p.archive = req[r].id /\ p.kind = NextKind(r)}
           with == req[r].with \cup {s \in Requests \ {r} : Writing(s, req[r].id)}
           x == [req[r] EXCEPT !.pc = "replace", !.seen = seen, !.with = with]
<1>1. At(r, "snapshot") /\ UNCHANGED <<row, party, bucket, caught, faults>>  BY DEF Snapshot
<1>2. req[r] \in RequestState /\ Good(r, req[r])  BY DEF ArchiveInv, TypeOK
<1>3. Become(r, x)  BY DEF Snapshot
<1>4. seen \subseteq Party /\ with \subseteq Requests
  BY <1>2 DEF ArchiveInv, TypeOK, RequestState
<1>5. /\ x \in RequestState /\ x.pc = "replace" /\ x.id = req[r].id
      /\ x.kinds = req[r].kinds /\ x.code = req[r].code /\ x.seen = seen /\ x.with = with
      /\ x.gone = req[r].gone /\ x.added = req[r].added
  BY <1>2, <1>4 DEF RequestState
<1>6. \A p \in party : p.archive = x.id /\ p.kind = First(x.kinds) <=> p \in seen
  BY <1>5 DEF NextKind, First
<1>7. \A s \in Requests \ {r} : Writing(s, req[r].id) => s \in with  OBVIOUS
<1>8. req[r].with \subseteq with  OBVIOUS
<1> HIDE DEF seen, with, x
<1>9. /\ req'[r] = x
      /\ \A s \in Requests \ {r} : req'[s] = req[s]
      /\ req' \in [Requests -> RequestState]
  BY <1>3, <1>5, BecomeOnly DEF ArchiveInv
<1>10. TypeOK'  BY <1>1, <1>9 DEF ArchiveInv, TypeOK
<1>11. Good(r, x)
  <2>1. Shape(r, x)  BY <1>1, <1>2, <1>5 DEF Good, Shape, OnArchive, Found, At
  <2>2. Transaction(r, x)
    <3>1. seen \subseteq party /\ \A p \in seen : p.archive = x.id /\ p.kind = First(x.kinds)
      BY <1>5, <1>6 DEF seen
    <3> QED  BY <1>1, <1>2, <1>5, <3>1 DEF Good, Transaction, At
  <2>3. Stored(r, x) /\ Overtaken(r, x)
    BY <1>1, <1>2, <1>5 DEF Good, Stored, Overtaken, Found, At
  <2> QED  BY <2>1, <2>2, <2>3 DEF Good
<1>12. ASSUME NEW s \in Requests PROVE Good(s, req[s])'
  BY <1>1, <1>9, <1>11 DEF ArchiveInv, Good, Shape, Transaction, Stored, Overtaken
<1>13. Rows'  BY <1>1, <1>9 DEF ArchiveInv, Rows, At
<1>14. ASSUME NEW s \in Requests, NEW t \in Requests, Near(s, t) PROVE Near(s, t)'
  BY <1>5, <1>8, <1>9, <1>14 DEF Near
<1>15. ASSUME NEW s \in Requests, NEW p \in Party, Has(s, p)'
       PROVE  Has(s, p) /\ req'[s].gone = req[s].gone
  BY <1>5, <1>9, <1>15 DEF Has
<1>16. ASSUME NEW s \in Requests \ {r}, NEW p \in Party, Wants(s, p)'
       PROVE  Wants(s, p) /\ req'[s].seen = req[s].seen
  BY <1>9, <1>16 DEF Wants, At
<1>17. party \subseteq Party  BY DEF ArchiveInv, TypeOK
<1>18. WantedSeen'
  <2>1. ASSUME NEW s \in Requests, NEW p \in party, Wants(s, p)'
        PROVE  p \in req'[s].seen \/ NearBy(s, p)'
    <3>1. CASE s = r
      BY <1>5, <1>6, <1>9, <2>1, <3>1 DEF Wants
    <3>2. CASE s # r
      BY <1>14, <1>16, <1>17, <2>1, <3>2 DEF ArchiveInv, Transactions, WantedSeen, NearBy
    <3> QED  BY <3>1, <3>2
  <2> QED  BY <1>1, <2>1 DEF WantedSeen
<1>19. ReplacedGone'
  BY <1>1, <1>14, <1>15, <1>17 DEF ArchiveInv, Transactions, ReplacedGone, NearBy
<1>20. ASSUME NEW s \in Requests \ {r}, NEW p \in Party, Claims(r, p)', Claims(s, p)'
       PROVE  Near(r, s)'
  <2>1. Claims(s, p)  BY <1>15, <1>16, <1>20 DEF Claims
  <2>2. CASE Has(r, p)'
    <3>1. Claims(r, p)  BY <1>15, <2>2 DEF Claims
    <3> QED  BY <1>14, <2>1, <3>1 DEF ArchiveInv, Transactions, ClaimsNear
  <2>3. CASE Wants(r, p)'
    <3>1. p.archive = req[r].id  BY <1>5, <1>9, <2>3 DEF Wants
    <3>2. s \in with  BY <1>7, <2>1, <3>1, ClaimsWriting
    <3> QED  BY <1>5, <1>9, <3>2 DEF Near
  <2> QED  BY <1>20, <2>2, <2>3 DEF Claims
<1>21. ClaimsNear'
  <2>1. ASSUME NEW s \in Requests, NEW t \in Requests, NEW p \in Party,
               s # t, Claims(s, p)', Claims(t, p)'
        PROVE  Near(s, t)'
    <3>1. CASE s = r  BY <1>20, <2>1, <3>1
    <3>2. CASE t = r  BY <1>20, <2>1, <3>2 DEF Near
    <3>3. CASE s # r /\ t # r
      <4>1. Claims(s, p) /\ Claims(t, p)  BY <1>15, <1>16, <2>1, <3>3 DEF Claims
      <4> QED  BY <1>14, <2>1, <4>1 DEF ArchiveInv, Transactions, ClaimsNear
    <3> QED  BY <3>1, <3>2, <3>3
  <2> QED  BY <2>1 DEF ClaimsNear
<1>22. PartiesOfOneUpdate'
  BY <1>1, <1>14 DEF ArchiveInv, PartiesOfOneUpdate, Near
<1>23. CodeUnique' /\ LinkedStored'
  BY <1>1 DEF ArchiveInv, CodeUnique, LinkedStored, Active
<1> QED
  BY <1>10, <1>12, <1>13, <1>18, <1>19, <1>21, <1>22, <1>23 DEF ArchiveInv, Transactions

LEMMA ReplaceKeeps ==
  ASSUME ArchiveInv, NEW r \in Requests, Replace(r)
  PROVE  ArchiveInv'
<1> DEFINE kind == NextKind(r)
           new == [ archive |-> req[r].id, kind |-> kind, by |-> r ]
           rest == req[r].kinds \ {kind}
           gone == req[r].gone \cup (req[r].seen \cap party)
<1>1. At(r, "replace") /\ UNCHANGED <<row, party, bucket, caught, faults>>  BY DEF Replace
<1>2. req[r] \in RequestState /\ Good(r, req[r])  BY DEF ArchiveInv, TypeOK
<1>3. /\ req[r].id \in Archives /\ req[r].kinds # {} /\ req[r].kinds \subseteq Kinds
      /\ kind = First(req[r].kinds) /\ kind \in req[r].kinds
      /\ kind = "beneficiary" => rest = {}
  BY <1>1, <1>2 DEF Good, Shape, OnArchive, At, RequestState, Kinds, NextKind, First
<1>4. new \in Party /\ new.archive = req[r].id /\ new.kind = kind /\ new.by = r
  BY <1>3 DEF Party
<1>5. rest \subseteq Kinds /\ kind \notin rest /\ rest \subseteq req[r].kinds
  BY <1>3
<1>6. gone \subseteq Party  BY <1>2 DEF RequestState
<1>7. PICK list \in { {}, {new} } :
        Become(r, [req[r] EXCEPT !.pc = TxStart(rest), !.kinds = rest, !.seen = {},
                     !.gone = gone, !.added = @ \cup list])
  BY DEF Replace
<1> DEFINE added == req[r].added \cup list
           x == [req[r] EXCEPT !.pc = TxStart(rest), !.kinds = rest, !.seen = {},
                     !.gone = gone, !.added = added]
<1>8. Become(r, x)  BY <1>7
<1>9. added \subseteq Party /\ \A q \in added : q \in req[r].added \/ q = new
  BY <1>2, <1>4 DEF RequestState
<1> HIDE DEF added
<1>10. /\ x \in RequestState /\ x.id = req[r].id /\ x.kinds = rest /\ x.code = req[r].code
       /\ x.seen = {} /\ x.with = req[r].with /\ x.gone = gone /\ x.added = added
       /\ x.pc = "commit" \/ (x.pc = "snapshot" /\ rest # {})
  BY <1>2, <1>5, <1>6, <1>9 DEF RequestState, TxStart
<1>11. \A p \in gone : p \in req[r].gone \/ (p.archive = req[r].id /\ p.kind = kind)
  BY <1>1, <1>2, <1>3 DEF Good, Transaction, At
<1>12. req[r].gone \subseteq gone /\ req[r].seen \cap party \subseteq gone  OBVIOUS
<1> HIDE DEF kind, new, rest, gone, x
<1>13. /\ req'[r] = x
       /\ \A s \in Requests \ {r} : req'[s] = req[s]
       /\ req' \in [Requests -> RequestState]
  BY <1>8, <1>10, BecomeOnly DEF ArchiveInv
<1>14. TypeOK'  BY <1>1, <1>13 DEF ArchiveInv, TypeOK
<1>15. Good(r, x)
  <2>1. Shape(r, x)  BY <1>1, <1>2, <1>10 DEF Good, Shape, OnArchive, Found, At
  <2>2. \A p \in gone : p.archive = x.id /\ p.kind \notin rest
    BY <1>2, <1>5, <1>10, <1>11 DEF Good, Transaction
  <2>3. \A p \in gone : p.kind = "beneficiary" => rest = {}
    BY <1>2, <1>3, <1>11 DEF Good, Transaction
  <2>4. \A p \in added : p.archive = x.id /\ p.by = r
    BY <1>2, <1>4, <1>9, <1>10 DEF Good, Transaction
  <2>5. Transaction(r, x)  BY <1>10, <2>2, <2>3, <2>4 DEF Transaction
  <2>6. Stored(r, x) /\ Overtaken(r, x)
    BY <1>1, <1>2, <1>10 DEF Good, Stored, Overtaken, Found, At
  <2> QED  BY <2>1, <2>5, <2>6 DEF Good
<1>16. ASSUME NEW s \in Requests PROVE Good(s, req[s])'
  BY <1>1, <1>13, <1>15 DEF ArchiveInv, Good, Shape, Transaction, Stored, Overtaken
<1>17. Rows'  BY <1>1, <1>10, <1>13 DEF ArchiveInv, Rows, At
<1>18. ASSUME NEW s \in Requests, NEW t \in Requests PROVE Near(s, t)' <=> Near(s, t)
  BY <1>10, <1>13 DEF Near
<1>19. ASSUME NEW p \in Party, Has(r, p)' PROVE Has(r, p) \/ Wants(r, p)
  BY <1>1, <1>3, <1>4, <1>9, <1>10, <1>13, <1>19 DEF Has, Wants
<1>20. ASSUME NEW p \in Party PROVE ~Wants(r, p)'  BY <1>10, <1>13 DEF Wants, At
<1>21. ASSUME NEW s \in Requests, NEW p \in Party, Claims(s, p)' PROVE Claims(s, p)
  <2>1. CASE s = r  BY <1>19, <1>20, <1>21, <2>1 DEF Claims
  <2>2. CASE s # r  BY <1>13, <1>21, <2>2 DEF Claims, Wants, Has, At
  <2> QED  BY <2>1, <2>2
<1>22. party \subseteq Party  BY DEF ArchiveInv, TypeOK
<1>23. WantedSeen'
  <2>1. ASSUME NEW s \in Requests, NEW p \in party, Wants(s, p)'
        PROVE  p \in req'[s].seen \/ NearBy(s, p)'
    <3>1. s # r  BY <1>20, <1>22, <2>1
    <3>2. Wants(s, p) /\ req'[s].seen = req[s].seen  BY <1>13, <2>1, <3>1 DEF Wants, At
    <3> QED  BY <1>18, <3>2 DEF ArchiveInv, Transactions, WantedSeen, NearBy
  <2> QED  BY <1>1, <2>1 DEF WantedSeen
<1>24. ReplacedGone'
  <2>1. ASSUME NEW s \in Requests, NEW p \in party, Has(s, p)'
        PROVE  p \in req'[s].gone \/ NearBy(s, p)'
    <3>1. CASE s = r
      <4>1. CASE Has(r, p)
        BY <1>10, <1>12, <1>13, <1>18, <3>1, <4>1
        DEF ArchiveInv, Transactions, ReplacedGone, NearBy
      <4>2. CASE Wants(r, p)
        <5>1. p \in req[r].seen \/ NearBy(r, p)
          BY <4>2 DEF ArchiveInv, Transactions, WantedSeen
        <5>2. NearBy(r, p) => NearBy(r, p)'  BY <1>18 DEF NearBy
        <5> QED  BY <1>10, <1>12, <1>13, <3>1, <5>1, <5>2
      <4> QED  BY <1>19, <1>22, <2>1, <3>1, <4>1, <4>2
    <3>2. CASE s # r
      <4>1. Has(s, p) /\ req'[s].gone = req[s].gone  BY <1>13, <2>1, <3>2 DEF Has
      <4> QED  BY <1>18, <4>1 DEF ArchiveInv, Transactions, ReplacedGone, NearBy
    <3> QED  BY <3>1, <3>2
  <2> QED  BY <1>1, <2>1 DEF ReplacedGone
<1>25. ClaimsNear'
  BY <1>18, <1>21 DEF ArchiveInv, Transactions, ClaimsNear
<1>26. PartiesOfOneUpdate'
  BY <1>1, <1>10, <1>13 DEF ArchiveInv, PartiesOfOneUpdate
<1>27. CodeUnique' /\ LinkedStored'
  BY <1>1 DEF ArchiveInv, CodeUnique, LinkedStored, Active
<1> QED
  BY <1>14, <1>16, <1>17, <1>23, <1>24, <1>25, <1>26, <1>27 DEF ArchiveInv, Transactions

----------------------------------------------------------------------------
(***************************************************************************)
(* The steps that write the tables or the bucket.  Each ends the request,  *)
(* except a successful upload.                                             *)
(***************************************************************************)
\* What is left when r is answered.
LEMMA AnswerOnly ==
  ASSUME ArchiveInv, NEW r \in Requests, NEW result \in Results, Answer(r, result)
  PROVE  /\ req' \in [Requests -> RequestState]
         /\ \A s \in Requests \ {r} : req'[s] = req[s]
         /\ req'[r].pc = "done" /\ req'[r].result = result /\ req'[r].id = req[r].id
         /\ req'[r].gone = {} /\ req'[r].added = {} /\ req'[r].with = req[r].with
         /\ \A s, t \in Requests : Near(s, t)' <=> Near(s, t)
         /\ \A p \in Party : ~Claims(r, p)'
         /\ \A s \in Requests \ {r} : \A p \in Party :
              (Wants(s, p)' <=> Wants(s, p)) /\ (Has(s, p)' <=> Has(s, p))
<1> DEFINE x == Answered(r, result)
<1>1. /\ x \in RequestState /\ x.pc = "done" /\ x.result = result /\ x.id = req[r].id
      /\ x.gone = {} /\ x.added = {} /\ x.with = req[r].with
  BY AnsweredRecord DEF ArchiveInv
<1>2. Become(r, x)  BY DEF Answer
<1> HIDE DEF x
<1>3. /\ req'[r] = x
      /\ \A s \in Requests \ {r} : req'[s] = req[s]
      /\ req' \in [Requests -> RequestState]
  BY <1>1, <1>2, BecomeOnly DEF ArchiveInv
<1>4. \A s, t \in Requests : Near(s, t)' <=> Near(s, t)  BY <1>1, <1>3 DEF Near
<1>5. \A p \in Party : ~Claims(r, p)'  BY <1>1, <1>3 DEF Claims, Wants, Has, At
<1>6. \A s \in Requests \ {r} : \A p \in Party :
        (Wants(s, p)' <=> Wants(s, p)) /\ (Has(s, p)' <=> Has(s, p))
  BY <1>3 DEF Wants, Has, At
<1> QED  BY <1>1, <1>3, <1>4, <1>5, <1>6

\* The transactions, when r is answered and the tables of participants stay.
LEMMA SameParties ==
  ASSUME ArchiveInv, NEW r \in Requests, NEW result \in Results, Answer(r, result),
         UNCHANGED party
  PROVE  Transactions' /\ PartiesOfOneUpdate'
<1>1. /\ \A s \in Requests \ {r} : req'[s] = req[s]
      /\ \A s, t \in Requests : Near(s, t)' <=> Near(s, t)
      /\ \A p \in Party : ~Claims(r, p)'
      /\ \A s \in Requests \ {r} : \A p \in Party :
           (Wants(s, p)' <=> Wants(s, p)) /\ (Has(s, p)' <=> Has(s, p))
  BY AnswerOnly
<1>2. party \subseteq Party  BY DEF ArchiveInv, TypeOK
<1>3. ASSUME NEW s \in Requests, NEW p \in party, Wants(s, p)'
      PROVE  p \in req'[s].seen \/ NearBy(s, p)'
  <2>1. s # r  BY <1>1, <1>2, <1>3 DEF Claims
  <2>2. Wants(s, p) /\ req'[s] = req[s]  BY <1>1, <1>2, <1>3, <2>1
  <2> QED  BY <1>1, <2>2 DEF ArchiveInv, Transactions, WantedSeen, NearBy
<1>4. ASSUME NEW s \in Requests, NEW p \in party, Has(s, p)'
      PROVE  p \in req'[s].gone \/ NearBy(s, p)'
  <2>1. s # r  BY <1>1, <1>2, <1>4 DEF Claims
  <2>2. Has(s, p) /\ req'[s] = req[s]  BY <1>1, <1>2, <1>4, <2>1
  <2> QED  BY <1>1, <2>2 DEF ArchiveInv, Transactions, ReplacedGone, NearBy
<1>5. ASSUME NEW s \in Requests, NEW t \in Requests, NEW p \in Party,
             s # t, Claims(s, p)', Claims(t, p)'
      PROVE  Near(s, t)'
  <2>1. s # r /\ t # r  BY <1>1, <1>5
  <2>2. Claims(s, p) /\ Claims(t, p)  BY <1>1, <1>5, <2>1 DEF Claims
  <2> QED  BY <1>1, <1>5, <2>2 DEF ArchiveInv, Transactions, ClaimsNear
<1>6. PartiesOfOneUpdate'  BY <1>1 DEF ArchiveInv, PartiesOfOneUpdate, Near
<1> QED
  BY <1>3, <1>4, <1>5, <1>6 DEF Transactions, WantedSeen, ReplacedGone, ClaimsNear

LEMMA CreateInsertKeeps ==
  ASSUME ArchiveInv, NEW r \in Requests, CreateInsert(r)
  PROVE  ArchiveInv'
<1>1. /\ At(r, "insert") /\ UNCHANGED <<bucket, caught, faults>> /\ r \notin bucket
      /\ req[r] \in RequestState /\ req[r].code \in Codes /\ row[r] = NoRow
      /\ r \in Archives
  BY NoPdf, RequestsAreArchives DEF CreateInsert, ArchiveInv, TypeOK, Good, Shape, At
<1>2. CASE Answer(r, "rejected") /\ UNCHANGED <<row, party>>
  BY <1>1, <1>2, RefuseKeeps, CountFaults DEF At, Results
<1>3. CASE /\ CodeFree(req[r].code, r)
           /\ row' = [row EXCEPT ![r] =
                [ state |-> "active", code |-> req[r].code, pdf |-> NULL ]]
           /\ party' = party \cup { [ archive |-> r, kind |-> k, by |-> r ] : k \in req[r].kinds }
           /\ Answer(r, "ok")
  <2>1. /\ req' \in [Requests -> RequestState]
        /\ \A s \in Requests \ {r} : req'[s] = req[s]
        /\ req'[r].pc = "done" /\ req'[r].result = "ok"
        /\ req'[r].gone = {} /\ req'[r].added = {} /\ req'[r].with = req[r].with
        /\ \A s, t \in Requests : Near(s, t)' <=> Near(s, t)
        /\ \A p \in Party : ~Claims(r, p)'
        /\ \A s \in Requests \ {r} : \A p \in Party :
             (Wants(s, p)' <=> Wants(s, p)) /\ (Has(s, p)' <=> Has(s, p))
    BY <1>3, AnswerOnly DEF Results
  <2>2. /\ row' \in [Archives -> Row]
        /\ row'[r].state = "active" /\ row'[r].code = req[r].code /\ row'[r].pdf = NULL
        /\ \A a \in Archives \ {r} : row'[a] = row[a]
    BY <1>1, <1>3 DEF ArchiveInv, TypeOK, Row
  <2>3. row[r].state = "absent" /\ row[r].pdf = NULL  BY <1>1 DEF NoRow
  <2>4. /\ party' \subseteq Party /\ party \subseteq party' /\ party \subseteq Party
        /\ \A p \in party' : p \in party \/ (p.archive = r /\ p.by = r)
        /\ \A p \in party : p.archive # r
    <3>1. \A k \in req[r].kinds : [ archive |-> r, kind |-> k, by |-> r ] \in Party
      BY <1>1 DEF RequestState, Party
    <3>2. \A p \in party : p.archive # r  BY <2>3 DEF ArchiveInv, Rows
    <3> QED  BY <1>3, <3>1, <3>2 DEF ArchiveInv, TypeOK
  <2>5. TypeOK'  BY <1>1, <2>1, <2>2, <2>4 DEF ArchiveInv, TypeOK
  <2>6. ASSUME NEW s \in Requests PROVE Good(s, req[s])'
    <3>1. CASE s = r
      BY <1>1, <2>1, <3>1
      DEF Good, Shape, Transaction, Stored, Overtaken, OnArchive, Found
    <3>2. CASE s # r
      <4>1. req'[s] = req[s] /\ Good(s, req[s])  BY <2>1, <3>2 DEF ArchiveInv
      <4>2. s \in Archives  BY RequestsAreArchives
      <4>3. Shape(s, req[s])'
        BY <2>2, <2>3, <3>2, <4>1, <4>2 DEF Good, Shape, OnArchive, Found
      <4>4. Transaction(s, req[s])'  BY <4>1 DEF Good, Transaction
      <4>5. Stored(s, req[s])'  BY <1>1, <2>2, <2>3, <4>1 DEF Good, Stored
      <4>6. Overtaken(s, req[s])'
        BY <1>1, <2>2, <2>3, <4>1 DEF Good, Shape, Overtaken, OnArchive, Found
      <4> QED  BY <4>3, <4>4, <4>5, <4>6 DEF Good
    <3> QED  BY <3>1, <3>2
  <2>7. Rows'
    <3>1. \A a \in Archives : row'[a].state = "absent" => row'[a] = NoRow
      BY <2>2 DEF ArchiveInv, Rows
    <3>2. ASSUME NEW p \in party' PROVE row'[p.archive].state # "absent"
      <4>1. p.archive \in Archives  BY <2>4 DEF Party
      <4> QED  BY <2>2, <2>4, <4>1 DEF ArchiveInv, Rows
    <3>3. ASSUME NEW p \in party', p.by \in Requests PROVE At(p.by, "done")'
      BY <2>1, <2>4, <3>3 DEF ArchiveInv, Rows, At
    <3> QED  BY <3>1, <3>2, <3>3 DEF Rows
  <2>8. ASSUME NEW s \in Requests, NEW p \in Party, Claims(s, p)'
        PROVE  s # r /\ Claims(s, p) /\ p.archive # r
    <3>1. s # r /\ Claims(s, p)  BY <2>1, <2>8 DEF Claims
    <3>2. /\ req[s].id = p.archive
          /\ req[s].pc \in {"snapshot", "replace", "commit"}
      BY <3>1, ClaimsWriting
    <3>3. row[req[s].id].state # "absent"
      BY <3>2 DEF ArchiveInv, Good, Shape, Found
    <3> QED  BY <2>3, <3>1, <3>2, <3>3
  <2>9. ASSUME NEW s \in Requests, NEW p \in party', Wants(s, p)'
        PROVE  p \in req'[s].seen \/ NearBy(s, p)'
    <3>1. p \in party /\ s # r  BY <2>4, <2>8, <2>9 DEF Claims
    <3>2. Wants(s, p) /\ req'[s] = req[s]  BY <2>1, <2>4, <2>9, <3>1
    <3> QED  BY <2>1, <3>1, <3>2 DEF ArchiveInv, Transactions, WantedSeen, NearBy
  <2>10. ASSUME NEW s \in Requests, NEW p \in party', Has(s, p)'
         PROVE  p \in req'[s].gone \/ NearBy(s, p)'
    <3>1. p \in party /\ s # r  BY <2>4, <2>8, <2>10 DEF Claims
    <3>2. Has(s, p) /\ req'[s] = req[s]  BY <2>1, <2>4, <2>10, <3>1
    <3> QED  BY <2>1, <3>1, <3>2 DEF ArchiveInv, Transactions, ReplacedGone, NearBy
  <2>11. ClaimsNear'  BY <2>1, <2>8 DEF ArchiveInv, Transactions, ClaimsNear
  <2>12. ASSUME NEW p \in party', NEW q \in party', p.archive = q.archive, p.kind = q.kind,
                p.by # q.by
         PROVE  p \in party /\ q \in party
    BY <2>4, <2>12
  <2>13. PartiesOfOneUpdate'
    BY <2>1, <2>12 DEF ArchiveInv, PartiesOfOneUpdate, Near
  <2>14. CodeUnique'
    <3>1. \A a \in Archives : a # r /\ Active(a) => row[a].code # req[r].code
      BY <1>3 DEF CodeFree
    <3> QED  BY <2>2, <3>1 DEF ArchiveInv, CodeUnique, Active
  <2>15. LinkedStored'  BY <1>1, <2>2 DEF ArchiveInv, LinkedStored
  <2> QED
    BY <2>5, <2>6, <2>7, <2>9, <2>10, <2>11, <2>13, <2>14, <2>15
    DEF ArchiveInv, Transactions, WantedSeen, ReplacedGone
<1> QED  BY <1>2, <1>3 DEF CreateInsert

\* What a commit does to the rows and to the participants of its archive.
LEMMA CommitKeeps ==
  ASSUME ArchiveInv, NEW r \in Requests, Commit(r)
  PROVE  ArchiveInv'
<1> DEFINE a == req[r].id
           c == IF req[r].code = NULL THEN row[a].code ELSE req[r].code
<1>1. /\ At(r, "commit") /\ UNCHANGED <<bucket, caught, faults>> /\ r \notin bucket
      /\ req[r] \in RequestState /\ Good(r, req[r])
  BY NoPdf DEF Commit, ArchiveInv, TypeOK, At
<1>2. a \in Archives /\ row[a].state # "absent" /\ a # NULL
  BY <1>1, NullIsNoValue DEF Good, Shape, OnArchive, Found, At
<1>3. c \in Codes \cup {NULL}  BY <1>1, <1>2 DEF RequestState, ArchiveInv, TypeOK, Row
<1>4. \/ Answer(r, "rejected") /\ UNCHANGED <<row, party>>
      \/ /\ Active(a) => CodeFree(c, a)
         /\ row' = [row EXCEPT ![a].code = c]
         /\ party' = (party \ req[r].gone) \cup req[r].added
         /\ Answer(r, "ok")
  BY DEF Commit
<1> HIDE DEF c
<1>5. CASE Answer(r, "rejected") /\ UNCHANGED <<row, party>>
  BY <1>1, <1>5, RefuseKeeps, CountFaults DEF At, Results
<1>6. CASE /\ Active(a) => CodeFree(c, a)
           /\ row' = [row EXCEPT ![a].code = c]
           /\ party' = (party \ req[r].gone) \cup req[r].added
           /\ Answer(r, "ok")
  <2>1. /\ req' \in [Requests -> RequestState]
        /\ \A s \in Requests \ {r} : req'[s] = req[s]
        /\ req'[r].pc = "done" /\ req'[r].result = "ok"
        /\ req'[r].gone = {} /\ req'[r].added = {} /\ req'[r].with = req[r].with
        /\ \A s, t \in Requests : Near(s, t)' <=> Near(s, t)
        /\ \A p \in Party : ~Claims(r, p)'
        /\ \A s \in Requests \ {r} : \A p \in Party :
             (Wants(s, p)' <=> Wants(s, p)) /\ (Has(s, p)' <=> Has(s, p))
    BY <1>6, AnswerOnly DEF Results
  <2>2. /\ row' \in [Archives -> Row]
        /\ row'[a].code = c
        /\ \A b \in Archives : row'[b].state = row[b].state /\ row'[b].pdf = row[b].pdf
        /\ \A b \in Archives \ {a} : row'[b] = row[b]
    BY <1>2, <1>3, <1>6 DEF ArchiveInv, TypeOK, Row
  <2>3. /\ party' \subseteq Party /\ party \subseteq Party
        /\ \A p \in party' :
             \/ p \in party \ req[r].gone
             \/ p \in req[r].added /\ p.archive = a /\ p.by = r /\ Has(r, p)
    <3>1. \A p \in req[r].added : p \in Party /\ p.archive = a /\ p.by = r /\ Has(r, p)
      BY <1>1 DEF Good, Transaction, RequestState, Has
    <3> QED  BY <1>6, <3>1 DEF ArchiveInv, TypeOK
  <2>4. TypeOK'  BY <1>1, <2>1, <2>2, <2>3 DEF ArchiveInv, TypeOK
  <2>5. ASSUME NEW s \in Requests PROVE Good(s, req[s])'
    <3>1. CASE s = r
      BY <1>1, <2>1, <3>1
      DEF Good, Shape, Transaction, Stored, Overtaken, OnArchive, Found
    <3>2. CASE s # r
      <4>1. req'[s] = req[s] /\ Good(s, req[s])  BY <2>1, <3>2 DEF ArchiveInv
      <4>2. s \in Archives /\ (row[s] = NoRow => row'[s] = NoRow)
        BY <1>2, <2>2, RequestsAreArchives DEF NoRow
      <4>3. Shape(s, req[s])'  BY <2>2, <4>1, <4>2 DEF Good, Shape, OnArchive, Found
      <4>4. Transaction(s, req[s])'  BY <4>1 DEF Good, Transaction
      <4>5. Stored(s, req[s])'  BY <1>1, <2>2, <4>1 DEF Good, Stored
      <4>6. Overtaken(s, req[s])'
        BY <1>1, <2>2, <4>1 DEF Good, Shape, Overtaken, OnArchive, Found
      <4> QED  BY <4>3, <4>4, <4>5, <4>6 DEF Good
    <3> QED  BY <3>1, <3>2
  <2>6. Rows'
    <3>1. \A b \in Archives : row'[b].state = "absent" => row'[b] = NoRow
      BY <1>2, <2>2 DEF ArchiveInv, Rows
    <3>2. ASSUME NEW p \in party' PROVE row'[p.archive].state # "absent"
      <4>1. p.archive \in Archives  BY <2>3 DEF Party
      <4> QED  BY <1>2, <2>2, <2>3, <4>1 DEF ArchiveInv, Rows
    <3>3. ASSUME NEW p \in party', p.by \in Requests PROVE At(p.by, "done")'
      BY <2>1, <2>3, <3>3 DEF ArchiveInv, Rows, At
    <3> QED  BY <3>1, <3>2, <3>3 DEF Rows
  <2>7. ASSUME NEW s \in Requests, NEW p \in Party, Claims(s, p)'
        PROVE  s # r /\ Claims(s, p) /\ (Has(r, p) => Near(s, r))
    <3>1. s # r /\ Claims(s, p)  BY <2>1, <2>7 DEF Claims
    <3>2. Has(r, p) => Near(s, r)
      BY <3>1 DEF ArchiveInv, Transactions, ClaimsNear, Claims
    <3> QED  BY <3>1, <3>2
  <2>8. ASSUME NEW s \in Requests, NEW p \in party', Wants(s, p)'
        PROVE  p \in req'[s].seen \/ NearBy(s, p)'
    <3>1. s # r /\ (Has(r, p) => Near(s, r))  BY <2>3, <2>7, <2>8 DEF Claims
    <3>2. Wants(s, p) /\ req'[s] = req[s]  BY <2>1, <2>3, <2>8, <3>1
    <3>3. CASE p \in party
      BY <2>1, <3>2, <3>3 DEF ArchiveInv, Transactions, WantedSeen, NearBy
    <3>4. CASE p.by = r /\ Has(r, p)
      BY <2>1, <3>1, <3>4 DEF NearBy
    <3> QED  BY <2>3, <3>3, <3>4
  <2>9. ASSUME NEW s \in Requests, NEW p \in party', Has(s, p)'
        PROVE  p \in req'[s].gone \/ NearBy(s, p)'
    <3>1. s # r /\ (Has(r, p) => Near(s, r))  BY <2>3, <2>7, <2>9 DEF Claims
    <3>2. Has(s, p) /\ req'[s] = req[s]  BY <2>1, <2>3, <2>9, <3>1
    <3>3. CASE p \in party
      BY <2>1, <3>2, <3>3 DEF ArchiveInv, Transactions, ReplacedGone, NearBy
    <3>4. CASE p.by = r /\ Has(r, p)
      BY <2>1, <3>1, <3>4 DEF NearBy
    <3> QED  BY <2>3, <3>3, <3>4
  <2>10. ClaimsNear'  BY <2>1, <2>7 DEF ArchiveInv, Transactions, ClaimsNear
  <2>11. PartiesOfOneUpdate'
    <3>1. ASSUME NEW p \in party \ req[r].gone, NEW q \in req[r].added,
                 p.archive = q.archive, p.kind = q.kind
          PROVE  NearBy(r, p)
      BY <3>1 DEF ArchiveInv, Transactions, ReplacedGone, Has
    <3>2. ASSUME NEW p \in party', NEW q \in party', p.archive = q.archive,
                 p.kind = q.kind, p.by # q.by
          PROVE  p.by \in Requests /\ q.by \in Requests /\ Near(p.by, q.by)
      <4>1. CASE p \in party \ req[r].gone /\ q \in party \ req[r].gone
        BY <3>2, <4>1 DEF ArchiveInv, PartiesOfOneUpdate, Near
      <4>2. CASE p \in party \ req[r].gone /\ q \in req[r].added /\ q.by = r
        BY <3>1, <3>2, <4>2 DEF NearBy, Near
      <4>3. CASE q \in party \ req[r].gone /\ p \in req[r].added /\ p.by = r
        BY <3>1, <3>2, <4>3 DEF NearBy, Near
      <4> QED  BY <2>3, <3>2, <4>1, <4>2, <4>3
    <3>3. ASSUME NEW p \in party', NEW q \in party', p.archive = q.archive,
                 p.kind = q.kind, p.by # q.by
          PROVE  p.by \in Requests /\ q.by \in Requests /\ Near(p.by, q.by)'
      BY <2>1, <3>2, <3>3
    <3> QED  BY <3>3 DEF PartiesOfOneUpdate, Near
  <2>12. CodeUnique'
    <3>1. Active(a) => \A b \in Archives : Active(b) /\ b # a => row[b].code # c
      BY <1>6 DEF CodeFree
    <3> QED  BY <1>2, <2>2, <3>1 DEF ArchiveInv, CodeUnique, Active
  <2>13. LinkedStored'  BY <1>1, <2>2 DEF ArchiveInv, LinkedStored
  <2> QED
    BY <2>4, <2>5, <2>6, <2>8, <2>9, <2>10, <2>11, <2>12, <2>13
    DEF ArchiveInv, Transactions, WantedSeen, ReplacedGone
<1> QED  BY <1>4, <1>5, <1>6

LEMMA RemoveRowKeeps ==
  ASSUME ArchiveInv, NEW r \in Requests, RemoveRow(r)
  PROVE  ArchiveInv'
<1> DEFINE a == req[r].id
           under == IF Active(a) THEN {s \in Requests : InFlight(s)} ELSE caught[a]
<1>1. /\ At(r, "delete") /\ UNCHANGED <<party, bucket, faults>> /\ r \notin bucket
      /\ Answer(r, "ok")
      /\ row' = [row EXCEPT ![a].state = "deleted"]
      /\ caught' = [caught EXCEPT ![a] = under]
  BY NoPdf DEF RemoveRow, At
<1>2. a \in Archives /\ row[a].state # "absent"
  BY <1>1 DEF ArchiveInv, Good, Shape, OnArchive, Found, At
<1>3. under \subseteq Requests  BY <1>2 DEF ArchiveInv, TypeOK
<1>4. ASSUME NEW s \in Requests, req[s].pc \in Found, req[s].id = a PROVE s \in under
  <2>1. InFlight(s)  BY <1>4 DEF InFlight, At, Found
  <2>2. ~Active(a) => row[a].state = "deleted"
    BY <1>2 DEF Active, ArchiveInv, TypeOK, Row
  <2> QED  BY <1>4, <2>1, <2>2 DEF ArchiveInv, Good, Overtaken
<1> HIDE DEF under
<1>5. /\ req' \in [Requests -> RequestState]
      /\ \A s \in Requests \ {r} : req'[s] = req[s]
      /\ req'[r].pc = "done" /\ req'[r].gone = {} /\ req'[r].added = {}
  BY <1>1, AnswerOnly DEF Results
<1>6. /\ row' \in [Archives -> Row]
      /\ row'[a].state = "deleted"
      /\ \A b \in Archives : row'[b].code = row[b].code /\ row'[b].pdf = row[b].pdf
      /\ \A b \in Archives \ {a} : row'[b] = row[b]
  BY <1>1, <1>2 DEF ArchiveInv, TypeOK, Row
<1>7. /\ caught' \in [Archives -> SUBSET Requests]
      /\ caught'[a] = under
      /\ \A b \in Archives \ {a} : caught'[b] = caught[b]
  BY <1>1, <1>2, <1>3 DEF ArchiveInv, TypeOK
<1>8. TypeOK'  BY <1>1, <1>5, <1>6, <1>7 DEF ArchiveInv, TypeOK
<1>9. ASSUME NEW s \in Requests PROVE Good(s, req[s])'
  <2>1. CASE s = r
    BY <1>1, <1>5, <2>1 DEF Good, Shape, Transaction, Stored, Overtaken, OnArchive, Found
  <2>2. CASE s # r
    <3>1. req'[s] = req[s] /\ Good(s, req[s])  BY <1>5, <2>2 DEF ArchiveInv
    <3>2. s \in Archives /\ (row[s] = NoRow => row'[s] = NoRow)
      BY <1>2, <1>6, RequestsAreArchives DEF NoRow
    <3>3. Shape(s, req[s])'  BY <1>6, <3>1, <3>2 DEF Good, Shape, OnArchive, Found
    <3>4. Transaction(s, req[s])'  BY <3>1 DEF Good, Transaction
    <3>5. Stored(s, req[s])'  BY <1>1, <1>6, <3>1 DEF Good, Stored
    <3>6. Overtaken(s, req[s])'
      BY <1>4, <1>6, <1>7, <3>1 DEF Good, Shape, Overtaken, OnArchive, Found
    <3> QED  BY <3>3, <3>4, <3>5, <3>6 DEF Good
  <2> QED  BY <2>1, <2>2
<1>10. Rows'
  <2>1. \A b \in Archives : row'[b].state = "absent" => row'[b] = NoRow
    BY <1>6 DEF ArchiveInv, Rows
  <2>2. ASSUME NEW p \in party PROVE row'[p.archive].state # "absent"
    <3>1. p.archive \in Archives  BY DEF ArchiveInv, TypeOK, Party
    <3> QED  BY <1>6, <3>1 DEF ArchiveInv, Rows
  <2>3. ASSUME NEW p \in party, p.by \in Requests PROVE At(p.by, "done")'
    BY <1>5, <2>3 DEF ArchiveInv, Rows, At
  <2> QED  BY <1>1, <2>1, <2>2, <2>3 DEF Rows
<1>11. Transactions' /\ PartiesOfOneUpdate'  BY <1>1, SameParties DEF Results
<1>12. CodeUnique'  BY <1>6 DEF ArchiveInv, CodeUnique, Active
<1>13. LinkedStored'  BY <1>1, <1>6 DEF ArchiveInv, LinkedStored
<1> QED  BY <1>8, <1>9, <1>10, <1>11, <1>12, <1>13 DEF ArchiveInv

LEMMA LinkKeeps ==
  ASSUME ArchiveInv, NEW r \in Requests, Link(r)
  PROVE  ArchiveInv'
<1> DEFINE a == req[r].id
<1>1. /\ At(r, "link") /\ UNCHANGED <<party, bucket, caught, faults>> /\ Answer(r, "ok")
      /\ row' = [row EXCEPT ![a].pdf = r]
  BY DEF Link
<1>2. a \in Archives /\ row[a].state # "absent" /\ r \in bucket
  BY <1>1 DEF ArchiveInv, Good, Shape, Stored, OnArchive, Found, At
<1>3. /\ req' \in [Requests -> RequestState]
      /\ \A s \in Requests \ {r} : req'[s] = req[s]
      /\ req'[r].pc = "done" /\ req'[r].result = "ok" /\ req'[r].id = a
      /\ req'[r].gone = {} /\ req'[r].added = {}
  BY <1>1, AnswerOnly DEF Results
<1>4. /\ row' \in [Archives -> Row]
      /\ row'[a].pdf = r /\ r # NULL
      /\ \A b \in Archives : row'[b].state = row[b].state /\ row'[b].code = row[b].code
      /\ \A b \in Archives \ {a} : row'[b] = row[b]
  BY <1>1, <1>2, RequestsAreArchives DEF ArchiveInv, TypeOK, Row
<1>5. TypeOK'  BY <1>1, <1>3, <1>4 DEF ArchiveInv, TypeOK
<1>6. ASSUME NEW s \in Requests PROVE Good(s, req[s])'
  <2>1. CASE s = r
    <3>1. Stored(r, req[r])'  BY <1>2, <1>3, <1>4 DEF Stored
    <3> QED
      BY <1>3, <2>1, <3>1 DEF Good, Shape, Transaction, Overtaken, OnArchive, Found
  <2>2. CASE s # r
    <3>1. req'[s] = req[s] /\ Good(s, req[s])  BY <1>3, <2>2 DEF ArchiveInv
    <3>2. s \in Archives /\ (row[s] = NoRow => row'[s] = NoRow)
      BY <1>2, <1>4, RequestsAreArchives DEF NoRow
    <3>3. Shape(s, req[s])'  BY <1>4, <3>1, <3>2 DEF Good, Shape, OnArchive, Found
    <3>4. Transaction(s, req[s])'  BY <3>1 DEF Good, Transaction
    <3>5. Stored(s, req[s])'  BY <1>1, <1>4, <3>1 DEF Good, Stored
    <3>6. Overtaken(s, req[s])'
      BY <1>1, <1>4, <3>1 DEF Good, Shape, Overtaken, OnArchive, Found
    <3> QED  BY <3>3, <3>4, <3>5, <3>6 DEF Good
  <2> QED  BY <2>1, <2>2
<1>7. Rows'
  <2>1. \A b \in Archives : row'[b].state = "absent" => row'[b] = NoRow
    BY <1>2, <1>4 DEF ArchiveInv, Rows
  <2>2. ASSUME NEW p \in party PROVE row'[p.archive].state # "absent"
    <3>1. p.archive \in Archives  BY DEF ArchiveInv, TypeOK, Party
    <3> QED  BY <1>4, <3>1 DEF ArchiveInv, Rows
  <2>3. ASSUME NEW p \in party, p.by \in Requests PROVE At(p.by, "done")'
    BY <1>3, <2>3 DEF ArchiveInv, Rows, At
  <2> QED  BY <1>1, <2>1, <2>2, <2>3 DEF Rows
<1>8. Transactions' /\ PartiesOfOneUpdate'  BY <1>1, SameParties DEF Results
<1>9. CodeUnique'  BY <1>4 DEF ArchiveInv, CodeUnique, Active
<1>10. LinkedStored'  BY <1>1, <1>2, <1>4 DEF ArchiveInv, LinkedStored
<1> QED  BY <1>5, <1>6, <1>7, <1>8, <1>9, <1>10 DEF ArchiveInv

LEMMA PutKeeps ==
  ASSUME ArchiveInv, NEW r \in Requests, Put(r)
  PROVE  ArchiveInv'
<1> DEFINE pc == IF At(r, "put") THEN "find" ELSE "link"
           x == [req[r] EXCEPT !.pc = pc]
<1>1. /\ At(r, "put") \/ At(r, "render")
      /\ UNCHANGED <<row, party, caught>>
      /\ req[r] \in RequestState /\ Good(r, req[r])
      /\ req[r].gone = {} /\ req[r].added = {}
  BY NotOpen DEF Put, ArchiveInv, TypeOK, At
<1>2. /\ x \in RequestState /\ x.pc = pc /\ x.id = req[r].id /\ x.with = req[r].with
      /\ x.gone = {} /\ x.added = {}
      /\ (At(r, "put") /\ x.pc = "find") \/ (At(r, "render") /\ x.pc = "link")
  BY <1>1 DEF RequestState, At
<1>3. \/ bucket' = bucket \cup {r} /\ Become(r, x) /\ UNCHANGED faults
      \/ bucket' \in {bucket, bucket \cup {r}} /\ Answer(r, "failed") /\ Fault
  BY DEF Put
<1> HIDE DEF x, pc
<1>4. /\ bucket \subseteq bucket' /\ bucket' \subseteq bucket \cup {r}
      /\ faults' \in Nat
  BY <1>3, CountFaults
<1>5. /\ req' \in [Requests -> RequestState]
      /\ \A s \in Requests \ {r} : req'[s] = req[s]
      /\ req'[r].gone = {} /\ req'[r].added = {} /\ req'[r].id = req[r].id
      /\ req'[r].with = req[r].with
      /\ \/ At(r, "put") /\ req'[r].pc = "find" /\ r \in bucket'
         \/ At(r, "render") /\ req'[r].pc = "link" /\ r \in bucket'
         \/ req'[r].pc = "done" /\ req'[r].result = "failed"
  <2>1. CASE bucket' = bucket \cup {r} /\ Become(r, x)
    <3>1. /\ req'[r] = x /\ req' \in [Requests -> RequestState]
          /\ \A s \in Requests \ {r} : req'[s] = req[s]
      BY <1>2, <2>1, BecomeOnly DEF ArchiveInv
    <3> QED  BY <1>2, <2>1, <3>1
  <2>2. CASE Answer(r, "failed")  BY <2>2, AnswerOnly DEF Results
  <2> QED  BY <1>3, <2>1, <2>2
<1>6. TypeOK'  BY <1>1, <1>4, <1>5 DEF ArchiveInv, TypeOK
<1>7. ASSUME NEW s \in Requests PROVE Good(s, req[s])'
  <2>1. CASE s = r
    BY <1>1, <1>5, <2>1
    DEF Good, Shape, Transaction, Stored, Overtaken, OnArchive, Found, At
  <2>2. CASE s # r
    <3>1. req'[s] = req[s] /\ Good(s, req[s]) /\ (s \in bucket' <=> s \in bucket)
      BY <1>4, <1>5, <2>2 DEF ArchiveInv
    <3> QED  BY <1>1, <3>1 DEF Good, Shape, Transaction, Stored, Overtaken
  <2> QED  BY <2>1, <2>2
<1>8. Rows'
  BY <1>1, <1>5 DEF ArchiveInv, Rows, At
<1>9. \A s, t \in Requests : Near(s, t)' <=> Near(s, t)  BY <1>5 DEF Near
<1>10. ASSUME NEW s \in Requests, NEW p \in Party, Claims(s, p)'
       PROVE  s # r /\ req'[s] = req[s] /\ (Wants(s, p)' => Wants(s, p))
              /\ (Has(s, p)' => Has(s, p)) /\ Claims(s, p)
  BY <1>5, <1>10 DEF Claims, Wants, Has, At
<1>11. party \subseteq Party  BY DEF ArchiveInv, TypeOK
<1>12. ASSUME NEW s \in Requests, NEW p \in party, Wants(s, p)'
       PROVE  p \in req'[s].seen \/ NearBy(s, p)'
  <2>1. Wants(s, p) /\ req'[s] = req[s]  BY <1>10, <1>11, <1>12 DEF Claims
  <2> QED  BY <1>9, <2>1 DEF ArchiveInv, Transactions, WantedSeen, NearBy
<1>13. ASSUME NEW s \in Requests, NEW p \in party, Has(s, p)'
       PROVE  p \in req'[s].gone \/ NearBy(s, p)'
  <2>1. Has(s, p) /\ req'[s] = req[s]  BY <1>10, <1>11, <1>13 DEF Claims
  <2> QED  BY <1>9, <2>1 DEF ArchiveInv, Transactions, ReplacedGone, NearBy
<1>14. ClaimsNear'  BY <1>9, <1>10 DEF ArchiveInv, Transactions, ClaimsNear
<1>15. PartiesOfOneUpdate'  BY <1>1, <1>9 DEF ArchiveInv, PartiesOfOneUpdate, Near
<1>16. CodeUnique' /\ LinkedStored'
  BY <1>1, <1>4 DEF ArchiveInv, CodeUnique, LinkedStored, Active
<1> QED
  BY <1>1, <1>6, <1>7, <1>8, <1>12, <1>13, <1>14, <1>15, <1>16
  DEF ArchiveInv, Transactions, WantedSeen, ReplacedGone

----------------------------------------------------------------------------
LEMMA InitInv == Init => ArchiveInv
<1> SUFFICES ASSUME Init PROVE ArchiveInv  OBVIOUS
<1>1. PICK code \in [Seeds -> Codes] :
        /\ \A a, b \in Seeds : code[a] = code[b] => a = b
        /\ row = [a \in Archives |->
                   IF a \in Seeds THEN [ state |-> "active", code |-> code[a], pdf |-> NULL ]
                                 ELSE NoRow]
  BY DEF Init
<1>2. Seeds \subseteq Archives /\ Requests \cap Seeds = {}
  BY SeedsAreNoRequests DEF Archives
<1>3. NewRequest \in RequestState  BY DEF NewRequest, RequestState
<1>4. ASSUME NEW a \in Archives
      PROVE  /\ row[a] \in Row /\ row[a].pdf = NULL
             /\ a \in Seeds => row[a].state = "active" /\ row[a].code = code[a]
             /\ a \notin Seeds => row[a] = NoRow /\ row[a].state = "absent"
  BY <1>1 DEF Row, NoRow
<1>5. party \subseteq Party /\ \A p \in party : p.archive \in Seeds /\ p.by = NULL
  BY <1>2 DEF Init, Party
<1>6. \A r \in Requests : req[r] = NewRequest  BY DEF Init
<1>7. TypeOK
  <2>1. row \in [Archives -> Row]  BY <1>1, <1>4
  <2> QED  BY <1>3, <1>5, <2>1 DEF Init, TypeOK
<1>8. ASSUME NEW r \in Requests PROVE Good(r, req[r])
  <2>1. row[r] = NoRow /\ r \notin bucket
    BY <1>2, <1>4, RequestsAreArchives DEF Init
  <2> QED
    BY <1>6, <2>1
    DEF Good, Shape, Transaction, Stored, Overtaken, NewRequest, OnArchive, Found
<1>9. Rows  BY <1>2, <1>4, <1>5, RequestsAreArchives DEF Rows
<1>10. \A r \in Requests : \A p \in Party : ~Claims(r, p) /\ ~Wants(r, p) /\ ~Has(r, p)
  BY <1>6 DEF Claims, Wants, Has, At, NewRequest
<1>11. Transactions
  BY <1>5, <1>10 DEF Transactions, WantedSeen, ReplacedGone, ClaimsNear
<1>12. PartiesOfOneUpdate  BY <1>5 DEF PartiesOfOneUpdate
<1>13. CodeUnique  BY <1>1, <1>4 DEF CodeUnique, Active
<1>14. LinkedStored  BY <1>4 DEF LinkedStored
<1> QED  BY <1>7, <1>8, <1>9, <1>11, <1>12, <1>13, <1>14 DEF ArchiveInv

LEMMA SameInv ==
  ASSUME ArchiveInv, UNCHANGED archiveVars
  PROVE  ArchiveInv'
<1>1. UNCHANGED <<row, party, bucket, req, caught, faults>>  BY DEF archiveVars
<1>2. TypeOK' /\ Rows' /\ CodeUnique' /\ LinkedStored' /\ PartiesOfOneUpdate'
  BY <1>1
  DEF ArchiveInv, TypeOK, Rows, At, CodeUnique, LinkedStored, PartiesOfOneUpdate, Active
<1>3. \A r \in Requests : Good(r, req[r])'
  BY <1>1 DEF ArchiveInv, Good, Shape, Transaction, Stored, Overtaken
<1>4. Transactions'
  BY <1>1
  DEF ArchiveInv, Transactions, WantedSeen, ReplacedGone, ClaimsNear, Claims, Wants, Has,
      NearBy, Near, At
<1> QED  BY <1>2, <1>3, <1>4 DEF ArchiveInv

LEMMA NextInv == ArchiveInv /\ [Next]_archiveVars => ArchiveInv'
<1>1. ASSUME ArchiveInv, NEW r \in Requests, NEW a \in Archives,
             RemoveRead(r, a) \/ Upload(r, a) \/ Generate(r, a)
      PROVE  ArchiveInv'
  BY <1>1, RemoveReadKeeps, UploadKeeps
<1>2. ASSUME ArchiveInv, NEW r \in Requests,
             \/ Unconfirmed(r) \/ CreateInsert(r) \/ UpdateCheckCode(r) \/ Snapshot(r)
             \/ Replace(r) \/ Commit(r) \/ RemoveRow(r) \/ GenerateRead(r) \/ Put(r)
             \/ Find(r) \/ Link(r) \/ Fail(r)
      PROVE  ArchiveInv'
  BY <1>2, UnconfirmedKeeps, CreateInsertKeeps, UpdateCheckCodeKeeps, SnapshotKeeps,
     ReplaceKeeps, CommitKeeps, RemoveRowKeeps, GenerateReadKeeps, PutKeeps, FindKeeps,
     LinkKeeps, FailKeeps
<1>3. ASSUME ArchiveInv, Terminated PROVE ArchiveInv'  BY <1>3, SameInv DEF Terminated
<1> QED  BY <1>1, <1>2, <1>3, CreateLookupKeeps, UpdateReadKeeps, SameInv DEF Next

LEMMA ArchiveAlways == Spec => []ArchiveInv  BY InitInv, NextInv, PTL DEF Spec

----------------------------------------------------------------------------
(***************************************************************************)
(* Every variable keeps its type.                                          *)
(***************************************************************************)
THEOREM ArchiveTypeCorrect == Spec => []TypeOK
<1>1. ArchiveInv => TypeOK  BY DEF ArchiveInv
<1> QED  BY <1>1, ArchiveAlways, PTL

(***************************************************************************)
(* The undeleted archives have different codes, as the index is asked when *)
(* a code is written (archives.service.ts:128-151, 169-175).               *)
(***************************************************************************)
THEOREM CodeUniqueCorrect == Spec => []CodeUnique
<1>1. ArchiveInv => CodeUnique  BY DEF ArchiveInv
<1> QED  BY <1>1, ArchiveAlways, PTL

(***************************************************************************)
(* The participants of one kind come from one request or from transactions *)
(* that were open together (archives.service.ts:183-206).                  *)
(***************************************************************************)
THEOREM PartiesCorrect == Spec => []PartiesOfOneUpdate
<1>1. ArchiveInv => PartiesOfOneUpdate  BY DEF ArchiveInv
<1> QED  BY <1>1, ArchiveAlways, PTL

(***************************************************************************)
(* The order of the lists keeps the updates from deadlock                  *)
(* (archives.service.ts:184-211): one that waits for another has still a   *)
(* list to replace, so the other has deleted grantors and wants            *)
(* beneficiaries, and for whoever it waits all is replaced.                *)
(***************************************************************************)
THEOREM NoCircularWaitCorrect == Spec => []NoCircularWait
<1>1. ASSUME ArchiveInv PROVE NoCircularWait
  <2>1. ASSUME NEW r \in Requests, NEW s \in Requests, WaitsFor(r, s)
        PROVE  /\ req[r].kinds # {} /\ At(r, "replace")
               /\ First(req[r].kinds) = "beneficiary" => req[s].kinds = {}
               /\ First(req[r].kinds) = "grantor" => "grantor" \notin req[s].kinds
    <3>1. /\ At(r, "replace") /\ Good(r, req[r]) /\ Good(s, req[s])
          /\ req[r].kinds # {}
      BY <1>1, <2>1 DEF WaitsFor, ArchiveInv, Good, Shape, At
    <3>2. PICK p \in req[r].seen : p \in req[s].gone  BY <2>1 DEF WaitsFor
    <3>3. p.kind = First(req[r].kinds)  BY <3>1 DEF Good, Transaction, At
    <3> QED  BY <3>1, <3>2, <3>3 DEF Good, Transaction
  <2>2. SUFFICES ASSUME NEW S \in (SUBSET Requests) \ { {} },
                        \A r \in S : \E s \in S : WaitsFor(r, s)
                 PROVE  FALSE
    BY DEF NoCircularWait
  <2>3. PICK r \in S : TRUE  OBVIOUS
  <2>4. PICK s \in S : WaitsFor(r, s)  BY <2>2
  <2>5. PICK t \in S : WaitsFor(s, t)  BY <2>2
  <2>6. PICK u \in S : WaitsFor(t, u)  BY <2>2
  <2>7. First(req[s].kinds) = "beneficiary"
    <3>1. req[s].kinds # {}  BY <2>1, <2>5
    <3>2. First(req[r].kinds) = "grantor" \/ First(req[r].kinds) = "beneficiary"  BY DEF First
    <3> QED  BY <2>1, <2>4, <3>1, <3>2 DEF First
  <2>8. req[t].kinds = {}  BY <2>1, <2>5, <2>7
  <2> QED  BY <2>1, <2>6, <2>8
<1> QED  BY <1>1, ArchiveAlways, PTL

(***************************************************************************)
(* No link dangles, and an unlinked PDF has its reason                     *)
(* (archives.controller.ts:245-247, archives.service.ts:250-270, 311-317). *)
(***************************************************************************)
THEOREM PdfCorrect == Spec => []PdfAccounted
<1>1. ASSUME ArchiveInv PROVE PdfAccounted
  <2>1. Linked \subseteq bucket  BY <1>1 DEF Linked, ArchiveInv, LinkedStored
  <2>2. ASSUME NEW r \in bucket
        PROVE  \/ InFlight(r)
               \/ req[r].result \in {"failed", "notFound"}
               \/ req[r].result = "ok" /\ row[req[r].id].pdf # NULL
    <3>1. r \in Requests  BY <1>1 DEF ArchiveInv, TypeOK
    <3> QED  BY <1>1, <3>1 DEF ArchiveInv, Good, Stored, InFlight, At
  <2> QED  BY <2>1, <2>2 DEF PdfAccounted
<1> QED  BY <1>1, ArchiveAlways, PTL

\* The steps that write a row or participants, and what they write.
LEMMA Writers ==
  ASSUME ArchiveInv, NEW a \in Archives, row[a].state = "deleted",
         NEW r \in Requests, CreateInsert(r) \/ Commit(r) \/ RemoveRow(r) \/ Link(r)
  PROVE  /\ row'[a].state = "deleted"
         /\ row'[a] # row[a] \/ PartiesOf(a)' # PartiesOf(a) =>
              req[r].id = a /\ req[r].pc \in Found /\ InFlight(r) /\ ~InFlight(r)'
<1>1. Good(r, req[r]) /\ req[r] \in RequestState  BY DEF ArchiveInv, TypeOK
<1>2. CASE CreateInsert(r)
  <2>1. row[r] = NoRow  BY <1>1, <1>2 DEF CreateInsert, Good, Shape, At
  <2>2. a # r  BY <2>1 DEF NoRow
  <2>3. row'[a] = row[a]  BY <1>2, <2>2 DEF CreateInsert, ArchiveInv, TypeOK
  <2>4. PartiesOf(a)' = PartiesOf(a)
    <3>1. \A p \in party' : p \in party \/ p.archive = r  BY <1>2 DEF CreateInsert
    <3>2. party \subseteq party'  BY <1>2 DEF CreateInsert
    <3> QED  BY <2>2, <3>1, <3>2 DEF PartiesOf
  <2> QED  BY <2>3, <2>4
<1>3. CASE Commit(r)
  <2>1. /\ req[r].id \in Archives /\ req[r].pc \in Found /\ InFlight(r)
    BY <1>1, <1>3 DEF Commit, Good, Shape, OnArchive, Found, InFlight, At
  <2>2. ~InFlight(r)'
    <3>1. Answer(r, "ok") \/ Answer(r, "rejected")  BY <1>3 DEF Commit
    <3>2. req'[r].pc = "done"  BY <3>1, AnswerOnly DEF Results
    <3> QED  BY <3>2 DEF InFlight, At
  <2>3. \/ UNCHANGED <<row, party>>
        \/ /\ \E c : row' = [row EXCEPT ![req[r].id].code = c]
           /\ party' = (party \ req[r].gone) \cup req[r].added
    BY <1>3 DEF Commit
  <2>4. row'[a].state = "deleted" /\ (a # req[r].id => row'[a] = row[a])
    <3>1. row \in [Archives -> Row] /\ row[a] \in Row  BY DEF ArchiveInv, TypeOK
    <3>2. ASSUME NEW c, row' = [row EXCEPT ![req[r].id].code = c]
          PROVE  row'[a].state = "deleted" /\ (a # req[r].id => row'[a] = row[a])
      <4>1. [row[a] EXCEPT !.code = c].state = "deleted"  BY <3>1 DEF Row
      <4>2. row'[a] = IF a = req[r].id THEN [row[a] EXCEPT !.code = c] ELSE row[a]
        BY <3>1, <3>2
      <4> QED  BY <4>1, <4>2
    <3> QED  BY <2>3, <3>2
  <2>5. a # req[r].id => PartiesOf(a)' = PartiesOf(a)
    <3>1. \A p \in req[r].gone \cup req[r].added : p.archive = req[r].id
      BY <1>1 DEF Good, Transaction
    <3> QED  BY <2>3, <3>1 DEF PartiesOf
  <2> QED  BY <2>1, <2>2, <2>4, <2>5
<1>4. CASE RemoveRow(r) \/ Link(r)
  <2>1. req[r].id \in Archives /\ req[r].pc \in Found /\ InFlight(r)
    BY <1>1, <1>4 DEF RemoveRow, Link, Good, Shape, OnArchive, Found, InFlight, At
  <2>2. Answer(r, "ok") /\ UNCHANGED party  BY <1>4 DEF RemoveRow, Link
  <2>3. req'[r].pc = "done"  BY <2>2, AnswerOnly DEF Results
  <2>4. row'[a].state = "deleted" /\ (a # req[r].id => row'[a] = row[a])
    BY <1>4, <2>1 DEF RemoveRow, Link, ArchiveInv, TypeOK, Row
  <2>5. PartiesOf(a)' = PartiesOf(a)  BY <2>2 DEF PartiesOf
  <2> QED  BY <2>1, <2>3, <2>4, <2>5 DEF InFlight, At
<1> QED  BY <1>2, <1>3, <1>4

(***************************************************************************)
(* A removed archive and its participants change only by requests that     *)
(* were under way when it was removed, and it never comes back             *)
(* (archives.service.ts:164, 208, 251, 256, 278, 314).                     *)
(***************************************************************************)
THEOREM RemovedRestsCorrect == Spec => RemovedArchiveRests
<1> DEFINE Rests ==
      \A a \in Archives : row[a].state = "deleted" =>
        /\ row'[a].state = "deleted"
        /\ row'[a] # row[a] \/ PartiesOf(a)' # PartiesOf(a) =>
             \E r \in caught[a] : InFlight(r) /\ ~InFlight(r)'
<1>1. ASSUME ArchiveInv, Next PROVE Rests
  <2>1. SUFFICES ASSUME NEW a \in Archives, row[a].state = "deleted"
                 PROVE  /\ row'[a].state = "deleted"
                        /\ row'[a] # row[a] \/ PartiesOf(a)' # PartiesOf(a) =>
                             \E r \in caught[a] : InFlight(r) /\ ~InFlight(r)'
    OBVIOUS
  <2>2. CASE UNCHANGED <<row, party>>  BY <2>1, <2>2 DEF PartiesOf
  <2>3. ASSUME NEW r \in Requests, CreateInsert(r) \/ Commit(r) \/ RemoveRow(r) \/ Link(r)
        PROVE  /\ row'[a].state = "deleted"
               /\ row'[a] # row[a] \/ PartiesOf(a)' # PartiesOf(a) =>
                    \E s \in caught[a] : InFlight(s) /\ ~InFlight(s)'
    <3>1. Overtaken(r, req[r])  BY <1>1 DEF ArchiveInv, Good
    <3>2. req[r].id = a /\ req[r].pc \in Found => r \in caught[a]
      BY <2>1, <3>1 DEF Overtaken
    <3> QED  BY <1>1, <2>1, <2>3, <3>2, Writers
  <2>4. \/ UNCHANGED <<row, party>>
        \/ \E r \in Requests : CreateInsert(r) \/ Commit(r) \/ RemoveRow(r) \/ Link(r)
    <3>1. ASSUME NEW r \in Requests, NEW a0 \in Archives,
                 RemoveRead(r, a0) \/ Upload(r, a0) \/ Generate(r, a0)
          PROVE  UNCHANGED <<row, party>>
      BY <3>1 DEF RemoveRead, Upload, Generate
    <3>2. ASSUME NEW r \in Requests, NEW c, NEW kinds, CreateLookup(r, c, kinds)
          PROVE  UNCHANGED <<row, party>>
      BY <3>2 DEF CreateLookup
    <3>3. ASSUME NEW r \in Requests, NEW a0, NEW c, NEW kinds, UpdateRead(r, a0, c, kinds)
          PROVE  UNCHANGED <<row, party>>
      BY <3>3 DEF UpdateRead
    <3>4. ASSUME NEW r \in Requests,
                 \/ Unconfirmed(r) \/ UpdateCheckCode(r) \/ Snapshot(r) \/ Replace(r)
                 \/ GenerateRead(r) \/ Put(r) \/ Find(r) \/ Fail(r)
          PROVE  UNCHANGED <<row, party>>
      BY <3>4 DEF Unconfirmed, UpdateCheckCode, Snapshot, Replace, GenerateRead, Put, Find,
                  Fail
    <3>5. Terminated => UNCHANGED <<row, party>>  BY DEF Terminated, archiveVars
    <3> QED  BY <1>1, <3>1, <3>2, <3>3, <3>4, <3>5 DEF Next
  <2> QED  BY <2>2, <2>3, <2>4
<1>2. ArchiveInv /\ [Next]_archiveVars => [Rests]_archiveVars  BY <1>1
<1>3. Spec => [][Rests]_archiveVars  BY <1>2, ArchiveAlways, PTL DEF Spec
<1> QED  BY <1>3 DEF RemovedArchiveRests
=============================================================================
