----------------------------- MODULE NewsProofs ------------------------------
(***************************************************************************)
(* The properties of News for any number of news and of requests.          *)
(*                                                                         *)
(* CallInv says what the tables hold and which parameters a request has.   *)
(* ImageInv, on which ImagesAccounted rests, follows an image from the     *)
(* call that stores it to the row and to the call that deletes it;         *)
(* BoardInv, on which ScreenFollows rests, a news from its announcement    *)
(* to its removal's.                                                       *)
(***************************************************************************)
EXTENDS News, TLAPS

Steps == { "new", "put", "drop", "insert", "write", "delete", "publish", "retract", "done" }

Results == { "ok", "rejected", "notFound", "failed" }

RequestState ==
  [ pc: Steps, op: {"none", "create", "update", "remove"}, result: Results \cup {"none"},
    id: NewsIds \cup {NULL}, old: NewsIds \cup {NULL}, file: BOOLEAN,
    with: SUBSET Requests, early: BOOLEAN ]

\* Where a request r with the record x can be, by its operation.
Route(r, x) ==
  /\ x.op = "none" => x.pc \in {"new", "done"} /\ ~x.file /\ x.old = NULL
  /\ x.op = "create" =>
       x.pc \in {"put", "insert", "publish", "done"} /\ x.id = r /\ x.old = NULL
  /\ x.op = "update" => x.pc \in {"put", "drop", "write", "done"} /\ x.id \in NewsIds
  /\ x.op = "remove" =>
       x.pc \in {"drop", "delete", "retract", "done"} /\ x.id \in NewsIds /\ ~x.file
  /\ x.pc = "put" => x.file
  /\ x.pc = "drop" => x.old # NULL /\ (x.op = "update" => x.file)
  /\ x.pc # "done" => x.result = "none"

Calls == req \in [Requests -> RequestState] /\ \A r \in Requests : Route(r, req[r])

RowState == [ state: {"absent", "present", "deleted"}, image: NewsIds \cup {NULL} ]

Tables ==
  /\ row \in [NewsIds -> RowState]
  /\ bucket \subseteq NewsIds
  /\ shown \subseteq NewsIds
  /\ kept \subseteq NewsIds
  /\ faults \in Nat

\* A creation has its row as soon as it announces it; what a request has
\* read, and what is on a screen, has one.
Rows ==
  /\ \A n \in NewsIds : ~Present(n) => row[n].image = NULL
  /\ \A r \in Requests : req[r].op # "create" \/ req[r].pc \in {"put", "insert"} =>
       row[r].state = "absent"
  /\ \A r \in Requests : At(r, "publish") => row[r].state # "absent"
  /\ \A r \in Requests : req[r].op \in {"update", "remove"} => row[req[r].id].state # "absent"
  /\ \A n \in shown : row[n].state # "absent"

CallInv == Calls /\ Tables /\ Rows

----------------------------------------------------------------------------
(***************************************************************************)
(* What a step of r does to the requests.                                  *)
(***************************************************************************)
Others(r) == \A s \in Requests \ {r} : req'[s] = req[s]

Same(x, y) ==
  /\ y.op = x.op /\ y.id = x.id /\ y.old = x.old /\ y.file = x.file
  /\ y.with = x.with /\ y.early = x.early

Moved(r) == Others(r) /\ Calls' /\ req[r].pc # "done" /\ req'[r].pc # "new"

LEMMA Become1 ==
  ASSUME Calls, NEW r \in Requests, NEW x \in RequestState, Route(r, x), Become(r, x),
         req[r].pc # "done", x.pc # "new"
  PROVE  Moved(r) /\ req'[r] = x
<1>1. req'[r] = x /\ Others(r) /\ req' \in [Requests -> RequestState]
  BY DEF Become, Calls, Others
<1>2. ASSUME NEW s \in Requests PROVE Route(s, req'[s])
  BY <1>1 DEF Calls, Others
<1>3. Calls'  BY <1>1, <1>2 DEF Calls, Route
<1> QED  BY <1>1, <1>3 DEF Moved

\* An answer.
Ended(r, result) ==
  Moved(r) /\ Same(req[r], req'[r]) /\ req'[r].pc = "done" /\ req'[r].result = result

LEMMA AnswerCall ==
  ASSUME Calls, NEW r \in Requests, req[r].pc # "done", NEW result \in Results,
         Answer(r, result)
  PROVE  Ended(r, result)
<1> DEFINE x == [req[r] EXCEPT !.pc = "done", !.result = result]
<1>1. req[r] \in RequestState /\ Route(r, req[r])  BY DEF Calls
<1>2. x \in RequestState  BY <1>1 DEF RequestState, Results, Steps
<1>3. x.pc = "done" /\ x.result = result /\ Same(req[r], x)
  BY <1>1 DEF RequestState, Same
<1>4. Become(r, x)  BY DEF Answer
<1> HIDE DEF x
<1>5. Route(r, x)  BY <1>1, <1>3 DEF Route, Same
<1>6. Moved(r) /\ req'[r] = x  BY <1>2, <1>3, <1>4, <1>5, Become1
<1> QED  BY <1>3, <1>6 DEF Ended

\* Another program counter, and nothing else.
Went(r, pc) ==
  Moved(r) /\ Same(req[r], req'[r]) /\ req'[r].pc = pc /\ req'[r].result = req[r].result

LEMMA GoCall ==
  ASSUME Calls, NEW r \in Requests, req[r].pc \notin {"new", "done"},
         NEW pc \in {"insert", "publish", "drop", "write", "delete", "retract"},
         pc \in {"insert", "publish"} => req[r].op = "create",
         pc = "drop" => req[r].op = "update" /\ req[r].old # NULL /\ req[r].file,
         pc = "write" => req[r].op = "update",
         pc \in {"delete", "retract"} => req[r].op = "remove",
         Go(r, pc)
  PROVE  Went(r, pc)
<1> DEFINE x == [req[r] EXCEPT !.pc = pc]
<1>1. req[r] \in RequestState /\ Route(r, req[r])  BY DEF Calls
<1>2. x \in RequestState  BY <1>1 DEF RequestState, Steps
<1>3. x.pc = pc /\ x.result = req[r].result /\ Same(req[r], x)
  BY <1>1 DEF RequestState, Same
<1>4. Become(r, x)  BY DEF Go
<1> HIDE DEF x
<1>5. Route(r, x)  BY <1>1, <1>3 DEF Route, Same
<1>6. Moved(r) /\ req'[r] = x  BY <1>2, <1>3, <1>4, <1>5, Become1
<1> QED  BY <1>3, <1>6 DEF Went

LEMMA NewCall ==
  ASSUME Calls, NEW r \in Requests, At(r, "new")
  PROVE  /\ req[r] \in RequestState /\ req[r].op = "none" /\ req[r].result = "none"
         /\ ~req[r].file /\ req[r].old = NULL /\ r \in NewsIds /\ req[r].pc = "new"
<1>1. req[r] \in RequestState /\ Route(r, req[r]) /\ req[r].pc = "new" /\ r \in NewsIds
  BY DEF Calls, At, NewsIds
<1> QED  BY <1>1 DEF Route, RequestState

----------------------------------------------------------------------------
(***************************************************************************)
(* The operations: what becomes of the record of their request.            *)
(***************************************************************************)
LEMMA RefuseCall ==
  ASSUME Calls, NEW r \in Requests, Refuse(r)
  PROVE  Ended(r, "rejected") /\ req[r].op = "none"
  BY NewCall, AnswerCall DEF Refuse, Results

LEMMA CreateCall ==
  ASSUME Calls, NEW r \in Requests, NEW file \in BOOLEAN, Create(r, file)
  PROVE  /\ Moved(r) /\ req[r].pc = "new" /\ req'[r].pc = (IF file THEN "put" ELSE "insert")
         /\ req'[r].op = "create" /\ req'[r].id = r /\ req'[r].file = file
         /\ req'[r].old = NULL
<1> DEFINE x == [req[r] EXCEPT !.op = "create", !.id = r, !.file = file,
                   !.pc = IF file THEN "put" ELSE "insert"]
<1>1. /\ req[r] \in RequestState /\ req[r].result = "none" /\ req[r].old = NULL
      /\ r \in NewsIds /\ req[r].pc = "new"
  BY NewCall DEF Create
<1>2. (IF file THEN "put" ELSE "insert") \in Steps  BY DEF Steps
<1>3. x \in RequestState  BY <1>1, <1>2 DEF RequestState
<1>4. /\ x.op = "create" /\ x.id = r /\ x.file = file /\ x.old = NULL /\ x.result = "none"
      /\ x.pc = (IF file THEN "put" ELSE "insert")
  BY <1>1 DEF RequestState
<1>5. Become(r, x)  BY DEF Create
<1> HIDE DEF x
<1>6. Route(r, x)  BY <1>4 DEF Route
<1> QED  BY <1>1, <1>3, <1>4, <1>5, <1>6, Become1

LEMMA UpdateCall ==
  ASSUME Calls, Tables, NEW r \in Requests, NEW n \in NewsIds, NEW file \in BOOLEAN,
         Update(r, n, file)
  PROVE  \/ Ended(r, "notFound") /\ req[r].op = "none"
         \/ /\ Moved(r) /\ req[r].pc = "new" /\ Present(n)
            /\ req'[r].pc = (IF file THEN "put" ELSE "write")
            /\ req'[r].op = "update" /\ req'[r].id = n /\ req'[r].file = file
            /\ req'[r].old = row[n].image
<1> DEFINE image == row[n].image
           x == [req[r] EXCEPT !.op = "update", !.id = n, !.file = file, !.old = image,
                   !.pc = IF file THEN "put" ELSE "write"]
<1>1. /\ req[r] \in RequestState /\ req[r].result = "none" /\ req[r].op = "none"
      /\ r \in NewsIds /\ req[r].pc = "new"
  BY NewCall DEF Update
<1>2. (IF file THEN "put" ELSE "write") \in Steps /\ image \in NewsIds \cup {NULL}
  BY DEF Steps, Tables, RowState
<1>3. Answer(r, "notFound") \/ (Become(r, x) /\ Present(n))  BY DEF Update
<1> HIDE DEF image
<1>4. x \in RequestState  BY <1>1, <1>2 DEF RequestState
<1>5. /\ x.op = "update" /\ x.id = n /\ x.file = file /\ x.old = image
      /\ x.result = "none" /\ x.pc = (IF file THEN "put" ELSE "write")
  BY <1>1 DEF RequestState
<1> HIDE DEF x
<1>6. Route(r, x)  BY <1>5 DEF Route
<1>7. CASE Answer(r, "notFound")  BY <1>1, <1>7, AnswerCall DEF Results
<1>8. CASE Become(r, x) /\ Present(n)
  BY <1>1, <1>4, <1>5, <1>6, <1>8, Become1 DEF image
<1> QED  BY <1>3, <1>7, <1>8

LEMMA RemoveCall ==
  ASSUME Calls, Tables, NEW r \in Requests, NEW n \in NewsIds, Remove(r, n)
  PROVE  \/ Ended(r, "notFound") /\ req[r].op = "none"
         \/ /\ Moved(r) /\ req[r].pc = "new" /\ Present(n)
            /\ req'[r].pc = (IF row[n].image = NULL THEN "delete" ELSE "drop")
            /\ req'[r].op = "remove" /\ req'[r].id = n /\ ~req'[r].file
            /\ req'[r].old = row[n].image
            /\ n \in Requests /\ At(n, "publish") => req'[r].early
<1> DEFINE image == row[n].image
           early == \E s \in Requests : s = n /\ InFlight(s)
           x == [req[r] EXCEPT !.op = "remove", !.id = n, !.old = image, !.early = early,
                   !.pc = IF image = NULL THEN "delete" ELSE "drop"]
<1>1. /\ req[r] \in RequestState /\ req[r].result = "none" /\ req[r].op = "none"
      /\ r \in NewsIds /\ ~req[r].file /\ req[r].pc = "new"
  BY NewCall DEF Remove
<1>2. /\ (IF image = NULL THEN "delete" ELSE "drop") \in Steps
      /\ image \in NewsIds \cup {NULL} /\ early \in BOOLEAN
      /\ n \in Requests /\ At(n, "publish") => early
  BY DEF Steps, Tables, RowState, InFlight, At
<1>3. Answer(r, "notFound") \/ (Become(r, x) /\ Present(n))  BY DEF Remove
<1> HIDE DEF image, early
<1>4. x \in RequestState  BY <1>1, <1>2 DEF RequestState
<1>5. /\ x.op = "remove" /\ x.id = n /\ x.file = req[r].file /\ x.old = image
      /\ x.result = "none" /\ x.early = early
      /\ x.pc = (IF image = NULL THEN "delete" ELSE "drop")
  BY <1>1 DEF RequestState
<1> HIDE DEF x
<1>6. Route(r, x)  BY <1>1, <1>5 DEF Route
<1>7. CASE Answer(r, "notFound")  BY <1>1, <1>7, AnswerCall DEF Results
<1>8. CASE Become(r, x) /\ Present(n)
  BY <1>1, <1>2, <1>4, <1>5, <1>6, <1>8, Become1 DEF image
<1> QED  BY <1>3, <1>7, <1>8

LEMMA PutCall ==
  ASSUME Calls, NEW r \in Requests, Put(r)
  PROVE  /\ req[r].pc = "put" /\ req[r].file /\ req[r].op \in {"create", "update"}
         /\ \/ bucket' = bucket \cup {r} /\ Went(r, AfterPut(r))
            \/ bucket' \in {bucket, bucket \cup {r}} /\ Ended(r, "failed")
         /\ AfterPut(r) \in {"insert", "drop", "write"}
         /\ AfterPut(r) = "write" => req[r].op = "update" /\ req[r].old = NULL
         /\ AfterPut(r) = "drop" => req[r].old # NULL
<1>1. req[r].pc = "put" /\ Route(r, req[r]) /\ req[r] \in RequestState
  BY DEF Put, At, Calls
<1>2. req[r].file /\ req[r].op \in {"create", "update"}
  BY <1>1 DEF Route, RequestState
<1>3. /\ AfterPut(r) \in {"insert", "drop", "write"}
      /\ AfterPut(r) = "insert" => req[r].op = "create"
      /\ AfterPut(r) = "write" => req[r].op = "update" /\ req[r].old = NULL
      /\ AfterPut(r) = "drop" => req[r].op = "update" /\ req[r].old # NULL
  BY <1>2 DEF AfterPut
<1>4. Go(r, AfterPut(r)) => Went(r, AfterPut(r))
  BY <1>1, <1>2, <1>3, GoCall
<1>5. Answer(r, "failed") => Ended(r, "failed")  BY <1>1, AnswerCall DEF Results
<1> QED  BY <1>1, <1>2, <1>3, <1>4, <1>5 DEF Put

LEMMA DropCall ==
  ASSUME Calls, NEW r \in Requests, Drop(r)
  PROVE  /\ req[r].pc = "drop" /\ req[r].old # NULL /\ req[r].op \in {"update", "remove"}
         /\ req[r].op = "update" => req[r].file /\ Went(r, "write")
         /\ req[r].op = "remove" => Went(r, "delete")
<1>1. /\ req[r].pc = "drop" /\ Route(r, req[r]) /\ req[r] \in RequestState
      /\ Go(r, IF req[r].op = "update" THEN "write" ELSE "delete")
  BY DEF Drop, At, Calls
<1>2. /\ req[r].old # NULL /\ req[r].op \in {"update", "remove"}
      /\ req[r].op = "update" => req[r].file
  BY <1>1 DEF Route, RequestState
<1> QED  BY <1>1, <1>2, GoCall

LEMMA InsertCall ==
  ASSUME Calls, NEW r \in Requests, Insert(r)
  PROVE  req[r].pc = "insert" /\ req[r].op = "create" /\ req[r].id = r /\ Went(r, "publish")
<1>1. /\ req[r].pc = "insert" /\ Route(r, req[r]) /\ req[r] \in RequestState
      /\ Go(r, "publish")
  BY DEF Insert, At, Calls
<1>2. req[r].op = "create" /\ req[r].id = r  BY <1>1 DEF Route, RequestState
<1> QED  BY <1>1, <1>2, GoCall

LEMMA WriteCall ==
  ASSUME Calls, NEW r \in Requests, Write(r)
  PROVE  /\ req[r].pc = "write" /\ req[r].op = "update" /\ req[r].id \in NewsIds
         /\ \/ Ended(r, "notFound") /\ row' = row /\ ~Present(req[r].id)
            \/ /\ Moved(r) /\ Present(req[r].id) /\ req'[r].pc = "done" /\ req'[r].result = "ok"
               /\ req'[r].op = "update" /\ req'[r].id = req[r].id /\ req'[r].old = req[r].old
               /\ req'[r].file = req[r].file /\ req'[r].with = Readers(r)
               /\ row' = [row EXCEPT ![req[r].id].image = IF req[r].file THEN r ELSE @]
<1> DEFINE with == Readers(r)
           x == [req[r] EXCEPT !.pc = "done", !.result = "ok", !.with = with]
<1>1. req[r].pc = "write" /\ Route(r, req[r]) /\ req[r] \in RequestState
  BY DEF Write, At, Calls
<1>2. with \in SUBSET Requests /\ req[r].op = "update" /\ req[r].id \in NewsIds
  BY <1>1 DEF Readers, Route, RequestState
<1>3. \/ Answer(r, "notFound") /\ row' = row /\ ~Present(req[r].id)
      \/ /\ Become(r, x) /\ Present(req[r].id)
         /\ row' = [row EXCEPT ![req[r].id].image = IF req[r].file THEN r ELSE @]
  BY DEF Write
<1> HIDE DEF with
<1>4. x \in RequestState  BY <1>1, <1>2 DEF RequestState, Steps, Results
<1>5. /\ x.pc = "done" /\ x.result = "ok" /\ x.with = with /\ x.op = req[r].op
      /\ x.id = req[r].id /\ x.old = req[r].old /\ x.file = req[r].file
  BY <1>1 DEF RequestState
<1> HIDE DEF x
<1>6. Route(r, x)  BY <1>1, <1>5 DEF Route
<1>7. Become(r, x) => Moved(r) /\ req'[r] = x  BY <1>1, <1>4, <1>5, <1>6, Become1
<1>8. Answer(r, "notFound") => Ended(r, "notFound")  BY <1>1, AnswerCall DEF Results
<1> QED  BY <1>1, <1>2, <1>3, <1>5, <1>7, <1>8 DEF with

LEMMA DeleteRowCall ==
  ASSUME Calls, NEW r \in Requests, DeleteRow(r)
  PROVE  /\ req[r].pc = "delete" /\ req[r].op = "remove" /\ req[r].id \in NewsIds
         /\ \/ Ended(r, "notFound") /\ row' = row /\ ~Present(req[r].id)
            \/ /\ Went(r, "retract") /\ Present(req[r].id)
               /\ row' = [row EXCEPT ![req[r].id] = [ state |-> "deleted", image |-> NULL ]]
<1>1. req[r].pc = "delete" /\ Route(r, req[r]) /\ req[r] \in RequestState
  BY DEF DeleteRow, At, Calls
<1>2. req[r].op = "remove" /\ req[r].id \in NewsIds  BY <1>1 DEF Route, RequestState
<1>3. Go(r, "retract") => Went(r, "retract")  BY <1>1, <1>2, GoCall
<1>4. Answer(r, "notFound") => Ended(r, "notFound")  BY <1>1, AnswerCall DEF Results
<1> QED  BY <1>1, <1>2, <1>3, <1>4 DEF DeleteRow

LEMMA TellCalls ==
  ASSUME Calls, NEW r \in Requests
  PROVE  /\ Publish(r) => req[r].pc = "publish" /\ req[r].op = "create" /\ Ended(r, "ok")
         /\ Retract(r) =>
              /\ req[r].pc = "retract" /\ req[r].op = "remove" /\ req[r].id \in NewsIds
              /\ Ended(r, "ok")
         /\ Fail(r) => req[r].pc \notin {"new", "done"} /\ Ended(r, "failed")
<1>1. Route(r, req[r]) /\ req[r] \in RequestState  BY DEF Calls
<1> QED  BY <1>1, AnswerCall DEF Publish, Retract, Fail, InFlight, At, Results, Route, RequestState

----------------------------------------------------------------------------
(***************************************************************************)
(* CallInv.                                                                *)
(***************************************************************************)
LEMMA InitInv == Init => CallInv
<1> SUFFICES ASSUME Init PROVE CallInv
  OBVIOUS
<1>1. Calls
  BY DEF Init, Calls, NewRequest, RequestState, Steps, Results, Route
<1>2. Tables
  <2>1. ASSUME NEW n \in NewsIds PROVE row[n] \in RowState
    BY <2>1 DEF Init, NewsIds, NoRow, RowState
  <2> QED  BY <2>1, FaultBound DEF Init, Tables, NewsIds
<1>3. \A n \in NewsIds : row[n].state = (IF n \in Seeds THEN "present" ELSE "absent")
  BY DEF Init, NoRow
<1>4. \A n \in NewsIds : ~Present(n) => row[n].image = NULL
  BY <1>3 DEF Init, NoRow, Present
<1>5. Rows
  BY <1>3, <1>4, SeedsAreNoRequests DEF Init, Rows, NewRequest, NewsIds, At
<1> QED  BY <1>1, <1>2, <1>5 DEF CallInv

\* A step of r that writes no row.
LEMMA TableStays ==
  ASSUME CallInv, NEW r \in Requests, Moved(r), row' = row,
         req'[r].op # "create" \/ req'[r].pc \in {"put", "insert"} =>
           row[r].state = "absent",
         req'[r].pc = "publish" => req[r].pc = "publish",
         req'[r].op \in {"update", "remove"} => row[req'[r].id].state # "absent",
         \A n \in shown' : n \in shown \/ (n \in NewsIds /\ row[n].state # "absent"),
         bucket' \subseteq NewsIds, kept' \subseteq NewsIds, faults' \in Nat
  PROVE  CallInv'
<1>1. shown' \subseteq NewsIds /\ \A n \in shown' : row[n].state # "absent"
  BY DEF CallInv, Tables, Rows
<1>2. Tables'  BY <1>1 DEF CallInv, Tables
<1>3. \A s \in Requests : s # r => req'[s] = req[s]  BY DEF Moved, Others
<1>4. Rows'
  <2>1. \A n \in NewsIds : ~Present(n)' => row'[n].image = NULL
    BY DEF CallInv, Rows, Present
  <2>2. \A s \in Requests : req'[s].op # "create" \/ req'[s].pc \in {"put", "insert"} =>
          row'[s].state = "absent"
    BY <1>3 DEF CallInv, Rows
  <2>3. \A s \in Requests : req'[s].pc = "publish" => row'[s].state # "absent"
    BY <1>3 DEF CallInv, Rows, At
  <2>4. \A s \in Requests : req'[s].op \in {"update", "remove"} =>
          row'[req'[s].id].state # "absent"
    BY <1>3 DEF CallInv, Rows
  <2> QED  BY <1>1, <2>1, <2>2, <2>3, <2>4 DEF Rows, At
<1> QED  BY <1>2, <1>4 DEF CallInv, Moved

\* It goes on with what it had.
LEMMA SameKeeps ==
  ASSUME CallInv, NEW r \in Requests, Moved(r), Same(req[r], req'[r]), row' = row,
         req'[r].pc \notin {"put", "publish"}, req'[r].pc = "insert" => req[r].pc = "put",
         \A n \in shown' : n \in shown \/ (n \in NewsIds /\ row[n].state # "absent"),
         bucket' \subseteq NewsIds, kept' \subseteq NewsIds, faults' \in Nat
  PROVE  CallInv'
<1>1. /\ req[r].op # "create" \/ req[r].pc \in {"put", "insert"} => row[r].state = "absent"
      /\ req[r].op \in {"update", "remove"} => row[req[r].id].state # "absent"
  BY DEF CallInv, Rows
<1> QED  BY <1>1, TableStays DEF Same

\* A request looks, answers or begins; nothing is written and nobody is told.
Looks(r) ==
  \/ \E file \in BOOLEAN : Create(r, file)
  \/ \E n \in NewsIds : Remove(r, n) \/ \E file \in BOOLEAN : Update(r, n, file)
  \/ Refuse(r) \/ Fail(r)

LEMMA LooksCalls ==
  ASSUME CallInv, NEW r \in Requests, Looks(r)
  PROVE  CallInv' /\ Moved(r) /\ UNCHANGED <<row, bucket, shown, kept>>
<1>1. UNCHANGED <<row, bucket, shown, kept>>
  BY DEF Looks, Create, Remove, Update, Refuse, Fail
<1>2. /\ bucket' \subseteq NewsIds /\ kept' \subseteq NewsIds
      /\ faults' \in Nat /\ \A n \in shown' : n \in shown
  <2>1. faults' = faults \/ faults' = faults + 1
    BY DEF Looks, Create, Remove, Update, Refuse, Fail, Fault
  <2> QED  BY <1>1, <2>1 DEF CallInv, Tables
<1>3. ASSUME NEW result \in Results, Ended(r, result) PROVE CallInv' /\ Moved(r)
  BY <1>1, <1>2, <1>3, SameKeeps DEF Ended
<1>4. req[r].pc = "new" => row[r].state = "absent"
  <2>1. req[r].pc = "new" => req[r].op = "none"  BY NewCall DEF CallInv, At
  <2> QED  BY <2>1 DEF CallInv, Rows
<1>5. ASSUME NEW file \in BOOLEAN, Create(r, file) PROVE CallInv' /\ Moved(r)
  <2>1. /\ Moved(r) /\ req[r].pc = "new" /\ req'[r].op = "create"
        /\ req'[r].pc \in {"put", "insert"}
    BY <1>5, CreateCall DEF CallInv
  <2> QED  BY <1>1, <1>2, <1>4, <2>1, TableStays
<1>6. ASSUME NEW n \in NewsIds, NEW file \in BOOLEAN, Update(r, n, file)
      PROVE  CallInv' /\ Moved(r)
  <2>1. CASE Ended(r, "notFound")  BY <1>3, <2>1 DEF Results
  <2>2. CASE ~Ended(r, "notFound")
    <3>1. /\ Moved(r) /\ req[r].pc = "new" /\ row[n].state = "present"
          /\ req'[r].op = "update" /\ req'[r].id = n /\ req'[r].pc \in {"put", "write"}
      BY <1>6, <2>2, UpdateCall DEF CallInv, Present
    <3> QED  BY <1>1, <1>2, <1>4, <3>1, TableStays
  <2> QED  BY <2>1, <2>2
<1>7. ASSUME NEW n \in NewsIds, Remove(r, n) PROVE CallInv' /\ Moved(r)
  <2>1. CASE Ended(r, "notFound")  BY <1>3, <2>1 DEF Results
  <2>2. CASE ~Ended(r, "notFound")
    <3>1. /\ Moved(r) /\ req[r].pc = "new" /\ row[n].state = "present"
          /\ req'[r].op = "remove" /\ req'[r].id = n /\ req'[r].pc \in {"drop", "delete"}
      BY <1>7, <2>2, RemoveCall DEF CallInv, Present
    <3> QED  BY <1>1, <1>2, <1>4, <3>1, TableStays
  <2> QED  BY <2>1, <2>2
<1>8. CASE Refuse(r)  BY <1>1, <1>3, <1>8, RefuseCall DEF Results, CallInv
<1>9. CASE Fail(r)
  <2>1. Ended(r, "failed")  BY <1>9, TellCalls DEF CallInv
  <2> QED  BY <1>1, <1>3, <2>1 DEF Results
<1> QED  BY <1>1, <1>5, <1>6, <1>7, <1>8, <1>9 DEF Looks

LEMMA BucketCalls ==
  ASSUME CallInv, NEW r \in Requests, Put(r) \/ Drop(r)
  PROVE  CallInv'
<1>1. row' = row /\ shown' = shown  BY DEF Put, Drop
<1>2. faults' \in Nat  BY DEF Put, Drop, Fault, CallInv, Tables
<1>3. CASE Put(r)
  <2>1. bucket' \subseteq NewsIds /\ kept' \subseteq NewsIds
    BY <1>3 DEF Put, CallInv, Tables, NewsIds
  <2>2. /\ Moved(r) /\ Same(req[r], req'[r])
        /\ req'[r].pc \notin {"put", "publish"} /\ req[r].pc = "put"
    BY <1>3, PutCall DEF Went, Ended, CallInv
  <2> QED  BY <1>1, <1>2, <2>1, <2>2, SameKeeps
<1>4. CASE Drop(r)
  <2>1. /\ Moved(r) /\ Same(req[r], req'[r]) /\ req'[r].pc \in {"write", "delete"}
        /\ req[r].old # NULL
    BY <1>4, DropCall DEF Went, CallInv
  <2>2. req[r].old \in NewsIds  BY <2>1 DEF CallInv, Calls, RequestState
  <2>3. bucket' \subseteq NewsIds /\ kept' \subseteq NewsIds
    BY <1>4, <2>2 DEF Drop, CallInv, Tables
  <2> QED  BY <1>1, <1>2, <2>1, <2>3, SameKeeps
<1> QED  BY <1>3, <1>4

LEMMA TellKeeps ==
  ASSUME CallInv, NEW r \in Requests, Publish(r) \/ Retract(r)
  PROVE  CallInv'
<1>1. Ended(r, "ok")  BY TellCalls DEF CallInv
<1>2. UNCHANGED <<row, bucket, kept, faults>>  BY DEF Publish, Retract
<1>3. \A n \in shown' : n \in shown \/ (n \in NewsIds /\ row[n].state # "absent")
  BY DEF Publish, Retract, CallInv, Rows, NewsIds
<1> QED  BY <1>1, <1>2, <1>3, SameKeeps DEF Ended, CallInv, Tables

\* A step of r that writes row n.
LEMMA RowKeeps ==
  ASSUME CallInv, NEW r \in Requests, NEW n \in NewsIds, Moved(r), NEW y \in RowState,
         row' = [row EXCEPT ![n] = y], y.state # "absent",
         y.state = "deleted" => y.image = NULL,
         row[n].state = "absent" => n = r /\ req'[r].op = "create"
                                          /\ req'[r].pc \notin {"put", "insert"},
         req'[r].op # "create" => row[r].state = "absent",
         req'[r].pc \notin {"put", "insert"}, req'[r].pc = "publish" => n = r,
         req'[r].op \in {"update", "remove"} => req'[r].id = n,
         UNCHANGED <<bucket, shown, kept, faults>>
  PROVE  CallInv'
<1>1. Tables'  BY DEF CallInv, Tables
<1>2. \A s \in Requests : s # r => req'[s] = req[s]  BY DEF Moved, Others
<1>3. row'[n] = y /\ \A m \in NewsIds : m # n => row'[m] = row[m]
  BY DEF CallInv, Tables
<1>4. \A m \in NewsIds : row[m].state # "absent" => row'[m].state # "absent"
  BY <1>3
<1>5. \A m \in NewsIds : ~Present(m)' => row'[m].image = NULL
  BY <1>3 DEF CallInv, Rows, Present, RowState
<1>6. ASSUME NEW s \in Requests, req'[s].op # "create" \/ req'[s].pc \in {"put", "insert"}
      PROVE  row'[s].state = "absent"
  <2>1. row[s].state = "absent"  BY <1>2, <1>6 DEF CallInv, Rows
  <2>2. s # n  BY <1>6, <2>1
  <2> QED  BY <1>3, <2>1, <2>2 DEF NewsIds
<1>7. ASSUME NEW s \in Requests, req'[s].pc = "publish" PROVE row'[s].state # "absent"
  <2>1. CASE s = r  BY <1>3, <1>7, <2>1
  <2>2. CASE s # r  BY <1>2, <1>4, <1>7, <2>2 DEF CallInv, Rows, At, NewsIds
  <2> QED  BY <2>1, <2>2
<1>8. ASSUME NEW s \in Requests, req'[s].op \in {"update", "remove"}
      PROVE  row'[req'[s].id].state # "absent"
  <2>1. CASE s = r  BY <1>3, <1>8, <2>1
  <2>2. CASE s # r
    <3>1. req[s].id \in NewsIds /\ row[req[s].id].state # "absent"
      BY <1>2, <1>8, <2>2 DEF CallInv, Rows, Calls, Route
    <3> QED  BY <1>2, <1>4, <2>2, <3>1
  <2> QED  BY <2>1, <2>2
<1>9. \A m \in shown' : row'[m].state # "absent"
  BY <1>4 DEF CallInv, Rows, Tables
<1>10. Rows'  BY <1>5, <1>6, <1>7, <1>8, <1>9 DEF Rows, At
<1> QED  BY <1>1, <1>10 DEF CallInv, Moved

LEMMA RowCalls ==
  ASSUME CallInv, NEW r \in Requests, Insert(r) \/ Write(r) \/ DeleteRow(r)
  PROVE  CallInv'
<1>1. UNCHANGED <<bucket, shown, kept, faults>>  BY DEF Insert, Write, DeleteRow
<1>2. CASE Insert(r)
  <2> DEFINE y == [ state |-> "present", image |-> IF req[r].file THEN r ELSE NULL ]
  <2>1. /\ req[r].pc = "insert" /\ Moved(r) /\ req'[r].op = "create"
        /\ req'[r].pc = "publish"
    BY <1>2, InsertCall DEF Went, Same, CallInv
  <2>2. row' = [row EXCEPT ![r] = y] /\ y \in RowState /\ r \in NewsIds
        /\ y.state = "present"
    BY <1>2 DEF Insert, RowState, NewsIds
  <2> HIDE DEF y
  <2> QED  BY <1>1, <2>1, <2>2, RowKeeps
<1>3. CASE Write(r)
  <2> DEFINE n == req[r].id
             y == [row[n] EXCEPT !.image = IF req[r].file THEN r ELSE @]
  <2>1. CASE Ended(r, "notFound") /\ row' = row
    BY <1>1, <2>1, SameKeeps DEF Ended, CallInv, Tables
  <2>2. CASE ~(Ended(r, "notFound") /\ row' = row)
    <3>1. /\ Moved(r) /\ n \in NewsIds /\ Present(n) /\ req'[r].op = "update"
          /\ req'[r].id = n /\ req[r].op = "update" /\ req'[r].pc = "done"
          /\ row' = [row EXCEPT ![n].image = IF req[r].file THEN r ELSE @]
      BY <1>3, <2>2, WriteCall DEF CallInv
    <3>2. row[n] \in RowState  BY <3>1 DEF CallInv, Tables
    <3>3. row' = [row EXCEPT ![n] = y]  BY <3>1
    <3>4. y \in RowState /\ y.state = "present" /\ row[n].state = "present"
      BY <3>1, <3>2 DEF RowState, Present, NewsIds
    <3>5. row[r].state = "absent"  BY <3>1 DEF CallInv, Rows
    <3> HIDE DEF y, n
    <3> QED  BY <1>1, <3>1, <3>3, <3>4, <3>5, RowKeeps
  <2> QED  BY <2>1, <2>2
<1>4. CASE DeleteRow(r)
  <2> DEFINE n == req[r].id
             y == [ state |-> "deleted", image |-> NULL ]
  <2>1. CASE Ended(r, "notFound") /\ row' = row
    BY <1>1, <2>1, SameKeeps DEF Ended, CallInv, Tables
  <2>2. CASE ~(Ended(r, "notFound") /\ row' = row)
    <3>1. /\ Moved(r) /\ n \in NewsIds /\ Present(n) /\ req'[r].op = "remove"
          /\ req'[r].id = n /\ req[r].op = "remove" /\ req'[r].pc = "retract"
          /\ row' = [row EXCEPT ![n] = y]
      BY <1>4, <2>2, DeleteRowCall DEF CallInv, Went, Same
    <3>2. /\ y \in RowState /\ y.state = "deleted" /\ y.image = NULL
          /\ row[n].state = "present"
      BY <3>1 DEF RowState, Present
    <3>3. row[r].state = "absent"  BY <3>1 DEF CallInv, Rows
    <3> HIDE DEF y, n
    <3> QED  BY <1>1, <3>1, <3>2, <3>3, RowKeeps
  <2> QED  BY <2>1, <2>2
<1> QED  BY <1>2, <1>3, <1>4

LEMMA CallNext == CallInv /\ [Next]_newsVars => CallInv'
<1> SUFFICES ASSUME CallInv, [Next]_newsVars PROVE CallInv'
  OBVIOUS
<1>1. ASSUME NEW r \in Requests, Looks(r) PROVE CallInv'
  BY <1>1, LooksCalls
<1>2. ASSUME NEW r \in Requests, Put(r) \/ Drop(r) \/ Publish(r) \/ Retract(r)
      PROVE  CallInv'
  BY <1>2, BucketCalls, TellKeeps
<1>3. ASSUME NEW r \in Requests, Insert(r) \/ Write(r) \/ DeleteRow(r) PROVE CallInv'
  BY <1>3, RowCalls
<1>4. CASE UNCHANGED newsVars
  BY <1>4 DEF newsVars, CallInv, Calls, Tables, Rows, Present, At
<1> QED  BY <1>1, <1>2, <1>3, <1>4 DEF Next, Looks, Terminated

(***************************************************************************)
(* In every reachable state a request has the parameters of its operation, *)
(* a creation that announces its news has stored it, and every news that a *)
(* request has read or a screen shows has a row, perhaps a deleted one     *)
(* (news.service.ts:60-160).                                               *)
(***************************************************************************)
THEOREM NewsCorrect == Spec => []CallInv
<1> QED  BY InitInv, CallNext, PTL DEF Spec

----------------------------------------------------------------------------
(***************************************************************************)
(* The board.  Of a removal that read its news before the creation had     *)
(* announced it, RemovedEarly says that it is marked so; what is removed   *)
(* and shown, LateOnScreen, was so removed or is still to be taken down.   *)
(***************************************************************************)
Removal(r, n) == req[r].op = "remove" /\ req[r].id = n

RetractsRemoved == \A r \in Requests : At(r, "retract") => row[req[r].id].state = "deleted"

RemovedEarly ==
  \A r, n \in Requests : Removal(r, n) /\ At(n, "publish") => req[r].early

Removed == \A n \in NewsIds : row[n].state = "deleted" => \E r \in Requests : Removal(r, n)

LateOnScreen ==
  \A n \in shown : row[n].state = "deleted" => \E r \in Requests :
    Removal(r, n) /\ (At(r, "retract") \/ Done(r, {"failed"}) \/ req[r].early)

Unannounced ==
  \A n \in NewsIds \ shown : Present(n) =>
    n \in Requests /\ (At(n, "publish") \/ Done(n, {"failed"}))

BoardInv == RetractsRemoved /\ RemovedEarly /\ Removed /\ LateOnScreen /\ Unannounced

LEMMA BoardImplies == CallInv /\ BoardInv => ScreenFollows
<1> SUFFICES ASSUME CallInv, BoardInv, NEW n \in NewsIds
             PROVE  /\ n \in shown /\ ~Present(n) =>
                         \E r \in Requests :
                           /\ req[r].op = "remove" /\ req[r].id = n
                           /\ InFlight(r) \/ Done(r, {"failed"}) \/ req[r].early
                    /\ Present(n) /\ n \notin shown =>
                         n \in Requests /\ (At(n, "publish") \/ Done(n, {"failed"}))
  BY DEF ScreenFollows
<1>1. ASSUME n \in shown, ~Present(n)
      PROVE  \E r \in Requests : /\ req[r].op = "remove" /\ req[r].id = n
                                 /\ InFlight(r) \/ Done(r, {"failed"}) \/ req[r].early
  <2>1. row[n].state = "deleted"
    BY <1>1 DEF CallInv, Tables, Rows, RowState, Present
  <2>2. PICK r \in Requests :
          Removal(r, n) /\ (At(r, "retract") \/ Done(r, {"failed"}) \/ req[r].early)
    BY <1>1, <2>1 DEF BoardInv, LateOnScreen
  <2> QED  BY <2>2 DEF Removal, InFlight, At
<1>2. Present(n) /\ n \notin shown =>
        n \in Requests /\ (At(n, "publish") \/ Done(n, {"failed"}))
  BY DEF BoardInv, Unannounced
<1> QED  BY <1>1, <1>2

\* A step of r that neither creates nor removes a news nor tells of one.
LEMMA BoardStays ==
  ASSUME CallInv, BoardInv, NEW r \in Requests, Moved(r), shown' = shown,
         \A n \in NewsIds : row'[n].state = row[n].state,
         req'[r].pc \notin {"retract", "publish"},
         req[r].pc \in {"retract", "publish"} => Done(r, {"failed"})',
         req[r].op = "remove" =>
           /\ req'[r].op = "remove" /\ req'[r].id = req[r].id
           /\ req'[r].early = req[r].early,
         \A n \in Requests :
           Removal(r, n)' /\ At(n, "publish") => Removal(r, n) \/ req'[r].early
  PROVE  BoardInv'
<1>1. \A s \in Requests : s # r => req'[s] = req[s]  BY DEF Moved, Others
<1>2. req[r].pc # "done" /\ r \in NewsIds  BY DEF Moved, NewsIds
<1>3. RetractsRemoved'
  <2>1. ASSUME NEW s \in Requests, At(s, "retract")' PROVE row'[req'[s].id].state = "deleted"
    <3>1. s # r /\ req'[s] = req[s] /\ At(s, "retract")  BY <1>1, <2>1 DEF At
    <3>2. req[s].op = "remove" /\ req[s].id \in NewsIds
      BY <3>1 DEF CallInv, Calls, Route, RequestState, At
    <3> QED  BY <3>1, <3>2 DEF BoardInv, RetractsRemoved
  <2> QED  BY <2>1 DEF RetractsRemoved
<1>4. RemovedEarly'
  <2>1. ASSUME NEW s \in Requests, NEW n \in Requests, Removal(s, n)', At(n, "publish")'
        PROVE  req'[s].early
    <3>1. n # r /\ At(n, "publish")  BY <1>1, <2>1 DEF At
    <3>2. CASE s # r
      BY <1>1, <2>1, <3>1, <3>2 DEF BoardInv, RemovedEarly, Removal
    <3>3. CASE s = r
      <4>1. Removal(r, n) => req[r].early
        BY <3>1 DEF BoardInv, RemovedEarly
      <4> QED  BY <2>1, <3>1, <3>3, <4>1 DEF Removal
    <3> QED  BY <3>2, <3>3
  <2> QED  BY <2>1 DEF RemovedEarly
<1>5. \A s \in Requests, n \in NewsIds : Removal(s, n) => Removal(s, n)'
  BY <1>1 DEF Removal
<1>6. Removed'  BY <1>5 DEF BoardInv, Removed
<1>7. LateOnScreen'
  <2>1. ASSUME NEW n \in shown', row'[n].state = "deleted"
        PROVE  \E s \in Requests :
                 (Removal(s, n) /\ (At(s, "retract") \/ Done(s, {"failed"}) \/ req[s].early))'
    <3>1. n \in NewsIds /\ n \in shown /\ row[n].state = "deleted"
      BY <2>1 DEF CallInv, Tables
    <3>2. PICK s \in Requests :
            Removal(s, n) /\ (At(s, "retract") \/ Done(s, {"failed"}) \/ req[s].early)
      BY <3>1 DEF BoardInv, LateOnScreen
    <3>3. CASE s # r  BY <1>1, <3>2, <3>3 DEF Removal, At, Done
    <3>4. CASE s = r
      BY <1>2, <1>5, <3>1, <3>2, <3>4 DEF Removal, At, Done
    <3> QED  BY <3>3, <3>4
  <2> QED  BY <2>1 DEF LateOnScreen
<1>8. Unannounced'
  <2>1. ASSUME NEW n \in NewsIds \ shown', Present(n)'
        PROVE  n \in Requests /\ (At(n, "publish") \/ Done(n, {"failed"}))'
    <3>1. n \in Requests /\ (At(n, "publish") \/ Done(n, {"failed"}))
      BY <2>1 DEF BoardInv, Unannounced, Present
    <3>2. CASE n # r  BY <1>1, <3>1, <3>2 DEF At, Done
    <3>3. CASE n = r  BY <1>2, <3>1, <3>3 DEF At, Done
    <3> QED  BY <3>2, <3>3
  <2> QED  BY <2>1 DEF Unannounced
<1> QED  BY <1>3, <1>4, <1>6, <1>7, <1>8 DEF BoardInv

LEMMA SameBoard ==
  ASSUME CallInv, BoardInv, NEW r \in Requests, Moved(r), Same(req[r], req'[r]),
         shown' = shown, \A n \in NewsIds : row'[n].state = row[n].state,
         req'[r].pc \notin {"retract", "publish"},
         req[r].pc \in {"retract", "publish"} => Done(r, {"failed"})'
  PROVE  BoardInv'
  BY BoardStays DEF Same, Removal

LEMMA LooksBoard ==
  ASSUME CallInv, BoardInv, NEW r \in Requests, Looks(r)
  PROVE  BoardInv'
<1>1. Moved(r) /\ UNCHANGED <<row, bucket, shown, kept>>  BY LooksCalls
<1>2. req[r].pc = "new" => req[r].op = "none"  BY NewCall DEF CallInv, At
<1>3. ASSUME NEW result, Ended(r, result), req[r].op = "none" PROVE BoardInv'
  <2>1. req[r].pc \notin {"retract", "publish"}  BY <1>3 DEF CallInv, Calls, Route
  <2> QED  BY <1>1, <1>3, <2>1, SameBoard DEF Ended
<1>4. ASSUME NEW file \in BOOLEAN, Create(r, file) PROVE BoardInv'
  <2>1. /\ req[r].pc = "new" /\ req'[r].op = "create" /\ req'[r].pc \in {"put", "insert"}
    BY <1>4, CreateCall DEF CallInv
  <2> QED  BY <1>1, <1>2, <2>1, BoardStays DEF Removal
<1>5. ASSUME NEW n \in NewsIds, NEW file \in BOOLEAN, Update(r, n, file) PROVE BoardInv'
  <2>1. CASE ~(Ended(r, "notFound") /\ req[r].op = "none")
    <3>1. /\ req[r].pc = "new" /\ req'[r].op = "update" /\ req'[r].pc \in {"put", "write"}
      BY <1>5, <2>1, UpdateCall DEF CallInv
    <3> QED  BY <1>1, <1>2, <3>1, BoardStays DEF Removal
  <2> QED  BY <1>3, <2>1
<1>6. ASSUME NEW n \in NewsIds, Remove(r, n) PROVE BoardInv'
  <2>1. CASE ~(Ended(r, "notFound") /\ req[r].op = "none")
    <3>1. /\ req[r].pc = "new" /\ req'[r].pc \in {"drop", "delete"} /\ req'[r].id = n
          /\ n \in Requests /\ At(n, "publish") => req'[r].early
      BY <1>6, <2>1, RemoveCall DEF CallInv
    <3> QED  BY <1>1, <1>2, <3>1, BoardStays DEF Removal
  <2> QED  BY <1>3, <2>1
<1>7. CASE Refuse(r)  BY <1>3, <1>7, RefuseCall DEF CallInv
<1>8. CASE Fail(r)
  <2>1. Ended(r, "failed")  BY <1>8, TellCalls DEF CallInv
  <2>2. Done(r, {"failed"})'  BY <2>1 DEF Ended, Done, At
  <2> QED  BY <1>1, <2>1, <2>2, SameBoard DEF Ended
<1> QED  BY <1>4, <1>5, <1>6, <1>7, <1>8 DEF Looks

\* The steps on the bucket, and an update of a row.
LEMMA QuietBoard ==
  ASSUME CallInv, BoardInv, NEW r \in Requests, Put(r) \/ Drop(r) \/ Write(r)
  PROVE  BoardInv'
<1>1. shown' = shown  BY DEF Put, Drop, Write
<1>2. CASE Put(r) \/ Drop(r)
  <2>1. /\ Moved(r) /\ Same(req[r], req'[r]) /\ req[r].pc \in {"put", "drop"}
        /\ req'[r].pc \in {"insert", "drop", "write", "delete", "done"}
    BY <1>2, PutCall, DropCall DEF CallInv, Went, Ended
  <2>2. row' = row  BY <1>2 DEF Put, Drop
  <2> QED  BY <1>1, <2>1, <2>2, SameBoard
<1>3. CASE Write(r)
  <2>1. /\ Moved(r) /\ req[r].op = "update" /\ req'[r].op = "update"
        /\ req[r].pc = "write" /\ req'[r].pc = "done" /\ req[r].id \in NewsIds
    BY <1>3, WriteCall DEF CallInv, Ended, Same
  <2>2. \A n \in NewsIds : row'[n].state = row[n].state
    <3> DEFINE m == req[r].id
    <3>1. row[m] \in RowState  BY <2>1 DEF CallInv, Tables
    <3>2. row' = row \/ row' = [row EXCEPT ![m].image = IF req[r].file THEN r ELSE @]
      BY <1>3, WriteCall DEF CallInv
    <3> HIDE DEF m
    <3> QED  BY <3>1, <3>2 DEF CallInv, Tables, RowState
  <2> QED  BY <1>1, <2>1, <2>2, BoardStays DEF Removal
<1> QED  BY <1>2, <1>3

\* Nobody has read a news that was not there.
LEMMA InsertBoard ==
  ASSUME CallInv, BoardInv, NEW r \in Requests, Insert(r)
  PROVE  BoardInv'
<1> DEFINE y == [ state |-> "present", image |-> IF req[r].file THEN r ELSE NULL ]
<1>1. /\ Moved(r) /\ req[r].pc = "insert" /\ req[r].op = "create" /\ req'[r].op = "create"
      /\ req'[r].pc = "publish"
  BY InsertCall DEF CallInv, Went, Same
<1>2. shown' = shown /\ row' = [row EXCEPT ![r] = y] /\ y.state = "present"
  BY DEF Insert
<1> HIDE DEF y
<1>3. row'[r].state = "present" /\ \A n \in NewsIds : n # r => row'[n] = row[n]
  BY <1>2 DEF CallInv, Tables, NewsIds
<1>4. \A s \in Requests : s # r => req'[s] = req[s]  BY <1>1 DEF Moved, Others
<1>5. row[r].state = "absent" /\ \A s \in Requests : ~Removal(s, r)
  BY <1>1 DEF CallInv, Rows, Removal
<1>6. RetractsRemoved'
  <2>1. ASSUME NEW s \in Requests, At(s, "retract")' PROVE row'[req'[s].id].state = "deleted"
    <3>1. At(s, "retract") /\ req'[s] = req[s]  BY <1>1, <1>4, <2>1 DEF At
    <3>2. req[s].op = "remove" /\ req[s].id \in NewsIds
      BY <3>1 DEF CallInv, Calls, Route, RequestState, At
    <3> QED  BY <1>3, <1>5, <3>1, <3>2 DEF BoardInv, RetractsRemoved
  <2> QED  BY <2>1 DEF RetractsRemoved
<1>7. \A s \in Requests, n \in NewsIds : Removal(s, n)' <=> Removal(s, n)
  BY <1>1, <1>4 DEF Removal
<1>8. RemovedEarly'
  <2>1. ASSUME NEW s \in Requests, NEW n \in Requests, Removal(s, n)', At(n, "publish")'
        PROVE  req'[s].early
    <3>1. Removal(s, n) /\ n # r  BY <1>5, <1>7, <2>1 DEF NewsIds
    <3> QED  BY <1>1, <1>4, <2>1, <3>1 DEF BoardInv, RemovedEarly, At, Removal
  <2> QED  BY <2>1 DEF RemovedEarly
<1>9. Removed'  BY <1>3, <1>7 DEF BoardInv, Removed
<1>10. LateOnScreen'
  <2>1. ASSUME NEW n \in shown', row'[n].state = "deleted"
        PROVE  \E s \in Requests :
                 (Removal(s, n) /\ (At(s, "retract") \/ Done(s, {"failed"}) \/ req[s].early))'
    <3>1. n \in NewsIds /\ n \in shown /\ row[n].state = "deleted"
      BY <1>2, <1>3, <2>1 DEF CallInv, Tables
    <3>2. PICK s \in Requests :
            Removal(s, n) /\ (At(s, "retract") \/ Done(s, {"failed"}) \/ req[s].early)
      BY <3>1 DEF BoardInv, LateOnScreen
    <3>3. s # r  BY <1>1, <3>2 DEF Removal
    <3> QED  BY <1>4, <3>2, <3>3 DEF Removal, At, Done
  <2> QED  BY <2>1 DEF LateOnScreen
<1>11. Unannounced'
  <2>1. ASSUME NEW n \in NewsIds \ shown', Present(n)'
        PROVE  n \in Requests /\ (At(n, "publish") \/ Done(n, {"failed"}))'
    <3>1. CASE n = r  BY <1>1, <3>1 DEF At
    <3>2. CASE n # r
      <4>1. n \in Requests /\ (At(n, "publish") \/ Done(n, {"failed"}))
        BY <1>2, <1>3, <2>1, <3>2 DEF BoardInv, Unannounced, Present
      <4> QED  BY <1>4, <3>2, <4>1 DEF At, Done
    <3> QED  BY <3>1, <3>2
  <2> QED  BY <2>1 DEF Unannounced
<1> QED  BY <1>6, <1>8, <1>9, <1>10, <1>11 DEF BoardInv

\* The row goes, and its removal is still to tell.
LEMMA DeleteRowBoard ==
  ASSUME CallInv, BoardInv, NEW r \in Requests, DeleteRow(r)
  PROVE  BoardInv'
<1> DEFINE m == req[r].id
<1>1. shown' = shown /\ req[r].pc = "delete"  BY DEF DeleteRow, At
<1>2. CASE Ended(r, "notFound") /\ row' = row
  BY <1>1, <1>2, SameBoard DEF Ended
<1>3. CASE ~(Ended(r, "notFound") /\ row' = row)
  <2>1. /\ Moved(r) /\ Same(req[r], req'[r]) /\ req'[r].pc = "retract"
        /\ req[r].op = "remove" /\ m \in NewsIds
        /\ row' = [row EXCEPT ![m] = [ state |-> "deleted", image |-> NULL ]]
    BY <1>3, DeleteRowCall DEF CallInv, Went
  <2>2. row'[m].state = "deleted" /\ \A n \in NewsIds : n # m => row'[n] = row[n]
    BY <2>1 DEF CallInv, Tables
  <2>3. \A s \in Requests : s # r => req'[s] = req[s]  BY <2>1 DEF Moved, Others
  <2>4. req'[r].id = m /\ req'[r].op = "remove"  BY <2>1 DEF Same
  <2> HIDE DEF m
  <2>5. RetractsRemoved'
    <3>1. ASSUME NEW s \in Requests, At(s, "retract")'
          PROVE  row'[req'[s].id].state = "deleted"
      <4>1. CASE s = r  BY <2>2, <2>4, <4>1
      <4>2. CASE s # r
        <5>1. At(s, "retract") /\ req'[s] = req[s]  BY <2>3, <3>1, <4>2 DEF At
        <5>2. req[s].id \in NewsIds
          BY <5>1 DEF CallInv, Calls, Route, RequestState, At
        <5> QED  BY <2>2, <5>1, <5>2 DEF BoardInv, RetractsRemoved
      <4> QED  BY <4>1, <4>2
    <3> QED  BY <3>1 DEF RetractsRemoved
  <2>6. \A s \in Requests : \A n \in NewsIds : Removal(s, n)' <=> Removal(s, n)
    BY <2>1, <2>3 DEF Removal, Same
  <2>7. \A s \in Requests : req'[s].early = req[s].early
    BY <2>1, <2>3 DEF Same
  <2>8. RemovedEarly'
    BY <2>1, <2>3, <2>6, <2>7 DEF BoardInv, RemovedEarly, At, NewsIds
  <2>9. Removed'
    <3>1. ASSUME NEW n \in NewsIds, row'[n].state = "deleted"
          PROVE  \E s \in Requests : req'[s].op = "remove" /\ req'[s].id = n
      <4>1. CASE n = m  BY <2>4, <4>1
      <4>2. CASE n # m  BY <2>2, <2>6, <3>1, <4>2 DEF BoardInv, Removed, Removal
      <4> QED  BY <4>1, <4>2
    <3> QED  BY <3>1 DEF Removed, Removal
  <2>10. LateOnScreen'
    <3>1. ASSUME NEW n \in shown', row'[n].state = "deleted"
          PROVE  \E s \in Requests :
                   (Removal(s, n) /\ (At(s, "retract") \/ Done(s, {"failed"}) \/ req[s].early))'
      <4>1. CASE n = m  BY <2>1, <2>4, <4>1 DEF At, Removal
      <4>2. CASE n # m
        <5>1. n \in NewsIds /\ n \in shown /\ row[n].state = "deleted"
          BY <1>1, <2>2, <3>1, <4>2 DEF CallInv, Tables
        <5>2. PICK s \in Requests :
                Removal(s, n) /\ (At(s, "retract") \/ Done(s, {"failed"}) \/ req[s].early)
          BY <5>1 DEF BoardInv, LateOnScreen
        <5>3. s # r  BY <4>2, <5>2 DEF Removal, m
        <5> QED  BY <2>3, <5>2, <5>3 DEF Removal, At, Done
      <4> QED  BY <4>1, <4>2
    <3> QED  BY <3>1 DEF LateOnScreen
  <2>11. Unannounced'
    <3>1. ASSUME NEW n \in NewsIds \ shown', Present(n)'
          PROVE  n \in Requests /\ (At(n, "publish") \/ Done(n, {"failed"}))'
      <4>1. n # m  BY <2>2, <3>1 DEF Present
      <4>2. n \in Requests /\ (At(n, "publish") \/ Done(n, {"failed"}))
        BY <1>1, <2>2, <3>1, <4>1 DEF BoardInv, Unannounced, Present
      <4>3. n # r  BY <1>1, <4>2 DEF At, Done
      <4> QED  BY <2>3, <4>2, <4>3 DEF At, Done
    <3> QED  BY <3>1 DEF Unannounced
  <2> QED  BY <2>5, <2>8, <2>9, <2>10, <2>11 DEF BoardInv
<1> QED  BY <1>2, <1>3

\* A news that was removed while its creation ran was removed early.
LEMMA PublishBoard ==
  ASSUME CallInv, BoardInv, NEW r \in Requests, Publish(r)
  PROVE  BoardInv'
<1>1. /\ Moved(r) /\ req[r].pc = "publish" /\ req[r].op = "create" /\ req'[r].op = "create"
      /\ req'[r].pc = "done" /\ r \in NewsIds
  BY TellCalls DEF CallInv, Ended, Same, NewsIds
<1>2. shown' = shown \cup {r} /\ row' = row  BY DEF Publish
<1>3. \A s \in Requests : s # r => req'[s] = req[s]  BY <1>1 DEF Moved, Others
<1>4. \A s \in Requests : \A n \in NewsIds : Removal(s, n)' <=> Removal(s, n)
  BY <1>1, <1>3 DEF Removal
<1>5. RetractsRemoved'
  BY <1>1, <1>2, <1>3 DEF BoardInv, RetractsRemoved, At
<1>6. RemovedEarly'
  <2>1. ASSUME NEW s \in Requests, NEW n \in Requests, Removal(s, n)', At(n, "publish")'
        PROVE  req'[s].early
    <3>1. n # r /\ s # r  BY <1>1, <2>1 DEF At, Removal
    <3> QED  BY <1>3, <2>1, <3>1 DEF BoardInv, RemovedEarly, At, Removal
  <2> QED  BY <2>1 DEF RemovedEarly
<1>7. Removed'  BY <1>2, <1>4 DEF BoardInv, Removed
<1>8. LateOnScreen'
  <2>1. ASSUME NEW n \in shown', row'[n].state = "deleted"
        PROVE  \E s \in Requests :
                 (Removal(s, n) /\ (At(s, "retract") \/ Done(s, {"failed"}) \/ req[s].early))'
    <3>1. PICK s \in Requests :
            Removal(s, n) /\ (At(s, "retract") \/ Done(s, {"failed"}) \/ req[s].early)
      <4>1. CASE n = r
        <5>1. PICK s \in Requests : Removal(s, r)
          BY <1>1, <1>2, <2>1, <4>1 DEF BoardInv, Removed
        <5>2. req[s].early  BY <1>1, <5>1 DEF BoardInv, RemovedEarly, At
        <5> QED  BY <4>1, <5>1, <5>2
      <4>2. CASE n # r  BY <1>2, <2>1, <4>2 DEF BoardInv, LateOnScreen
      <4> QED  BY <4>1, <4>2
    <3>2. s # r  BY <1>1, <3>1 DEF Removal
    <3> QED  BY <1>3, <3>1, <3>2 DEF Removal, At, Done
  <2> QED  BY <2>1 DEF LateOnScreen
<1>9. Unannounced'
  <2>1. ASSUME NEW n \in NewsIds \ shown', Present(n)'
        PROVE  n \in Requests /\ (At(n, "publish") \/ Done(n, {"failed"}))'
    <3>1. n # r /\ n \in Requests /\ (At(n, "publish") \/ Done(n, {"failed"}))
      BY <1>2, <2>1 DEF BoardInv, Unannounced, Present
    <3> QED  BY <1>3, <3>1 DEF At, Done
  <2> QED  BY <2>1 DEF Unannounced
<1> QED  BY <1>5, <1>6, <1>7, <1>8, <1>9 DEF BoardInv

LEMMA RetractBoard ==
  ASSUME CallInv, BoardInv, NEW r \in Requests, Retract(r)
  PROVE  BoardInv'
<1> DEFINE m == req[r].id
<1>1. /\ Moved(r) /\ req[r].pc = "retract" /\ Same(req[r], req'[r])
      /\ req'[r].pc = "done" /\ m \in NewsIds
  BY TellCalls DEF CallInv, Ended
<1>2. shown' = shown \ {m} /\ row' = row  BY DEF Retract
<1>3. row[m].state = "deleted"  BY <1>1 DEF BoardInv, RetractsRemoved, At
<1> HIDE DEF m
<1>4. \A s \in Requests : s # r => req'[s] = req[s]  BY <1>1 DEF Moved, Others
<1>5. \A s \in Requests :
        (\A n \in NewsIds : Removal(s, n)' <=> Removal(s, n)) /\ req'[s].early = req[s].early
  BY <1>1, <1>4 DEF Removal, Same
<1>6. RetractsRemoved'
  BY <1>1, <1>2, <1>4 DEF BoardInv, RetractsRemoved, At
<1>7. RemovedEarly'
  BY <1>1, <1>4, <1>5 DEF BoardInv, RemovedEarly, At, NewsIds
<1>8. Removed'  BY <1>2, <1>5 DEF BoardInv, Removed
<1>9. LateOnScreen'
  <2>1. ASSUME NEW n \in shown', row'[n].state = "deleted"
        PROVE  \E s \in Requests :
                 (Removal(s, n) /\ (At(s, "retract") \/ Done(s, {"failed"}) \/ req[s].early))'
    <3>1. PICK s \in Requests :
            Removal(s, n) /\ (At(s, "retract") \/ Done(s, {"failed"}) \/ req[s].early)
      BY <1>2, <2>1 DEF BoardInv, LateOnScreen
    <3>2. s # r  BY <1>2, <2>1, <3>1 DEF Removal, m
    <3> QED  BY <1>4, <3>1, <3>2 DEF Removal, At, Done
  <2> QED  BY <2>1 DEF LateOnScreen
<1>10. Unannounced'
  <2>1. ASSUME NEW n \in NewsIds \ shown', Present(n)'
        PROVE  n \in Requests /\ (At(n, "publish") \/ Done(n, {"failed"}))'
    <3>1. n # m  BY <1>2, <1>3, <2>1 DEF Present
    <3>2. n \in Requests /\ (At(n, "publish") \/ Done(n, {"failed"}))
      BY <1>2, <2>1, <3>1 DEF BoardInv, Unannounced, Present
    <3>3. n # r  BY <1>1, <3>2 DEF At, Done
    <3> QED  BY <1>4, <3>2, <3>3 DEF At, Done
  <2> QED  BY <2>1 DEF Unannounced
<1> QED  BY <1>6, <1>7, <1>8, <1>9, <1>10 DEF BoardInv

LEMMA BoardNext ==
  ASSUME CallInv, BoardInv, [Next]_newsVars
  PROVE  BoardInv'
<1>1. ASSUME NEW r \in Requests, Looks(r) PROVE BoardInv'
  BY <1>1, LooksBoard
<1>2. ASSUME NEW r \in Requests, Put(r) \/ Drop(r) \/ Write(r) PROVE BoardInv'
  BY <1>2, QuietBoard
<1>3. ASSUME NEW r \in Requests, Insert(r) \/ DeleteRow(r) \/ Publish(r) \/ Retract(r)
      PROVE  BoardInv'
  BY <1>3, InsertBoard, DeleteRowBoard, PublishBoard, RetractBoard
<1>4. CASE UNCHANGED newsVars
  BY <1>4 DEF newsVars, BoardInv, RetractsRemoved, RemovedEarly, Removed, LateOnScreen,
              Unannounced, Removal, Present, At, Done
<1> QED  BY <1>1, <1>2, <1>3, <1>4 DEF Next, Looks, Terminated

(***************************************************************************)
(* A removed news is on the screen of a connected client only while its    *)
(* removal has not told, when it failed, or when it overtook the           *)
(* announcement; one that exists is missing only while its creation has    *)
(* not told, or failed (news.service.ts:85-91, 151-156).                   *)
(***************************************************************************)
THEOREM BoardCorrect == Spec => []ScreenFollows
<1>1. Init => BoardInv
  <2> SUFFICES ASSUME Init PROVE BoardInv
    OBVIOUS
  <2>1. \A r \in Requests : req[r].pc = "new" /\ req[r].op = "none"
    BY DEF Init, NewRequest
  <2>2. \A n \in NewsIds : row[n].state = (IF n \in Seeds THEN "present" ELSE "absent")
    BY DEF Init, NoRow
  <2> QED
    BY <2>1, <2>2 DEF Init, BoardInv, RetractsRemoved, RemovedEarly, Removed, LateOnScreen,
                      Unannounced, Removal, Present, At, NewsIds
<1>2. CallInv /\ BoardInv /\ [Next]_newsVars => BoardInv'
  BY BoardNext
<1> QED  BY <1>1, <1>2, BoardImplies, NewsCorrect, PTL DEF Spec

----------------------------------------------------------------------------
(***************************************************************************)
(* The images.  Placed: an upload that succeeded is in the bucket until    *)
(* its row is written.  Named: no row and no request has an image before   *)
(* its row is written, and an image belongs to one news only.  Dropped: a  *)
(* request that has passed its deleteFile has deleted the image or S3      *)
(* refused to.  Overwritten: when the row has another image than a request *)
(* under way has read, then the request that wrote it knows it as one that *)
(* had read the row.                                                       *)
(***************************************************************************)
Owner(i) == IF i \in Requests THEN req[i].id ELSE i

Unwritten(r) == req[r].pc \in {"new", "put", "insert", "drop", "write"}

Placed ==
  /\ \A r \in Requests \cap bucket : req[r].file
  /\ \A r \in Requests : req[r].file /\ req[r].pc \in {"insert", "drop", "write"} => r \in bucket

Named ==
  /\ \A r \in Requests : Unwritten(r) =>
       /\ \A n \in NewsIds : row[n].image # r
       /\ \A s \in Requests : req[s].old # r
  /\ \A n \in NewsIds : row[n].image # NULL => Owner(row[n].image) = n
  /\ \A r \in Requests : req[r].old # NULL => Owner(req[r].old) = req[r].id

HasDropped(r) ==
  /\ req[r].old # NULL
  /\ \/ req[r].op = "update" /\ req[r].file /\ req[r].pc = "write"
     \/ req[r].pc = "delete"

Dropped == \A r \in Requests : HasDropped(r) => req[r].old \in kept \/ req[r].old \notin bucket

Replaced(i) == i \in Requests /\ req[i].with # {}

Overwritten ==
  \A r \in Requests : \A n \in NewsIds :
    req[r].op \in {"update", "remove"} /\ req[r].id = n /\ InFlight(r) =>
      row[n].image \in {NULL, req[r].old} \/ Replaced(row[n].image)

Shows(n, i) == Present(n) /\ row[n].image = i

Shown ==
  \A n, i \in NewsIds : Shows(n, i) /\ i \notin bucket =>
    \E r \in Requests : /\ req[r].id = n /\ req[r].old = i
                        /\ HasDropped(r) \/ Done(r, {"failed"})

Underway(i) ==
  /\ i \in Requests
  /\ req[i].pc \in {"put", "drop", "write", "insert"} \/ Done(i, {"failed", "notFound"})

Orphans ==
  \A i \in bucket : (\E n \in NewsIds : Shows(n, i)) \/ i \in kept \/ Underway(i) \/ Replaced(i)

ImageInv == Placed /\ Named /\ Dropped /\ Overwritten /\ Shown /\ Orphans

LEMMA ImagesImplies == CallInv /\ ImageInv => ImagesAccounted
<1> SUFFICES ASSUME CallInv, ImageInv PROVE ImagesAccounted
  OBVIOUS
<1>1. ImageShown
  <2> SUFFICES ASSUME NEW n \in NewsIds, Present(n), row[n].image \notin bucket \cup {NULL}
               PROVE  \E r \in Requests :
                        /\ req[r].id = n /\ req[r].old = row[n].image
                        /\ At(r, "write") \/ At(r, "delete") \/ Done(r, {"failed"})
    BY DEF ImageShown
  <2>1. row[n].image \in NewsIds  BY DEF CallInv, Tables, RowState
  <2>2. PICK r \in Requests : /\ req[r].id = n /\ req[r].old = row[n].image
                              /\ HasDropped(r) \/ Done(r, {"failed"})
    BY <2>1 DEF ImageInv, Shown, Shows
  <2> QED  BY <2>2 DEF HasDropped, At
<1>2. OrphansAccounted
  <2> SUFFICES ASSUME NEW i \in bucket, ~\E n \in NewsIds : Shows(n, i)
               PROVE  \/ i \in kept
                      \/ /\ i \in Requests
                         /\ InFlight(i) \/ Done(i, {"failed", "notFound"}) \/ req[i].with # {}
    BY DEF OrphansAccounted, Shows
  <2> QED  BY DEF ImageInv, Orphans, Underway, Replaced, InFlight, At
<1> QED  BY <1>1, <1>2 DEF ImagesAccounted

\* What a request does once it has begun: it keeps what it was asked and
\* what it has read, and a row it writes gets its image or none.
Steady == \A s \in Requests :
  /\ req'[s].op = req[s].op /\ req'[s].id = req[s].id
  /\ req'[s].old = req[s].old /\ req'[s].file = req[s].file

LEMMA SteadyMove ==
  ASSUME NEW r \in Requests, Moved(r), req'[r].op = req[r].op, req'[r].id = req[r].id,
         req'[r].old = req[r].old, req'[r].file = req[r].file
  PROVE  Steady
  BY DEF Moved, Others, Steady

LEMMA SteadyNamed ==
  ASSUME CallInv, Named, NEW r \in Requests, Moved(r), Steady,
         Unwritten(r)' => Unwritten(r),
         \A n \in NewsIds :
           \/ row'[n].image \in {row[n].image, NULL}
           \/ row'[n].image = r /\ n = req[r].id /\ ~Unwritten(r)'
  PROVE  Named'
<1>1. \A s \in Requests : s # r => req'[s] = req[s]  BY DEF Moved, Others
<1>2. \A s \in Requests : s # NULL  BY NullIsNoNews DEF NewsIds
<1>3. ASSUME NEW s \in Requests, Unwritten(s)'
      PROVE  /\ \A n \in NewsIds : row'[n].image # s
             /\ \A t \in Requests : req'[t].old # s
  <2>1. Unwritten(s)  BY <1>1, <1>3 DEF Unwritten
  <2>2. \A n \in NewsIds : row'[n].image # s
    BY <1>2, <1>3, <2>1 DEF Named
  <2> QED  BY <2>1, <2>2 DEF Named, Steady
<1>4. ASSUME NEW n \in NewsIds, NEW i, row'[n].image = i, i # NULL PROVE Owner(i) = n
  BY <1>4 DEF Named, Owner
<1>5. ASSUME NEW s \in Requests, NEW i, req'[s].old = i, i # NULL PROVE Owner(i) = req[s].id
  BY <1>5 DEF Named, Steady
<1>6. ASSUME NEW n \in NewsIds, row'[n].image # NULL PROVE Owner(row[n].image)' = n
  <2> DEFINE i == row'[n].image
  <2>1. Owner(i) = n  BY <1>4, <1>6
  <2>2. (IF i \in Requests THEN req[i].id ELSE i) = n  BY <2>1 DEF Owner
  <2>3. (IF i \in Requests THEN req'[i].id ELSE i) = n  BY <2>2 DEF Steady
  <2> QED  BY <2>3 DEF Owner
<1>7. ASSUME NEW s \in Requests, req'[s].old # NULL PROVE Owner(req[s].old)' = req'[s].id
  <2> DEFINE i == req'[s].old
  <2>1. Owner(i) = req[s].id  BY <1>5, <1>7
  <2>2. (IF i \in Requests THEN req[i].id ELSE i) = req[s].id  BY <2>1 DEF Owner
  <2>3. (IF i \in Requests THEN req'[i].id ELSE i) = req'[s].id  BY <2>2 DEF Steady
  <2> QED  BY <2>3 DEF Owner
<1> QED  BY <1>3, <1>6, <1>7 DEF Named

\* A request begins, with the image of a news that is there or with none.
LEMMA BeginImages ==
  ASSUME CallInv, ImageInv, NEW r \in Requests, Moved(r), req[r].pc = "new",
         req'[r].file => req'[r].pc = "put" \/ req'[r].pc = "done",
         req'[r].pc = "delete" => req'[r].old = NULL,
         req'[r].op \in {"update", "remove"} => req'[r].old = row[req'[r].id].image,
         req'[r].op = "create" => req'[r].old = NULL,
         req'[r].op # "none", UNCHANGED <<row, bucket, kept>>
  PROVE  ImageInv'
<1>1. \A s \in Requests : s # r => req'[s] = req[s]  BY DEF Moved, Others
<1>2. r \in NewsIds /\ r # NULL /\ ~req[r].file /\ req[r].old = NULL
  BY NewCall, NullIsNoNews DEF NewsIds, CallInv, At
<1>3. /\ \A n \in NewsIds : row[n].image # r
      /\ \A s \in Requests : req[s].old # r
      /\ r \notin bucket
  BY <1>2 DEF ImageInv, Named, Placed, Unwritten
<1>4. req'[r].op \in {"create", "update", "remove"} /\ Route(r, req'[r])
  BY DEF Moved, Calls, RequestState
<1>5. req'[r].old = NULL \/ (req'[r].id \in NewsIds /\ req'[r].old = row[req'[r].id].image)
  BY <1>4 DEF Route
<1>6. Placed'
  BY <1>1, <1>3 DEF ImageInv, Placed
<1>7. Named'
  <2>1. ASSUME NEW s \in Requests, Unwritten(s)'
        PROVE  /\ \A n \in NewsIds : row'[n].image # s
               /\ \A t \in Requests : req'[t].old # s
    <3>1. Unwritten(s)
      <4>1. CASE s = r  BY <4>1 DEF Unwritten
      <4>2. CASE s # r  BY <1>1, <2>1, <4>2 DEF Unwritten
      <4> QED  BY <4>1, <4>2
    <3>2. s # NULL  BY NullIsNoNews DEF NewsIds
    <3>3. \A n \in NewsIds : row[n].image # s  BY <3>1 DEF ImageInv, Named
    <3>4. \A t \in Requests : req[t].old # s  BY <3>1 DEF ImageInv, Named
    <3>5. req'[r].old # s  BY <1>5, <3>2, <3>3
    <3> QED  BY <1>1, <3>3, <3>4, <3>5
  <2>2. ASSUME NEW i, NEW n, i # r, Owner(i) = n
        PROVE  (IF i \in Requests THEN req'[i].id ELSE i) = n
    BY <1>1, <2>2 DEF Owner
  <2>3. \A n \in NewsIds : row[n].image # NULL =>
          (IF row[n].image \in Requests THEN req'[row[n].image].id ELSE row[n].image) = n
    BY <1>3, <2>2 DEF ImageInv, Named
  <2>4. ASSUME NEW s \in Requests, req'[s].old # NULL
        PROVE  (IF req'[s].old \in Requests THEN req'[req'[s].old].id ELSE req'[s].old)
                 = req'[s].id
    <3>1. CASE s = r  BY <1>5, <2>3, <2>4, <3>1
    <3>2. CASE s # r
      <4>1. req'[s] = req[s] /\ req[s].old # r  BY <1>1, <1>3, <3>2
      <4>2. Owner(req[s].old) = req[s].id  BY <2>4, <4>1 DEF ImageInv, Named
      <4> QED  BY <2>2, <4>1, <4>2
    <3> QED  BY <3>1, <3>2
  <2> QED  BY <2>1, <2>3, <2>4 DEF Named, Owner
<1>8. Dropped'
  <2>1. ASSUME NEW s \in Requests, HasDropped(s)'
        PROVE  req'[s].old \in kept' \/ req'[s].old \notin bucket'
    <3>1. s # r  BY <1>2, <2>1 DEF HasDropped
    <3> QED  BY <1>1, <2>1, <3>1 DEF HasDropped, ImageInv, Dropped
  <2> QED  BY <2>1 DEF Dropped
<1>9. \A i : i # r => (Replaced(i)' <=> Replaced(i)) /\ (Underway(i)' <=> Underway(i))
  BY <1>1 DEF Replaced, Underway, Done, At
<1>10. Overwritten'
  <2>1. ASSUME NEW s \in Requests, NEW n \in NewsIds,
               req'[s].op \in {"update", "remove"}, req'[s].id = n, InFlight(s)'
        PROVE  row[n].image \in {NULL, req'[s].old}
               \/ (row[n].image \in Requests /\ req'[row[n].image].with # {})
    <3>1. CASE s = r  BY <2>1, <3>1
    <3>2. CASE s # r
      <4>1. row[n].image \in {NULL, req[s].old} \/ Replaced(row[n].image)
        BY <1>1, <2>1, <3>2 DEF ImageInv, Overwritten, InFlight, At
      <4>2. row[n].image # r  BY <1>3
      <4> QED  BY <1>1, <3>2, <4>1, <4>2 DEF Replaced
    <3> QED  BY <3>1, <3>2
  <2> QED  BY <2>1 DEF Overwritten, Replaced
<1>11. Shown'
  <2>1. ASSUME NEW n \in NewsIds, NEW i \in NewsIds, Shows(n, i)', i \notin bucket'
        PROVE  \E s \in Requests : (/\ req[s].id = n /\ req[s].old = i
                                    /\ HasDropped(s) \/ Done(s, {"failed"}))'
    <3>1. PICK s \in Requests : /\ req[s].id = n /\ req[s].old = i
                                /\ HasDropped(s) \/ Done(s, {"failed"})
      BY <2>1 DEF ImageInv, Shown, Shows, Present
    <3>2. s # r  BY <1>2, <3>1 DEF HasDropped, Done, At
    <3> QED  BY <1>1, <3>1, <3>2 DEF HasDropped, Done, At
  <2> QED  BY <2>1 DEF Shown
<1>12. Orphans'
  BY <1>3, <1>9 DEF ImageInv, Orphans, Shows, Present
<1> QED  BY <1>6, <1>7, <1>8, <1>10, <1>11, <1>12 DEF ImageInv

\* A request ends, and writes no row.
LEMMA EndImages ==
  ASSUME CallInv, ImageInv, NEW r \in Requests, NEW result, Ended(r, result),
         HasDropped(r) => result = "failed" \/ ~Present(req[r].id),
         req[r].pc \in {"put", "drop", "write", "insert"} => result \in {"failed", "notFound"},
         UNCHANGED <<row, bucket, kept>>
  PROVE  ImageInv'
<1>1. \A s \in Requests : s # r => req'[s] = req[s]  BY DEF Ended, Moved, Others
<1>2. Moved(r) /\ Same(req[r], req'[r]) /\ req'[r].pc = "done" /\ req'[r].result = result
  BY DEF Ended
<1>3. Steady  BY <1>2, SteadyMove DEF Same
<1>4. Placed'  BY <1>1, <1>2, <1>3 DEF ImageInv, Placed, Steady
<1>5. Named'  BY <1>2, <1>3, SteadyNamed DEF ImageInv, Unwritten
<1>6. Dropped'
  <2>1. ASSUME NEW s \in Requests, HasDropped(s)'
        PROVE  req'[s].old \in kept' \/ req'[s].old \notin bucket'
    <3>1. s # r  BY <1>2, <2>1 DEF HasDropped
    <3> QED  BY <1>1, <2>1, <3>1 DEF HasDropped, ImageInv, Dropped
  <2> QED  BY <2>1 DEF Dropped
<1>7. \A s \in Requests : req'[s].with = req[s].with  BY <1>1, <1>2 DEF Same
<1>8. Overwritten'
  <2>1. ASSUME NEW s \in Requests, NEW n \in NewsIds,
               req'[s].op \in {"update", "remove"}, req'[s].id = n, InFlight(s)'
        PROVE  row[n].image \in {NULL, req'[s].old}
               \/ (row[n].image \in Requests /\ req'[row[n].image].with # {})
    <3>1. s # r  BY <1>2, <2>1 DEF InFlight, At
    <3>2. row[n].image \in {NULL, req[s].old} \/ Replaced(row[n].image)
      BY <1>1, <2>1, <3>1 DEF ImageInv, Overwritten, InFlight, At
    <3> QED  BY <1>1, <1>7, <3>1, <3>2 DEF Replaced
  <2> QED  BY <2>1 DEF Overwritten, Replaced
<1>9. Shown'
  <2>1. ASSUME NEW n \in NewsIds, NEW i \in NewsIds, Shows(n, i)', i \notin bucket'
        PROVE  \E s \in Requests : (/\ req[s].id = n /\ req[s].old = i
                                    /\ HasDropped(s) \/ Done(s, {"failed"}))'
    <3>1. Present(n)  BY <2>1 DEF Shows, Present
    <3>2. PICK s \in Requests : /\ req[s].id = n /\ req[s].old = i
                                /\ HasDropped(s) \/ Done(s, {"failed"})
      BY <2>1 DEF ImageInv, Shown, Shows, Present
    <3>3. CASE s # r  BY <1>1, <3>2, <3>3 DEF HasDropped, Done, At
    <3>4. CASE s = r
      <4>1. HasDropped(r)  BY <1>2, <3>2, <3>4 DEF Moved, Done, At
      <4>2. result = "failed"  BY <3>1, <3>2, <3>4, <4>1
      <4> QED  BY <1>2, <1>3, <3>2, <3>4, <4>2 DEF Done, At, Steady
    <3> QED  BY <3>3, <3>4
  <2> QED  BY <2>1 DEF Shown
<1>10. \A i : Replaced(i)' <=> Replaced(i)  BY <1>7 DEF Replaced
<1>11. \A i : Underway(i) => Underway(i)'
  <2> SUFFICES ASSUME NEW i, Underway(i) PROVE Underway(i)'
    OBVIOUS
  <2>1. CASE i # r  BY <1>1, <2>1 DEF Underway, Done, At
  <2>2. CASE i = r
    <3>1. result \in {"failed", "notFound"}  BY <1>2, <2>2 DEF Underway, Done, At, Moved
    <3> QED  BY <1>2, <2>2, <3>1 DEF Underway, Done, At
  <2> QED  BY <2>1, <2>2
<1>12. Orphans'
  BY <1>10, <1>11 DEF ImageInv, Orphans, Shows, Present
<1> QED  BY <1>4, <1>5, <1>6, <1>8, <1>9, <1>12 DEF ImageInv

LEMMA LooksImages ==
  ASSUME CallInv, ImageInv, NEW r \in Requests, Looks(r)
  PROVE  ImageInv'
<1>1. Moved(r) /\ UNCHANGED <<row, bucket, shown, kept>>  BY LooksCalls
<1>2. ASSUME NEW result \in {"rejected", "notFound"}, Ended(r, result), req[r].op = "none"
      PROVE  ImageInv'
  <2>1. req[r].old = NULL /\ req[r].pc \in {"new", "done"}
    BY <1>2 DEF CallInv, Calls, Route
  <2> QED  BY <1>1, <1>2, <2>1, EndImages DEF HasDropped
<1>3. ASSUME NEW file \in BOOLEAN, Create(r, file) PROVE ImageInv'
  <2>1. /\ req[r].pc = "new" /\ req'[r].op = "create" /\ req'[r].old = NULL
        /\ req'[r].file = file /\ req'[r].pc = (IF file THEN "put" ELSE "insert")
    BY <1>3, CreateCall DEF CallInv
  <2> QED  BY <1>1, <2>1, BeginImages
<1>4. ASSUME NEW n \in NewsIds, NEW file \in BOOLEAN, Update(r, n, file) PROVE ImageInv'
  <2>1. CASE ~(Ended(r, "notFound") /\ req[r].op = "none")
    <3>1. /\ req[r].pc = "new" /\ req'[r].op = "update" /\ req'[r].id = n
          /\ req'[r].old = row[n].image /\ req'[r].file = file
          /\ req'[r].pc = (IF file THEN "put" ELSE "write")
      BY <1>4, <2>1, UpdateCall DEF CallInv
    <3> QED  BY <1>1, <3>1, BeginImages
  <2> QED  BY <1>2, <2>1
<1>5. ASSUME NEW n \in NewsIds, Remove(r, n) PROVE ImageInv'
  <2>1. CASE ~(Ended(r, "notFound") /\ req[r].op = "none")
    <3>1. /\ req[r].pc = "new" /\ req'[r].op = "remove" /\ req'[r].id = n
          /\ req'[r].old = row[n].image /\ ~req'[r].file
          /\ req'[r].pc = (IF row[n].image = NULL THEN "delete" ELSE "drop")
      BY <1>5, <2>1, RemoveCall DEF CallInv
    <3> QED  BY <1>1, <3>1, BeginImages
  <2> QED  BY <1>2, <2>1
<1>6. CASE Refuse(r)  BY <1>2, <1>6, RefuseCall DEF CallInv
<1>7. CASE Fail(r)
  <2>1. Ended(r, "failed")  BY <1>7, TellCalls DEF CallInv
  <2> QED  BY <1>1, <2>1, EndImages
<1> QED  BY <1>3, <1>4, <1>5, <1>6, <1>7 DEF Looks

LEMMA TellImages ==
  ASSUME CallInv, ImageInv, NEW r \in Requests, Publish(r) \/ Retract(r)
  PROVE  ImageInv'
<1>1. Ended(r, "ok") /\ req[r].pc \in {"publish", "retract"}  BY TellCalls DEF CallInv
<1>2. UNCHANGED <<row, bucket, kept>>  BY DEF Publish, Retract
<1> QED  BY <1>1, <1>2, EndImages DEF HasDropped

LEMMA PutImages ==
  ASSUME CallInv, ImageInv, NEW r \in Requests, Put(r)
  PROVE  ImageInv'
<1>1. /\ Moved(r) /\ Same(req[r], req'[r]) /\ req[r].pc = "put" /\ req[r].file
      /\ bucket' \in {bucket, bucket \cup {r}}
      /\ \/ bucket' = bucket \cup {r} /\ req'[r].pc \in {"insert", "drop", "write"}
         \/ req'[r].pc = "done" /\ req'[r].result = "failed"
      /\ req'[r].pc = "write" => req[r].old = NULL
  BY PutCall DEF CallInv, Went, Ended
<1>2. row' = row /\ kept' = kept  BY DEF Put
<1>3. \A s \in Requests : s # r => req'[s] = req[s]  BY <1>1 DEF Moved, Others
<1>4. Steady  BY <1>1, SteadyMove DEF Same
<1>5. Placed'
  <2>1. ASSUME NEW s \in Requests, s \in bucket' PROVE req'[s].file
    BY <1>1, <1>4, <2>1 DEF ImageInv, Placed, Steady
  <2>2. ASSUME NEW s \in Requests, req'[s].file, req'[s].pc \in {"insert", "drop", "write"}
        PROVE  s \in bucket'
    BY <1>1, <1>3, <2>2 DEF ImageInv, Placed
  <2> QED  BY <2>1, <2>2 DEF Placed
<1>6. Named'  BY <1>1, <1>2, <1>4, SteadyNamed DEF ImageInv, Unwritten
<1>7. Dropped'
  <2>1. ASSUME NEW s \in Requests, HasDropped(s)'
        PROVE  req'[s].old \in kept' \/ req'[s].old \notin bucket'
    <3>1. s # r  BY <1>1, <2>1 DEF HasDropped, Same
    <3>2. req[s].old # r  BY <1>1 DEF ImageInv, Named, Unwritten
    <3> QED  BY <1>1, <1>2, <1>3, <2>1, <3>1, <3>2 DEF HasDropped, ImageInv, Dropped
  <2> QED  BY <2>1 DEF Dropped
<1>8. \A s \in Requests : req'[s].with = req[s].with  BY <1>1, <1>3 DEF Same
<1>9. Overwritten'
  <2>1. ASSUME NEW s \in Requests, NEW n \in NewsIds,
               req'[s].op \in {"update", "remove"}, req'[s].id = n, InFlight(s)'
        PROVE  row[n].image \in {NULL, req'[s].old}
               \/ (row[n].image \in Requests /\ req'[row[n].image].with # {})
    <3>1. req[s].op \in {"update", "remove"} /\ req[s].id = n /\ InFlight(s)
      BY <1>1, <1>3, <2>1 DEF InFlight, At, Same
    <3>2. row[n].image \in {NULL, req[s].old} \/ Replaced(row[n].image)
      BY <3>1 DEF ImageInv, Overwritten
    <3> QED  BY <1>4, <1>8, <3>2 DEF Replaced, Steady
  <2> QED  BY <1>2, <2>1 DEF Overwritten, Replaced
<1>10. Shown'
  <2>1. ASSUME NEW n \in NewsIds, NEW i \in NewsIds, Shows(n, i)', i \notin bucket'
        PROVE  \E s \in Requests : (/\ req[s].id = n /\ req[s].old = i
                                    /\ HasDropped(s) \/ Done(s, {"failed"}))'
    <3>1. PICK s \in Requests : /\ req[s].id = n /\ req[s].old = i
                                /\ HasDropped(s) \/ Done(s, {"failed"})
      BY <1>1, <1>2, <2>1 DEF ImageInv, Shown, Shows, Present
    <3>2. s # r  BY <1>1, <3>1 DEF HasDropped, Done, At
    <3> QED  BY <1>3, <3>1, <3>2 DEF HasDropped, Done, At
  <2> QED  BY <2>1 DEF Shown
<1>11. \A i : Replaced(i)' <=> Replaced(i)  BY <1>8 DEF Replaced
<1>12. \A i : Underway(i) => Underway(i)'
  <2> SUFFICES ASSUME NEW i, Underway(i) PROVE Underway(i)'
    OBVIOUS
  <2>1. CASE i # r  BY <1>3, <2>1 DEF Underway, Done, At
  <2>2. CASE i = r  BY <1>1, <2>2 DEF Underway, Done, At
  <2> QED  BY <2>1, <2>2
<1>13. Underway(r)  BY <1>1 DEF Underway
<1>14. Orphans'
  <2>1. ASSUME NEW i \in bucket'
        PROVE  (\E n \in NewsIds : Shows(n, i)') \/ i \in kept' \/ Underway(i)' \/ Replaced(i)'
    <3>1. (\E n \in NewsIds : Shows(n, i)) \/ i \in kept \/ Underway(i) \/ Replaced(i)
      BY <1>1, <1>13 DEF ImageInv, Orphans
    <3> QED  BY <1>2, <1>11, <1>12, <3>1 DEF Shows, Present
  <2> QED  BY <2>1 DEF Orphans
<1> QED  BY <1>5, <1>6, <1>7, <1>9, <1>10, <1>14 DEF ImageInv

\* An image that is deleted, or was to be, is that of the news of the
\* request: it is the request that accounts for it.
LEMMA DropImages ==
  ASSUME CallInv, ImageInv, NEW r \in Requests, Drop(r)
  PROVE  ImageInv'
<1> DEFINE i == req[r].old
<1>1. /\ Moved(r) /\ Same(req[r], req'[r]) /\ req[r].pc = "drop" /\ i # NULL
      /\ \/ req[r].op = "update" /\ req[r].file /\ req'[r].pc = "write"
         \/ req[r].op = "remove" /\ req'[r].pc = "delete"
  BY DropCall DEF CallInv, Went
<1>2. /\ row' = row
      /\ \/ bucket' = bucket \ {i} /\ kept' = kept
         \/ bucket' = bucket /\ kept' = kept \cup {i}
  BY DEF Drop
<1>3. \A s \in Requests : s # r => req'[s] = req[s]  BY <1>1 DEF Moved, Others
<1>4. Steady  BY <1>1, SteadyMove DEF Same
<1>5. HasDropped(r)' /\ req'[r].old = i  BY <1>1 DEF HasDropped, Same
<1>6. \A n \in NewsIds : row[n].image = i => n = req[r].id
  BY <1>1 DEF ImageInv, Named
<1>7. \A s \in Requests : Unwritten(s) => s # i  BY DEF ImageInv, Named
<1> HIDE DEF i
<1>8. Placed'
  <2>1. \A s \in Requests : s \in bucket' => req'[s].file
    BY <1>2, <1>4 DEF ImageInv, Placed, Steady
  <2>2. ASSUME NEW s \in Requests, req'[s].file, req'[s].pc \in {"insert", "drop", "write"}
        PROVE  s \in bucket'
    <3>1. req[s].file /\ req[s].pc \in {"insert", "drop", "write"}
      BY <1>1, <1>3, <1>4, <2>2 DEF Steady
    <3>2. s \in bucket /\ s # i  BY <1>7, <3>1 DEF ImageInv, Placed, Unwritten
    <3> QED  BY <1>2, <3>2
  <2> QED  BY <2>1, <2>2 DEF Placed
<1>9. Named'  BY <1>1, <1>2, <1>4, SteadyNamed DEF ImageInv, Unwritten
<1>10. Dropped'
  <2>1. ASSUME NEW s \in Requests, HasDropped(s)'
        PROVE  req'[s].old \in kept' \/ req'[s].old \notin bucket'
    <3>1. CASE s = r  BY <1>2, <1>5, <3>1
    <3>2. CASE s # r
      BY <1>2, <1>3, <2>1, <3>2 DEF HasDropped, ImageInv, Dropped
    <3> QED  BY <3>1, <3>2
  <2> QED  BY <2>1 DEF Dropped
<1>11. \A s \in Requests : req'[s].with = req[s].with  BY <1>1, <1>3 DEF Same
<1>12. Overwritten'
  <2>1. ASSUME NEW s \in Requests, NEW n \in NewsIds,
               req'[s].op \in {"update", "remove"}, req'[s].id = n, InFlight(s)'
        PROVE  row[n].image \in {NULL, req'[s].old}
               \/ (row[n].image \in Requests /\ req'[row[n].image].with # {})
    <3>1. req[s].op \in {"update", "remove"} /\ req[s].id = n /\ InFlight(s)
      BY <1>1, <1>3, <2>1 DEF InFlight, At, Same
    <3>2. row[n].image \in {NULL, req[s].old} \/ Replaced(row[n].image)
      BY <3>1 DEF ImageInv, Overwritten
    <3> QED  BY <1>4, <1>11, <3>2 DEF Replaced, Steady
  <2> QED  BY <1>2, <2>1 DEF Overwritten, Replaced
<1>13. Shown'
  <2>1. ASSUME NEW n \in NewsIds, NEW j \in NewsIds, Shows(n, j)', j \notin bucket'
        PROVE  \E s \in Requests : (/\ req[s].id = n /\ req[s].old = j
                                    /\ HasDropped(s) \/ Done(s, {"failed"}))'
    <3>1. Shows(n, j)  BY <1>2, <2>1 DEF Shows, Present
    <3>2. CASE j \in bucket
      <4>1. j = i  BY <1>2, <2>1, <3>2
      <4>2. req'[r].id = n  BY <1>4, <1>6, <3>1, <4>1 DEF Shows, Steady
      <4> QED  BY <1>5, <4>1, <4>2
    <3>3. CASE j \notin bucket
      <4>1. PICK s \in Requests : /\ req[s].id = n /\ req[s].old = j
                                  /\ HasDropped(s) \/ Done(s, {"failed"})
        BY <3>1, <3>3 DEF ImageInv, Shown
      <4>2. s # r  BY <1>1, <4>1 DEF HasDropped, Done, At
      <4> QED  BY <1>3, <4>1, <4>2 DEF HasDropped, Done, At
    <3> QED  BY <3>2, <3>3
  <2> QED  BY <2>1 DEF Shown
<1>14. \A j : Replaced(j)' <=> Replaced(j)  BY <1>11 DEF Replaced
<1>15. ASSUME NEW j \in bucket, Underway(j) PROVE Underway(j)'
  <2>1. CASE j # r  BY <1>3, <1>15, <2>1 DEF Underway, Done, At
  <2>2. CASE j = r
    <3>1. req[r].file  BY <1>15, <2>2 DEF ImageInv, Placed
    <3>2. req[r].op = "update"  BY <1>1, <3>1 DEF CallInv, Calls, Route
    <3> QED  BY <1>1, <2>2, <3>2 DEF Underway
  <2> QED  BY <2>1, <2>2
<1>16. Orphans'
  <2>1. ASSUME NEW j \in bucket'
        PROVE  (\E n \in NewsIds : Shows(n, j)') \/ j \in kept' \/ Underway(j)' \/ Replaced(j)'
    <3>1. /\ j \in bucket
          /\ (\E n \in NewsIds : Shows(n, j)) \/ j \in kept \/ Underway(j) \/ Replaced(j)
      BY <1>2 DEF ImageInv, Orphans
    <3> QED  BY <1>2, <1>14, <1>15, <3>1 DEF Shows, Present
  <2> QED  BY <2>1 DEF Orphans
<1> QED  BY <1>8, <1>9, <1>10, <1>12, <1>13, <1>16 DEF ImageInv

LEMMA InsertImages ==
  ASSUME CallInv, ImageInv, NEW r \in Requests, Insert(r)
  PROVE  ImageInv'
<1> DEFINE y == [ state |-> "present", image |-> IF req[r].file THEN r ELSE NULL ]
<1>1. /\ Moved(r) /\ Same(req[r], req'[r]) /\ req[r].pc = "insert" /\ req[r].op = "create"
      /\ req[r].id = r /\ req'[r].pc = "publish"
  BY InsertCall DEF CallInv, Went
<1>2. /\ bucket' = bucket /\ kept' = kept /\ row' = [row EXCEPT ![r] = y]
      /\ y.state = "present" /\ y.image = (IF req[r].file THEN r ELSE NULL)
  BY DEF Insert
<1> HIDE DEF y
<1>3. row'[r] = y /\ \A n \in NewsIds : n # r => row'[n] = row[n]
  BY <1>2 DEF CallInv, Tables, NewsIds
<1>4. \A s \in Requests : s # r => req'[s] = req[s]  BY <1>1 DEF Moved, Others
<1>5. Steady  BY <1>1, SteadyMove DEF Same
<1>6. /\ row[r].state = "absent" /\ req[r].old = NULL
      /\ \A s \in Requests : req[s].op \in {"update", "remove"} => req[s].id # r
  BY <1>1 DEF CallInv, Calls, Route, Rows
<1>7. IF req[r].file THEN r \in bucket ELSE r \notin bucket
  BY <1>1 DEF ImageInv, Placed
<1>8. Placed'  BY <1>1, <1>2, <1>4, <1>5 DEF ImageInv, Placed, Steady
<1>9. Named'
  <2>1. \A n \in NewsIds : \/ row'[n].image \in {row[n].image, NULL}
                           \/ row'[n].image = r /\ n = req[r].id /\ ~Unwritten(r)'
    BY <1>1, <1>2, <1>3 DEF Unwritten
  <2> QED  BY <1>1, <1>5, <2>1, SteadyNamed DEF ImageInv, Unwritten
<1>10. Dropped'
  <2>1. ASSUME NEW s \in Requests, HasDropped(s)'
        PROVE  req'[s].old \in kept' \/ req'[s].old \notin bucket'
    <3>1. s # r  BY <1>1, <2>1 DEF HasDropped
    <3> QED  BY <1>2, <1>4, <2>1, <3>1 DEF HasDropped, ImageInv, Dropped
  <2> QED  BY <2>1 DEF Dropped
<1>11. \A s \in Requests : req'[s].with = req[s].with  BY <1>1, <1>4 DEF Same
<1>12. Overwritten'
  <2>1. ASSUME NEW s \in Requests, NEW n \in NewsIds,
               req'[s].op \in {"update", "remove"}, req'[s].id = n, InFlight(s)'
        PROVE  row'[n].image \in {NULL, req'[s].old}
               \/ (row'[n].image \in Requests /\ req'[row'[n].image].with # {})
    <3>1. s # r  BY <1>1, <2>1 DEF Same
    <3>2. req[s].op \in {"update", "remove"} /\ req[s].id = n /\ InFlight(s)
      BY <1>4, <2>1, <3>1 DEF InFlight, At
    <3>3. row[n].image \in {NULL, req[s].old} \/ Replaced(row[n].image)
      BY <3>2 DEF ImageInv, Overwritten
    <3>4. row'[n] = row[n]  BY <1>3, <1>6, <3>2
    <3> QED  BY <1>5, <1>11, <3>3, <3>4 DEF Replaced, Steady
  <2> QED  BY <2>1 DEF Overwritten, Replaced
<1>13. Shown'
  <2>1. ASSUME NEW n \in NewsIds, NEW i \in NewsIds, Shows(n, i)', i \notin bucket'
        PROVE  \E s \in Requests : (/\ req[s].id = n /\ req[s].old = i
                                    /\ HasDropped(s) \/ Done(s, {"failed"}))'
    <3>1. n # r  BY <1>2, <1>3, <1>7, <2>1, NullIsNoNews DEF Shows
    <3>2. PICK s \in Requests : /\ req[s].id = n /\ req[s].old = i
                                /\ HasDropped(s) \/ Done(s, {"failed"})
      BY <1>2, <1>3, <2>1, <3>1 DEF ImageInv, Shown, Shows, Present
    <3>3. s # r  BY <1>6, <3>2, NullIsNoNews
    <3> QED  BY <1>4, <3>2, <3>3 DEF HasDropped, Done, At
  <2> QED  BY <2>1 DEF Shown
<1>14. \A i : Replaced(i)' <=> Replaced(i)  BY <1>11 DEF Replaced
<1>15. Orphans'
  <2>1. ASSUME NEW i \in bucket'
        PROVE  (\E n \in NewsIds : Shows(n, i)') \/ i \in kept' \/ Underway(i)' \/ Replaced(i)'
    <3>1. CASE i = r
      <4>1. Shows(r, r)'  BY <1>2, <1>3, <1>7, <2>1, <3>1 DEF Shows, Present
      <4> QED  BY <3>1, <4>1 DEF NewsIds
    <3>2. CASE i # r
      <4>1. (\E n \in NewsIds : Shows(n, i)) \/ i \in kept \/ Underway(i) \/ Replaced(i)
        BY <1>2 DEF ImageInv, Orphans
      <4>2. \A n \in NewsIds : Shows(n, i) => Shows(n, i)'
        BY <1>3, <1>6 DEF Shows, Present
      <4>3. Underway(i) => Underway(i)'  BY <1>4, <3>2 DEF Underway, Done, At
      <4> QED  BY <1>2, <1>14, <4>1, <4>2, <4>3
    <3> QED  BY <3>1, <3>2
  <2> QED  BY <2>1 DEF Orphans
<1> QED  BY <1>8, <1>9, <1>10, <1>12, <1>13, <1>15 DEF ImageInv

\* The row of a request is written.  The image that it loses is the one the
\* request has dropped, or another request has written it meanwhile; whoever
\* else has read the row is among the Readers of this one.
LEMMA RowImages ==
  ASSUME CallInv, ImageInv, NEW r \in Requests, NEW n \in NewsIds, NEW y, Moved(r), Steady,
         req[r].id = n, Present(n), req[r].op \in {"update", "remove"}, InFlight(r),
         req[r].old # NULL => HasDropped(r),
         ~Unwritten(r)', req'[r].pc # "delete",
         row' = [row EXCEPT ![n] = y],
         IF r \in bucket THEN y.state = "present" /\ y.image = r /\ req'[r].with = Readers(r)
                         ELSE y.image = NULL,
         r \notin bucket => req'[r].with = req[r].with,
         UNCHANGED <<bucket, kept>>
  PROVE  ImageInv'
<1> DEFINE e == row[n].image
<1>1. \A s \in Requests : s # r => req'[s] = req[s]  BY DEF Moved, Others
<1>2. row'[n] = y /\ \A m \in NewsIds : m # n => row'[m] = row[m]
  BY DEF CallInv, Tables
<1>3. req[r].pc \notin {"new", "done"} /\ r \in NewsIds /\ r # NULL
  BY NullIsNoNews DEF InFlight, At, NewsIds
<1>4. e = NULL \/ e \in kept \/ e \notin bucket \/ (Replaced(e) /\ req'[e].with # {})
  <2>1. e \in {NULL, req[r].old} \/ Replaced(e)
    BY DEF ImageInv, Overwritten
  <2>2. e # NULL /\ e = req[r].old => e \in kept \/ e \notin bucket
    BY DEF ImageInv, Dropped
  <2>3. Replaced(e) => req'[e].with # {} \/ e = r
    BY <1>1 DEF Replaced
  <2>4. e = r => ~Unwritten(r)  BY DEF ImageInv, Named
  <2>5. ~Unwritten(r) => r \notin bucket
    <3>1. ~Unwritten(r) => req[r].op = "remove"
      BY <1>3 DEF CallInv, Calls, Route, Unwritten
    <3> QED  BY <3>1 DEF CallInv, Calls, Route, ImageInv, Placed
  <2> QED  BY <2>1, <2>2, <2>3, <2>4, <2>5
<1>5. Placed'
  <2>1. \A s \in Requests : s \in bucket' => req'[s].file
    BY DEF ImageInv, Placed, Steady
  <2>2. ASSUME NEW s \in Requests, req'[s].file, req'[s].pc \in {"insert", "drop", "write"}
        PROVE  s \in bucket'
    <3>1. s # r  BY <2>2 DEF Unwritten
    <3> QED  BY <1>1, <2>2, <3>1 DEF ImageInv, Placed
  <2> QED  BY <2>1, <2>2 DEF Placed
<1>6. Named'
  <2>1. \A m \in NewsIds : \/ row'[m].image \in {row[m].image, NULL}
                           \/ row'[m].image = r /\ m = req[r].id /\ ~Unwritten(r)'
    BY <1>2
  <2> QED  BY <2>1, SteadyNamed DEF ImageInv
<1>7. Dropped'
  <2>1. ASSUME NEW s \in Requests, HasDropped(s)'
        PROVE  req'[s].old \in kept' \/ req'[s].old \notin bucket'
    <3>1. s # r  BY <2>1 DEF HasDropped, Unwritten
    <3> QED  BY <1>1, <2>1, <3>1 DEF HasDropped, ImageInv, Dropped
  <2> QED  BY <2>1 DEF Dropped
<1>8. \A i : Replaced(i) /\ i # r => Replaced(i)'  BY <1>1 DEF Replaced
<1>9. Overwritten'
  <2>1. ASSUME NEW s \in Requests, NEW m \in NewsIds,
               req'[s].op \in {"update", "remove"}, req'[s].id = m, InFlight(s)'
        PROVE  row'[m].image \in {NULL, req'[s].old}
               \/ (row'[m].image \in Requests /\ req'[row'[m].image].with # {})
    <3>1. CASE s = r
      <4>1. m = n  BY <2>1, <3>1 DEF Steady
      <4>2. CASE r \in bucket
        <5>1. FALSE
          <6>1. req[r].op = "update"
            BY <4>2 DEF CallInv, Calls, Route, ImageInv, Placed
          <6>2. req'[r].op = "update"  BY <6>1 DEF Steady
          <6>3. req'[r].pc = "done"
            BY <6>2 DEF Moved, Calls, Route, Unwritten, RequestState
          <6> QED  BY <2>1, <3>1, <6>3 DEF InFlight, At
        <5> QED  BY <5>1
      <4>3. CASE r \notin bucket  BY <1>2, <4>1, <4>3
      <4> QED  BY <4>2, <4>3
    <3>2. CASE s # r
      <4>1. req[s].op \in {"update", "remove"} /\ req[s].id = m /\ InFlight(s) /\ req'[s] = req[s]
        BY <1>1, <2>1, <3>2 DEF InFlight, At
      <4>2. CASE m = n
        <5>1. s \in Readers(r)  BY <3>2, <4>1, <4>2 DEF Readers
        <5> QED  BY <1>2, <4>2, <5>1
      <4>3. CASE m # n
        <5>1. row[m].image \in {NULL, req[s].old} \/ Replaced(row[m].image)
          BY <4>1 DEF ImageInv, Overwritten
        <5>2. row[m].image # r
          BY <1>3, <4>3 DEF ImageInv, Named, Owner
        <5>3. row'[m] = row[m]  BY <1>2, <4>3
        <5> QED  BY <1>1, <4>1, <5>1, <5>2, <5>3 DEF Replaced
      <4> QED  BY <4>2, <4>3
    <3> QED  BY <3>1, <3>2
  <2> QED  BY <2>1 DEF Overwritten, Replaced
<1>10. Shown'
  <2>1. ASSUME NEW m \in NewsIds, NEW i \in NewsIds, Shows(m, i)', i \notin bucket'
        PROVE  \E s \in Requests : (/\ req[s].id = m /\ req[s].old = i
                                    /\ HasDropped(s) \/ Done(s, {"failed"}))'
    <3>1. m # n  BY <1>2, <2>1, NullIsNoNews DEF Shows
    <3>2. PICK s \in Requests : /\ req[s].id = m /\ req[s].old = i
                                /\ HasDropped(s) \/ Done(s, {"failed"})
      BY <1>2, <2>1, <3>1 DEF ImageInv, Shown, Shows, Present
    <3>3. s # r  BY <3>1, <3>2
    <3> QED  BY <1>1, <3>2, <3>3 DEF HasDropped, Done, At
  <2> QED  BY <2>1 DEF Shown
<1>11. Orphans'
  <2>1. ASSUME NEW i \in bucket'
        PROVE  (\E m \in NewsIds : Shows(m, i)') \/ i \in kept' \/ Underway(i)' \/ Replaced(i)'
    <3>1. i \in bucket /\ i # NULL  BY NullIsNoNews DEF CallInv, Tables
    <3>2. CASE i = r
      <4>1. Shows(n, r)'  BY <1>2, <3>1, <3>2 DEF Shows, Present
      <4> QED  BY <3>2, <4>1
    <3>3. CASE i # r /\ i = e
      <4>1. i \in kept \/ (i \in Requests /\ req'[i].with # {})
        BY <1>4, <3>1, <3>3 DEF Replaced
      <4> QED  BY <4>1 DEF Replaced
    <3>4. CASE i # r /\ i # e
      <4>1. (\E m \in NewsIds : Shows(m, i)) \/ i \in kept \/ Underway(i) \/ Replaced(i)
        BY <3>1 DEF ImageInv, Orphans
      <4>2. \A m \in NewsIds : Shows(m, i) => Shows(m, i)'
        BY <1>2, <3>4 DEF Shows, Present
      <4>3. Underway(i) => Underway(i)'  BY <1>1, <3>4 DEF Underway, Done, At
      <4> QED  BY <1>8, <3>4, <4>1, <4>2, <4>3
    <3> QED  BY <3>2, <3>3, <3>4
  <2> QED  BY <2>1 DEF Orphans
<1> QED  BY <1>5, <1>6, <1>7, <1>9, <1>10, <1>11 DEF ImageInv

\* An update without a file leaves the image.
LEMMA PlainImages ==
  ASSUME CallInv, ImageInv, NEW r \in Requests, Moved(r), Steady,
         req[r].op = "update", req[r].pc = "write", ~req[r].file, req'[r].pc = "done",
         \A n \in NewsIds : row'[n] = row[n], UNCHANGED <<bucket, kept>>
  PROVE  ImageInv'
<1>1. \A s \in Requests : s # r => req'[s] = req[s]  BY DEF Moved, Others
<1>2. r \notin bucket /\ ~HasDropped(r) /\ \A n \in NewsIds : row[n].image # r
  BY DEF ImageInv, Placed, HasDropped, Named, Unwritten
<1>3. Placed'
  BY <1>1, <1>2 DEF ImageInv, Placed, Steady
<1>4. Named'  BY SteadyNamed DEF ImageInv, Unwritten
<1>5. Dropped'
  <2>1. ASSUME NEW s \in Requests, HasDropped(s)'
        PROVE  req'[s].old \in kept' \/ req'[s].old \notin bucket'
    <3>1. s # r  BY <2>1 DEF HasDropped
    <3> QED  BY <1>1, <2>1, <3>1 DEF HasDropped, ImageInv, Dropped
  <2> QED  BY <2>1 DEF Dropped
<1>6. Overwritten'
  <2>1. ASSUME NEW s \in Requests, NEW n \in NewsIds,
               req'[s].op \in {"update", "remove"}, req'[s].id = n, InFlight(s)'
        PROVE  row'[n].image \in {NULL, req'[s].old}
               \/ (row'[n].image \in Requests /\ req'[row'[n].image].with # {})
    <3>1. s # r  BY <2>1 DEF InFlight, At
    <3>2. row[n].image \in {NULL, req[s].old} \/ Replaced(row[n].image)
      BY <1>1, <2>1, <3>1 DEF ImageInv, Overwritten, InFlight, At
    <3>3. row[n].image # r /\ row'[n] = row[n]  BY <1>2
    <3> QED  BY <1>1, <3>1, <3>2, <3>3 DEF Replaced
  <2> QED  BY <2>1 DEF Overwritten, Replaced
<1>7. Shown'
  <2>1. ASSUME NEW n \in NewsIds, NEW i \in NewsIds, Shows(n, i)', i \notin bucket'
        PROVE  \E s \in Requests : (/\ req[s].id = n /\ req[s].old = i
                                    /\ HasDropped(s) \/ Done(s, {"failed"}))'
    <3>1. PICK s \in Requests : /\ req[s].id = n /\ req[s].old = i
                                /\ HasDropped(s) \/ Done(s, {"failed"})
      BY <2>1 DEF ImageInv, Shown, Shows, Present
    <3>2. s # r  BY <1>2, <3>1 DEF Done, At
    <3> QED  BY <1>1, <3>1, <3>2 DEF HasDropped, Done, At
  <2> QED  BY <2>1 DEF Shown
<1>8. Orphans'
  <2>1. ASSUME NEW i \in bucket'
        PROVE  (\E n \in NewsIds : Shows(n, i)') \/ i \in kept' \/ Underway(i)' \/ Replaced(i)'
    <3>1. i # r  BY <1>2
    <3>2. (\E n \in NewsIds : Shows(n, i)) \/ i \in kept \/ Underway(i) \/ Replaced(i)
      BY DEF ImageInv, Orphans
    <3>3. (Underway(i) => Underway(i)') /\ (Replaced(i) => Replaced(i)')
      BY <1>1, <3>1 DEF Underway, Replaced, Done, At
    <3> QED  BY <3>2, <3>3 DEF Shows, Present
  <2> QED  BY <2>1 DEF Orphans
<1> QED  BY <1>3, <1>4, <1>5, <1>6, <1>7, <1>8 DEF ImageInv

LEMMA WriteImages ==
  ASSUME CallInv, ImageInv, NEW r \in Requests, Write(r)
  PROVE  ImageInv'
<1> DEFINE n == req[r].id
<1>1. /\ req[r].pc = "write" /\ req[r].op = "update" /\ n \in NewsIds
      /\ UNCHANGED <<bucket, kept>>
  BY WriteCall DEF CallInv, Write
<1>2. CASE Ended(r, "notFound") /\ row' = row /\ ~Present(n)
  BY <1>1, <1>2, EndImages
<1>3. CASE ~(Ended(r, "notFound") /\ row' = row /\ ~Present(n))
  <2>1. /\ Moved(r) /\ Present(n) /\ req'[r].pc = "done" /\ req'[r].op = "update"
        /\ req'[r].id = n /\ req'[r].old = req[r].old /\ req'[r].file = req[r].file
        /\ req'[r].with = Readers(r)
        /\ row' = [row EXCEPT ![n].image = IF req[r].file THEN r ELSE @]
    BY <1>3, WriteCall DEF CallInv
  <2>2. Steady  BY <1>1, <2>1, SteadyMove
  <2>3. row[n] \in RowState  BY <1>1 DEF CallInv, Tables
  <2> HIDE DEF n
  <2>4. CASE req[r].file
    <3> DEFINE y == [row[n] EXCEPT !.image = r]
    <3>1. row' = [row EXCEPT ![n] = y]  BY <2>1, <2>4
    <3>2. y.state = "present" /\ y.image = r  BY <2>1, <2>3 DEF RowState, Present
    <3>3. r \in bucket  BY <1>1, <2>4 DEF ImageInv, Placed
    <3>4. req[r].old # NULL => HasDropped(r)  BY <1>1, <2>4 DEF HasDropped
    <3>5. req[r].id = n /\ InFlight(r) /\ ~Unwritten(r)'
      BY <1>1, <2>1 DEF n, InFlight, At, Unwritten
    <3> HIDE DEF y
    <3> QED  BY <1>1, <2>1, <2>2, <3>1, <3>2, <3>3, <3>4, <3>5, RowImages
  <2>5. CASE ~req[r].file
    <3>1. \A m \in NewsIds : row'[m] = row[m]
      BY <2>1, <2>3, <2>5 DEF CallInv, Tables, RowState
    <3> QED  BY <1>1, <2>1, <2>2, <2>5, <3>1, PlainImages
  <2> QED  BY <2>4, <2>5
<1> QED  BY <1>2, <1>3

LEMMA DeleteRowImages ==
  ASSUME CallInv, ImageInv, NEW r \in Requests, DeleteRow(r)
  PROVE  ImageInv'
<1> DEFINE n == req[r].id
<1>1. /\ req[r].pc = "delete" /\ req[r].op = "remove" /\ n \in NewsIds
      /\ UNCHANGED <<bucket, kept>>
  BY DeleteRowCall DEF CallInv, DeleteRow
<1>2. CASE Ended(r, "notFound") /\ row' = row /\ ~Present(n)
  BY <1>1, <1>2, EndImages
<1>3. CASE ~(Ended(r, "notFound") /\ row' = row /\ ~Present(n))
  <2> DEFINE y == [ state |-> "deleted", image |-> NULL ]
  <2>1. /\ Moved(r) /\ Same(req[r], req'[r]) /\ req'[r].pc = "retract" /\ Present(n)
        /\ row' = [row EXCEPT ![n] = y]
    BY <1>3, DeleteRowCall DEF CallInv, Went
  <2>2. Steady  BY <2>1, SteadyMove DEF Same
  <2>3. y.image = NULL  OBVIOUS
  <2>4. r \notin bucket  BY <1>1 DEF CallInv, Calls, Route, ImageInv, Placed
  <2>5. req[r].old # NULL => HasDropped(r)  BY <1>1 DEF HasDropped
  <2>6. InFlight(r) /\ ~Unwritten(r)' /\ req'[r].pc # "delete" /\ req'[r].with = req[r].with
    BY <1>1, <2>1 DEF InFlight, At, Unwritten, Same
  <2>7. req[r].id = n  OBVIOUS
  <2> HIDE DEF y, n
  <2> QED  BY <1>1, <2>1, <2>2, <2>3, <2>4, <2>5, <2>6, <2>7, RowImages
<1> QED  BY <1>2, <1>3

LEMMA ImagesNext ==
  ASSUME CallInv, ImageInv, [Next]_newsVars
  PROVE  ImageInv'
<1>1. ASSUME NEW r \in Requests, Looks(r) PROVE ImageInv'
  BY <1>1, LooksImages
<1>2. ASSUME NEW r \in Requests, Put(r) \/ Drop(r) \/ Insert(r) PROVE ImageInv'
  BY <1>2, PutImages, DropImages, InsertImages
<1>3. ASSUME NEW r \in Requests, Write(r) \/ DeleteRow(r) \/ Publish(r) \/ Retract(r)
      PROVE  ImageInv'
  BY <1>3, WriteImages, DeleteRowImages, TellImages
<1>4. CASE UNCHANGED newsVars
  BY <1>4 DEF newsVars, ImageInv, Placed, Named, Dropped, Overwritten, Shown, Orphans, Owner,
              Unwritten, HasDropped, Replaced, Shows, Underway, Present, InFlight, At, Done
<1> QED  BY <1>1, <1>2, <1>3, <1>4 DEF Next, Looks, Terminated

(***************************************************************************)
(* The image of a news is in the bucket, or a request that read it has     *)
(* deleted it and is still to write the row, or failed before it could.    *)
(* An image that no news has belongs to a request under way, to one that   *)
(* failed or found the news removed, S3 refused to delete it, or its       *)
(* request wrote a row that another one had read and was to write          *)
(* (news.service.ts:100-126, 132-151; s3.service.ts:138-148).              *)
(***************************************************************************)
THEOREM ImagesCorrect == Spec => []ImagesAccounted
<1>1. Init => ImageInv
  <2> SUFFICES ASSUME Init PROVE ImageInv
    OBVIOUS
  <2>1. \A r \in Requests : req[r] = NewRequest  BY DEF Init
  <2>2. \A r \in Requests : /\ req[r].pc = "new" /\ req[r].op = "none" /\ req[r].old = NULL
                            /\ ~req[r].file
    BY <2>1 DEF NewRequest
  <2>3. bucket \subseteq Seeds  BY DEF Init
  <2>4. \A n \in NewsIds : /\ Present(n) <=> n \in Seeds
                           /\ row[n].image = (IF n \in bucket THEN n ELSE NULL)
    BY <2>3 DEF Init, NoRow, Present
  <2>5. Placed  BY <2>2, <2>3, SeedsAreNoRequests DEF Placed
  <2>6. Named
    <3>1. \A n \in NewsIds : row[n].image \notin Requests
      BY <2>3, <2>4, SeedsAreNoRequests, NullIsNoNews DEF NewsIds
    <3>2. \A n \in NewsIds : row[n].image # NULL => row[n].image = n  BY <2>4
    <3>3. \A r, s \in Requests : req[s].old # r  BY <2>2, NullIsNoNews DEF NewsIds
    <3> QED  BY <2>2, <3>1, <3>2, <3>3 DEF Named, Owner
  <2>7. Dropped /\ Overwritten  BY <2>2 DEF Dropped, HasDropped, Overwritten
  <2>8. Shown  BY <2>4, NullIsNoNews DEF Shown, Shows
  <2>9. Orphans  BY <2>3, <2>4 DEF Orphans, Shows, NewsIds
  <2> QED  BY <2>5, <2>6, <2>7, <2>8, <2>9 DEF ImageInv
<1>2. CallInv /\ ImageInv /\ [Next]_newsVars => ImageInv'
  BY ImagesNext
<1> QED  BY <1>1, <1>2, ImagesImplies, NewsCorrect, PTL DEF Spec
=============================================================================
