------------------------ MODULE UafeAndClientsProofs ------------------------
(***************************************************************************)
(* The two stores of a UAFE form agree, for any number of requests, any    *)
(* limits and any failures.                                                *)
(*                                                                         *)
(* RowsHaveObjects is not inductive: an object might be deleted after its  *)
(* row was inserted a second time.  It cannot be, because a key is         *)
(* inserted once, by the request it is named after, in the order of its    *)
(* files: the keys that were inserted are those up to sent, and only such  *)
(* keys are ever deleted.                                                  *)
(*                                                                         *)
(* The second part is about Clients, which shares with UafeForm only the   *)
(* checks of Identification: each part uses the definitions of its own     *)
(* component.                                                              *)
(***************************************************************************)
EXTENDS UafeForm, Clients, FiniteSetTheorems, TLAPS

\* The row of k was inserted, if not deleted since.
Inserted(k) == k[2] <= req[k[1]].sent

Uploaded(k) ==
  k = NextKey(k[1]) /\ (At(k[1], "insert") \/ req[k[1]].result = "failed")

Deleting(r) == req[r].pc \in { "deleteRow", "deleteForm", "deleteObjects" }

SentInFiles ==
  \A r \in Requests : /\ At(r, "new") => req[r].sent = 0
                      /\ Adding(r) => req[r].sent < req[r].files

OnlyInsertedDeleted ==
  /\ \A k \in rows : Inserted(k)
  /\ \A r \in Requests : Deleting(r) => \A k \in req[r].keys : Inserted(k)

DeletedFromRows ==
  \A r \in Requests : At(r, "deleteObjects") => req[r].keys \cap rows = {}

UploadedFirst == \A r \in Requests : At(r, "insert") => NextKey(r) \in objects

FileInv ==
  /\ TypeOK
  /\ SentInFiles
  /\ OnlyInsertedDeleted
  /\ DeletedFromRows
  /\ UploadedFirst
  /\ RowsHaveObjects

----------------------------------------------------------------------------
\* A step of r moves r alone.
LEMMA BecomeOnly ==
  ASSUME TypeOK, NEW r \in Requests, NEW x, Become(r, x)
  PROVE  /\ req'[r] = x
         /\ \A q \in Requests \ {r} : req'[q] = req[q]
         /\ x \in RequestState => req' \in [Requests -> RequestState]
  BY DEF Become, TypeOK

LEMMA KeyType ==
  ASSUME NEW k \in Keys
  PROVE  k[1] \in Requests /\ k[2] \in 1..MaxFiles /\ k = <<k[1], k[2]>>
  BY DEF Keys

LEMMA ContinueOnly ==
  ASSUME TypeOK, NEW r \in Requests, NEW pc, Continue(r, pc),
         pc \in { "upload", "insert", "touch", "find", "deleteRow", "deleteForm",
                  "deleteObjects" }
  PROVE  /\ req' \in [Requests -> RequestState]
         /\ \A q \in Requests \ {r} : req'[q] = req[q]
         /\ req'[r].pc = pc
         /\ req'[r].sent = req[r].sent /\ req'[r].files = req[r].files
         /\ req'[r].keys = req[r].keys /\ req'[r].result = req[r].result
<1> DEFINE x == [req[r] EXCEPT !.pc = pc]
<1>1. x \in RequestState  BY DEF TypeOK, RequestState
<1>2. /\ x.pc = pc /\ x.sent = req[r].sent /\ x.files = req[r].files
      /\ x.keys = req[r].keys /\ x.result = req[r].result
  BY DEF TypeOK, RequestState
<1>3. Become(r, x)  BY DEF Continue
<1> HIDE DEF x
<1> QED  BY <1>1, <1>2, <1>3, BecomeOnly

LEMMA AnswerOnly ==
  ASSUME TypeOK, NEW r \in Requests, NEW result \in { "served", "refused", "failed" },
         Answer(r, result)
  PROVE  /\ req' \in [Requests -> RequestState]
         /\ \A q \in Requests \ {r} : req'[q] = req[q]
         /\ req'[r].pc = "done" /\ req'[r].result = result
         /\ req'[r].sent = req[r].sent
<1> DEFINE x == [req[r] EXCEPT !.pc = "done", !.result = result, !.keys = {}]
<1>1. x \in RequestState
  <2>1. req[r] \in RequestState /\ {} \in SUBSET Keys  BY DEF TypeOK
  <2>2. [req[r] EXCEPT !.pc = "done", !.result = result] \in RequestState
    BY <2>1 DEF RequestState
  <2> DEFINE y == [req[r] EXCEPT !.pc = "done", !.result = result]
  <2>3. [y EXCEPT !.keys = {}] \in RequestState
    <3> HIDE DEF y
    <3>1. y \in RequestState  BY <2>2 DEF y
    <3> QED  BY <2>1, <3>1 DEF RequestState
  <2>4. x = [y EXCEPT !.keys = {}]  BY <2>1 DEF RequestState
  <2> QED  BY <2>3, <2>4
<1>2. x.pc = "done" /\ x.result = result /\ x.sent = req[r].sent
  BY DEF TypeOK, RequestState
<1>3. Become(r, x)  BY DEF Answer
<1> HIDE DEF x
<1> QED  BY <1>1, <1>2, <1>3, BecomeOnly

(***************************************************************************)
(* What the keys owe to a step of r that moves no other request and takes  *)
(* back none of its inserts: each part of FileInv from what became of r.   *)
(***************************************************************************)
Others(r) == \A q \in Requests \ {r} : req'[q] = req[q]

LEMMA InsertedKept ==
  ASSUME FileInv, NEW r \in Requests, Others(r), req'[r].sent = req[r].sent
  PROVE  \A k \in Keys : Inserted(k) => Inserted(k)'
  BY KeyType DEF Inserted, Others

LEMMA OnlyInsertedKept ==
  ASSUME FileInv, NEW r \in Requests, Others(r), req'[r].sent = req[r].sent,
         rows' \subseteq rows,
         Deleting(r)' => \A k \in req'[r].keys : k \in Keys /\ Inserted(k)
  PROVE  OnlyInsertedDeleted'
<1>1. rows \subseteq Keys /\ \A q \in Requests : req[q].keys \subseteq Keys
  BY DEF FileInv, TypeOK, RequestState
<1>2. \A k \in rows' : Inserted(k)'
  BY <1>1, InsertedKept DEF FileInv, OnlyInsertedDeleted
<1>3. ASSUME NEW q \in Requests, Deleting(q)', NEW k \in req'[q].keys
      PROVE  Inserted(k)'
  <2>1. CASE q = r  BY <1>3, <2>1, InsertedKept
  <2>2. CASE q # r
    <3>1. req'[q] = req[q]  BY <2>2 DEF Others
    <3>2. k \in Keys /\ Inserted(k)
      BY <1>1, <1>3, <3>1 DEF FileInv, OnlyInsertedDeleted, Deleting
    <3> QED  BY <3>2, InsertedKept
  <2> QED  BY <2>1, <2>2
<1> QED  BY <1>2, <1>3 DEF OnlyInsertedDeleted

LEMMA DeletedKept ==
  ASSUME FileInv, NEW r \in Requests, Others(r), rows' \subseteq rows,
         At(r, "deleteObjects")' => req'[r].keys \cap rows' = {}
  PROVE  DeletedFromRows'
<1> SUFFICES ASSUME NEW q \in Requests, At(q, "deleteObjects")'
             PROVE  req'[q].keys \cap rows' = {}
  BY DEF DeletedFromRows
<1>1. CASE q = r  BY <1>1
<1>2. CASE q # r
  <2>1. req'[q] = req[q] /\ At(q, "deleteObjects")  BY <1>2 DEF Others, At
  <2> QED  BY <2>1 DEF FileInv, DeletedFromRows
<1> QED  BY <1>1, <1>2

LEMMA UploadedKept ==
  ASSUME FileInv, NEW r \in Requests, Others(r), objects \subseteq objects',
         At(r, "insert")' => NextKey(r)' \in objects'
  PROVE  UploadedFirst'
<1> SUFFICES ASSUME NEW q \in Requests, At(q, "insert")'
             PROVE  NextKey(q)' \in objects'
  BY DEF UploadedFirst
<1>1. CASE q = r  BY <1>1
<1>2. CASE q # r
  <2>1. req'[q] = req[q] /\ At(q, "insert")  BY <1>2 DEF Others, At
  <2> QED  BY <2>1 DEF FileInv, UploadedFirst, NextKey
<1> QED  BY <1>1, <1>2

LEMMA SentKept ==
  ASSUME FileInv, NEW r \in Requests, Others(r), ~At(r, "new")',
         Adding(r)' => req'[r].sent < req'[r].files
  PROVE  SentInFiles'
  BY DEF FileInv, SentInFiles, Adding, At, Others

\* Steps that insert no row and delete no object.
LEMMA FileSame ==
  ASSUME FileInv, NEW r \in Requests, TypeOK', Others(r), ~At(r, "new")',
         rows' \subseteq rows, objects \subseteq objects',
         req'[r].sent = req[r].sent, ~At(r, "insert")' \/ NextKey(r)' \in objects',
         Adding(r)' => req'[r].sent < req'[r].files,
         Deleting(r)' => \A k \in req'[r].keys : k \in Keys /\ Inserted(k),
         At(r, "deleteObjects")' => req'[r].keys \cap rows' = {}
  PROVE  FileInv'
<1>1. OnlyInsertedDeleted'  BY OnlyInsertedKept
<1>2. DeletedFromRows'  BY DeletedKept
<1>3. UploadedFirst'  BY UploadedKept
<1>4. SentInFiles'  BY SentKept
<1>5. RowsHaveObjects'  BY DEF FileInv, RowsHaveObjects
<1> QED  BY <1>1, <1>2, <1>3, <1>4, <1>5 DEF FileInv

LEMMA FileAnswer ==
  ASSUME FileInv, NEW r \in Requests, NEW result \in { "served", "refused", "failed" },
         Answer(r, result), UNCHANGED rows, form' \in { "absent", "stored", "deleted" },
         objects \subseteq objects', objects' \subseteq Keys, leftovers' \subseteq Keys
  PROVE  FileInv'
<1>1. /\ req' \in [Requests -> RequestState] /\ Others(r)
      /\ req'[r].pc = "done" /\ req'[r].sent = req[r].sent
  BY AnswerOnly DEF FileInv, Others
<1>2. TypeOK'  BY <1>1 DEF FileInv, TypeOK
<1> QED  BY <1>1, <1>2, FileSame DEF Deleting, Adding, At

LEMMA FileContinue ==
  ASSUME FileInv, NEW r \in Requests,
         NEW pc \in { "touch", "find", "deleteRow", "deleteForm" },
         Continue(r, pc), UNCHANGED <<form, rows, objects, leftovers>>,
         pc \in { "deleteRow", "deleteForm" } => req[r].keys \subseteq rows
  PROVE  FileInv'
<1>1. /\ req' \in [Requests -> RequestState] /\ Others(r)
      /\ req'[r].pc = pc /\ req'[r].sent = req[r].sent /\ req'[r].keys = req[r].keys
  BY ContinueOnly DEF FileInv, Others
<1>2. TypeOK'  BY <1>1 DEF FileInv, TypeOK
<1>3. Deleting(r)' => \A k \in req'[r].keys : k \in Keys /\ Inserted(k)
  BY <1>1 DEF Deleting, FileInv, OnlyInsertedDeleted, TypeOK
<1> QED  BY <1>1, <1>2, <1>3, FileSame DEF Adding, At

\* The key of the next file of a request that is adding is a key.
LEMMA NextIsKey ==
  ASSUME FileInv, NEW r \in Requests, Adding(r)
  PROVE  NextKey(r) \in Keys
<1>1. req[r].sent < req[r].files /\ req[r].sent \in 0..MaxFiles /\ req[r].files \in 0..MaxFiles
  BY DEF FileInv, TypeOK, SentInFiles, RequestState
<1>2. req[r].sent + 1 \in 1..MaxFiles  BY <1>1, UafeBounds
<1> QED  BY <1>2 DEF NextKey, Keys

----------------------------------------------------------------------------
(***************************************************************************)
(* FileInv, action by action.                                              *)
(***************************************************************************)
LEMMA FileInit == Init => FileInv
<1> SUFFICES ASSUME Init PROVE FileInv
  OBVIOUS
<1>1. NewRequest \in RequestState  BY UafeBounds DEF NewRequest, RequestState
<1>2. TypeOK  BY <1>1 DEF Init, TypeOK
<1>3. \A r \in Requests : req[r].pc = "new" /\ req[r].sent = 0
  BY DEF Init, NewRequest
<1>4. rows = {}  BY DEF Init
<1> QED
  BY <1>2, <1>3, <1>4 DEF FileInv, SentInFiles, OnlyInsertedDeleted, DeletedFromRows,
    UploadedFirst, RowsHaveObjects, At, Adding, Deleting

\* The steps that only answer.
LEMMA FileAnswers ==
  ASSUME FileInv, NEW r \in Requests,
         Denied(r) \/ CreateForm(r) \/ Touch(r) \/ DeleteDone(r)
  PROVE  FileInv'
<1>1. CASE Denied(r)  BY <1>1, FileAnswer DEF Denied, FileInv, TypeOK
<1>2. CASE CreateForm(r)  BY <1>2, FileAnswer DEF CreateForm, FileInv, TypeOK
<1>3. CASE Touch(r)  BY <1>3, FileAnswer DEF Touch, FileInv, TypeOK
<1>4. CASE DeleteDone(r)  BY <1>4, FileAnswer DEF DeleteDone, FileInv, TypeOK
<1> QED  BY <1>1, <1>2, <1>3, <1>4

LEMMA FileFail ==
  ASSUME FileInv, NEW r \in Requests, Fail(r)
  PROVE  FileInv'
<1>1. leftovers' \subseteq Keys  BY DEF Fail, FileInv, TypeOK, RequestState
<1>2. objects \subseteq objects' /\ objects' \subseteq Keys
  <2>1. CASE UNCHANGED objects  BY <2>1 DEF FileInv, TypeOK
  <2>2. CASE At(r, "upload") /\ objects' = objects \cup {NextKey(r)}
    BY <2>2, NextIsKey DEF FileInv, TypeOK, At, Adding
  <2> QED  BY <2>1, <2>2 DEF Fail
<1> QED  BY <1>1, <1>2, FileAnswer DEF Fail, FileInv, TypeOK

LEMMA FileRemoveFind ==
  ASSUME FileInv, NEW r \in Requests, RemoveFind(r)
  PROVE  FileInv'
<1>1. CASE req[r].keys \subseteq rows /\ Continue(r, "deleteRow")
  BY <1>1, FileContinue DEF RemoveFind
<1>2. CASE Answer(r, "refused")
  BY <1>2, FileAnswer DEF RemoveFind, FileInv, TypeOK
<1> QED  BY <1>1, <1>2 DEF RemoveFind

LEMMA FileUpdate ==
  ASSUME FileInv, NEW r \in Requests, UpdateForm(r)
  PROVE  FileInv'
  BY FileContinue DEF UpdateForm

LEMMA FileAddRead ==
  ASSUME FileInv, NEW r \in Requests, AddRead(r)
  PROVE  FileInv'
<1>1. PICK n \in 1..MaxFiles :
        Become(r, [req[r] EXCEPT !.pc = "upload", !.files = n,
                                 !.beside = {s \in Requests : Adding(s)}])
  BY DEF AddRead
<1> DEFINE others == {s \in Requests : Adding(s)}
           x == [req[r] EXCEPT !.pc = "upload", !.files = n, !.beside = others]
<1>2. n \in 0..MaxFiles /\ n > 0 /\ others \subseteq Requests  BY UafeBounds
<1>3. req[r] \in RequestState /\ req[r].sent = 0
  BY DEF FileInv, TypeOK, SentInFiles, AddRead, At
<1>4. x \in RequestState /\ x.pc = "upload" /\ x.files = n /\ x.sent = 0
  <2> HIDE DEF others
  <2> QED  BY <1>2, <1>3 DEF RequestState
<1>5. Become(r, x)  BY <1>1
<1> HIDE DEF x
<1>6. req'[r] = x /\ Others(r) /\ req' \in [Requests -> RequestState]
  BY <1>4, <1>5, BecomeOnly DEF FileInv, Others
<1>7. TypeOK'  BY <1>6 DEF AddRead, FileInv, TypeOK
<1>8. Adding(r)' => req'[r].sent < req'[r].files  BY <1>2, <1>4, <1>6
<1> QED
  BY <1>3, <1>4, <1>6, <1>7, <1>8, FileSame DEF AddRead, Deleting, At

LEMMA FileRemoveRead ==
  ASSUME FileInv, NEW r \in Requests, RemoveRead(r)
  PROVE  FileInv'
<1>1. PICK k \in Keys : Become(r, [req[r] EXCEPT !.pc = "find", !.keys = {k}])
  BY DEF RemoveRead
<1> DEFINE x == [req[r] EXCEPT !.pc = "find", !.keys = {k}]
<1>2. req[r] \in RequestState /\ {k} \in SUBSET Keys  BY DEF FileInv, TypeOK
<1>3. x \in RequestState /\ x.pc = "find" /\ x.sent = req[r].sent
  BY <1>2 DEF RequestState
<1>4. Become(r, x)  BY <1>1
<1> HIDE DEF x
<1>5. req'[r] = x /\ Others(r) /\ req' \in [Requests -> RequestState]
  BY <1>3, <1>4, BecomeOnly DEF FileInv, Others
<1>6. TypeOK'  BY <1>5 DEF RemoveRead, FileInv, TypeOK
<1> QED  BY <1>3, <1>5, <1>6, FileSame DEF RemoveRead, Deleting, Adding, At

LEMMA FileRemoveFormRead ==
  ASSUME FileInv, NEW r \in Requests, RemoveFormRead(r)
  PROVE  FileInv'
<1> DEFINE x == [req[r] EXCEPT !.pc = "deleteForm", !.keys = rows]
<1>1. req[r] \in RequestState /\ rows \in SUBSET Keys  BY DEF FileInv, TypeOK
<1>2. x \in RequestState /\ x.pc = "deleteForm" /\ x.sent = req[r].sent /\ x.keys = rows
  BY <1>1 DEF RequestState
<1>3. Become(r, x)  BY DEF RemoveFormRead
<1> HIDE DEF x
<1>4. req'[r] = x /\ Others(r) /\ req' \in [Requests -> RequestState]
  BY <1>2, <1>3, BecomeOnly DEF FileInv, Others
<1>5. TypeOK'  BY <1>4 DEF RemoveFormRead, FileInv, TypeOK
<1>6. \A k \in req'[r].keys : k \in Keys /\ Inserted(k)
  BY <1>1, <1>2, <1>4 DEF FileInv, OnlyInsertedDeleted
<1> QED  BY <1>2, <1>4, <1>5, <1>6, FileSame DEF RemoveFormRead, Adding, At

LEMMA FileAddUpload ==
  ASSUME FileInv, NEW r \in Requests, AddUpload(r)
  PROVE  FileInv'
<1>1. /\ req' \in [Requests -> RequestState] /\ Others(r)
      /\ req'[r].pc = "insert" /\ req'[r].sent = req[r].sent /\ req'[r].files = req[r].files
  BY ContinueOnly DEF AddUpload, FileInv, Others
<1>2. Adding(r)  BY DEF AddUpload, Adding, At
<1>3. TypeOK'  BY <1>1, <1>2, NextIsKey DEF AddUpload, FileInv, TypeOK
<1>4. NextKey(r)' \in objects'  BY <1>1 DEF AddUpload, NextKey
<1>5. req'[r].sent < req'[r].files  BY <1>1, <1>2 DEF FileInv, SentInFiles
<1> QED  BY <1>1, <1>3, <1>4, <1>5, FileSame DEF AddUpload, Deleting, At

\* The row is new, and so is not among the keys that are being deleted.
LEMMA FileAddInsert ==
  ASSUME FileInv, NEW r \in Requests, AddInsert(r)
  PROVE  FileInv'
<1>1. CASE Answer(r, "failed") /\ UNCHANGED rows
  BY <1>1, FileAnswer DEF AddInsert, FileInv, TypeOK
<1>2. CASE /\ rows' = rows \cup {NextKey(r)}
           /\ Become(r, [req[r] EXCEPT !.sent = @ + 1,
                !.pc = IF req[r].sent + 1 = req[r].files THEN "touch" ELSE "upload"])
  <2> DEFINE x == [req[r] EXCEPT !.sent = @ + 1,
                !.pc = IF req[r].sent + 1 = req[r].files THEN "touch" ELSE "upload"]
  <2>1. /\ req[r] \in RequestState /\ req[r].sent < req[r].files
        /\ req[r].sent \in 0..MaxFiles /\ req[r].files \in 0..MaxFiles
    BY DEF AddInsert, At, Adding, FileInv, SentInFiles, TypeOK, RequestState
  <2>2. req[r].sent + 1 \in 0..MaxFiles  BY <2>1, UafeBounds
  <2>3. /\ x \in RequestState /\ x.sent = req[r].sent + 1 /\ x.files = req[r].files
        /\ x.pc \in { "touch", "upload" }
        /\ x.pc = "upload" => req[r].sent + 1 # req[r].files
    BY <2>1, <2>2 DEF RequestState
  <2>4. Become(r, x)  BY <1>2
  <2> HIDE DEF x
  <2>5. req'[r] = x /\ Others(r) /\ req' \in [Requests -> RequestState]
    BY <2>3, <2>4, BecomeOnly DEF FileInv, Others
  <2>6. NextKey(r) \in Keys  BY NextIsKey DEF AddInsert, At, Adding
  <2>7. TypeOK'  BY <1>2, <2>5, <2>6 DEF AddInsert, FileInv, TypeOK
  <2>8. SentInFiles'
    <3>1. ~At(r, "new")' /\ (Adding(r)' => req'[r].sent < req'[r].files)
      BY <2>1, <2>3, <2>5 DEF At, Adding
    <3> QED  BY <3>1, <2>5, SentKept
  <2>9. \A k \in Keys : Inserted(k) => Inserted(k)'
    BY <2>1, <2>3, <2>5, KeyType DEF Inserted, Others
  <2>10. OnlyInsertedDeleted'
    <3>1. ASSUME NEW k, k = NextKey(r) PROVE Inserted(k)'
      <4>1. k[1] = r /\ k[2] = req[r].sent + 1  BY <3>1 DEF NextKey
      <4>2. req'[r].sent = req[r].sent + 1 /\ req[r].sent + 1 \in Nat
        BY <2>1, <2>3, <2>5
      <4> QED  BY <4>1, <4>2 DEF Inserted
    <3>2. ASSUME NEW k \in rows PROVE k \in Keys /\ Inserted(k)
      BY DEF FileInv, OnlyInsertedDeleted, TypeOK
    <3>3. ASSUME NEW k \in rows' PROVE Inserted(k)'
      BY <1>2, <2>9, <3>1, <3>2, <3>3
    <3>4. ASSUME NEW q \in Requests, Deleting(q)', NEW k \in req'[q].keys
          PROVE  Inserted(k)'
      <4>1. q # r  BY <2>3, <2>5, <3>4 DEF Deleting
      <4>2. req'[q] = req[q]  BY <2>5, <4>1 DEF Others
      <4>3. k \in Keys  BY <3>4, <4>2 DEF FileInv, TypeOK, RequestState
      <4>4. Inserted(k)
        BY <3>4, <4>2 DEF FileInv, OnlyInsertedDeleted, Deleting
      <4> QED  BY <2>9, <4>3, <4>4
    <3> QED  BY <3>3, <3>4 DEF OnlyInsertedDeleted
  <2>11. DeletedFromRows'
    <3> SUFFICES ASSUME NEW q \in Requests, At(q, "deleteObjects")'
                 PROVE  req'[q].keys \cap rows' = {}
      BY DEF DeletedFromRows
    <3>1. q # r  BY <2>3, <2>5 DEF At
    <3>2. req'[q] = req[q] /\ At(q, "deleteObjects")  BY <2>5, <3>1 DEF Others, At
    <3>3. req[q].keys \cap rows = {}  BY <3>2 DEF FileInv, DeletedFromRows
    <3>4. NextKey(r) \notin req[q].keys
      <4>1. ~Inserted(NextKey(r))  BY <2>1 DEF Inserted, NextKey
      <4>2. \A k \in req[q].keys : Inserted(k)
        BY <3>2 DEF FileInv, OnlyInsertedDeleted, Deleting, At
      <4> QED  BY <4>1, <4>2
    <3> QED  BY <1>2, <3>2, <3>3, <3>4
  <2>12. UploadedFirst'
    <3>1. ~At(r, "insert")'  BY <2>3, <2>5 DEF At
    <3>2. objects' = objects  BY DEF AddInsert
    <3> QED  BY <2>5, <3>1, <3>2, UploadedKept
  <2>13. RowsHaveObjects'
    <3>1. NextKey(r) \in objects /\ objects' = objects
      BY DEF AddInsert, FileInv, UploadedFirst
    <3> QED  BY <1>2, <3>1 DEF FileInv, RowsHaveObjects
  <2> QED  BY <2>7, <2>8, <2>10, <2>11, <2>12, <2>13 DEF FileInv
<1> QED  BY <1>1, <1>2 DEF AddInsert

LEMMA FileRemoveDeleteRow ==
  ASSUME FileInv, NEW r \in Requests, RemoveDeleteRow(r)
  PROVE  FileInv'
<1>1. CASE Answer(r, "failed") /\ UNCHANGED rows
  BY <1>1, FileAnswer DEF RemoveDeleteRow, FileInv, TypeOK
<1>2. CASE rows' = rows \ req[r].keys /\ Continue(r, "deleteObjects")
  <2>1. /\ req' \in [Requests -> RequestState] /\ Others(r)
        /\ req'[r].pc = "deleteObjects" /\ req'[r].sent = req[r].sent
        /\ req'[r].keys = req[r].keys
    BY <1>2, ContinueOnly DEF FileInv, Others
  <2>2. TypeOK'  BY <1>2, <2>1 DEF RemoveDeleteRow, FileInv, TypeOK
  <2>3. \A k \in req'[r].keys : k \in Keys /\ Inserted(k)
    BY <2>1 DEF RemoveDeleteRow, At, Deleting, FileInv, OnlyInsertedDeleted, TypeOK,
       RequestState
  <2>4. req'[r].keys \cap rows' = {}  BY <1>2, <2>1
  <2> QED
    BY <1>2, <2>1, <2>2, <2>3, <2>4, FileSame DEF RemoveDeleteRow, Adding, At
<1> QED  BY <1>1, <1>2 DEF RemoveDeleteRow

LEMMA FileRemoveFormDelete ==
  ASSUME FileInv, NEW r \in Requests, RemoveFormDelete(r)
  PROVE  FileInv'
<1>1. CASE Answer(r, "failed") /\ UNCHANGED <<form, rows>>
  BY <1>1, FileAnswer DEF RemoveFormDelete, FileInv, TypeOK
<1>2. CASE form' = "deleted" /\ rows' = {} /\ Continue(r, "deleteObjects")
  <2>1. /\ req' \in [Requests -> RequestState] /\ Others(r)
        /\ req'[r].pc = "deleteObjects" /\ req'[r].sent = req[r].sent
        /\ req'[r].keys = req[r].keys
    BY <1>2, ContinueOnly DEF FileInv, Others
  <2>2. TypeOK'  BY <1>2, <2>1 DEF RemoveFormDelete, FileInv, TypeOK
  <2>3. \A k \in req'[r].keys : k \in Keys /\ Inserted(k)
    BY <2>1 DEF RemoveFormDelete, At, Deleting, FileInv, OnlyInsertedDeleted, TypeOK,
       RequestState
  <2> QED
    BY <1>2, <2>1, <2>2, <2>3, FileSame DEF RemoveFormDelete, Adding, At
<1> QED  BY <1>1, <1>2 DEF RemoveFormDelete

\* The object that goes was inserted: no request is about to insert its row.
LEMMA FileDeleteObject ==
  ASSUME FileInv, NEW r \in Requests, DeleteObject(r)
  PROVE  FileInv'
<1>1. PICK k \in req[r].keys :
        /\ \/ objects' = objects \ {k} /\ UNCHANGED leftovers
           \/ leftovers' = leftovers \cup {k} /\ UNCHANGED objects
        /\ Become(r, [req[r] EXCEPT !.keys = @ \ {k}])
  BY DEF DeleteObject
<1> DEFINE x == [req[r] EXCEPT !.keys = @ \ {k}]
<1>2. req[r] \in RequestState /\ req[r].pc = "deleteObjects" /\ req[r].keys \subseteq Keys
  BY DEF DeleteObject, At, FileInv, TypeOK, RequestState
<1>3. x \in RequestState
  <2>1. req[r].keys \ {k} \in SUBSET Keys  BY <1>2
  <2> QED  BY <1>2, <2>1 DEF RequestState
<1>4. /\ x.pc = "deleteObjects" /\ x.sent = req[r].sent
      /\ x.keys = req[r].keys \ {k}
  BY <1>2 DEF RequestState
<1>5. Become(r, x)  BY <1>1
<1> HIDE DEF x
<1>6. req'[r] = x /\ Others(r) /\ req' \in [Requests -> RequestState]
  BY <1>3, <1>5, BecomeOnly DEF FileInv, Others
<1>7. k \in Keys /\ Inserted(k) /\ k \notin rows /\ req[r].keys \cap rows = {}
  BY <1>2 DEF FileInv, OnlyInsertedDeleted, DeletedFromRows, Deleting, At
<1>8. objects \ {k} \subseteq objects' /\ objects' \subseteq objects
  BY <1>1
<1>9. TypeOK'  BY <1>1, <1>6, <1>7 DEF DeleteObject, FileInv, TypeOK
<1>10. SentInFiles'
  BY <1>4, <1>6, SentKept DEF At, Adding
<1>11. OnlyInsertedDeleted'
  <2>1. \A j \in req'[r].keys : j \in Keys /\ Inserted(j)
    BY <1>2, <1>4, <1>6 DEF FileInv, OnlyInsertedDeleted, Deleting
  <2> QED  BY <1>4, <1>6, <2>1, OnlyInsertedKept DEF DeleteObject
<1>12. DeletedFromRows'
  BY <1>4, <1>6, <1>7, DeletedKept DEF DeleteObject
<1>13. UploadedFirst'
  <2> SUFFICES ASSUME NEW q \in Requests, At(q, "insert")'
               PROVE  NextKey(q)' \in objects'
    BY DEF UploadedFirst
  <2>1. q # r  BY <1>4, <1>6 DEF At
  <2>2. req'[q] = req[q] /\ At(q, "insert")  BY <1>6, <2>1 DEF Others, At
  <2>3. NextKey(q) \in objects /\ NextKey(q)' = NextKey(q)
    BY <2>2 DEF FileInv, UploadedFirst, NextKey
  <2>4. req[q].sent \in Nat  BY DEF FileInv, TypeOK, RequestState
  <2>5. NextKey(q) # k  BY <1>7, <2>4 DEF Inserted, NextKey
  <2> QED  BY <1>8, <2>3, <2>5
<1>14. RowsHaveObjects'
  BY <1>7, <1>8 DEF DeleteObject, FileInv, RowsHaveObjects
<1> QED  BY <1>9, <1>10, <1>11, <1>12, <1>13, <1>14 DEF FileInv

LEMMA FileNext == FileInv /\ [Next]_uafeVars => FileInv'
<1> SUFFICES ASSUME FileInv, [Next]_uafeVars PROVE FileInv'
  OBVIOUS
<1>1. CASE UNCHANGED uafeVars
  BY <1>1 DEF uafeVars, FileInv, TypeOK, SentInFiles, OnlyInsertedDeleted, DeletedFromRows,
    UploadedFirst, RowsHaveObjects, Inserted, Deleting, Adding, At, NextKey
<1>2. ASSUME NEW r \in Requests, RequestStep(r) PROVE FileInv'
  BY <1>2, FileAnswers, FileFail, FileRemoveFind, FileUpdate, FileAddRead, FileAddUpload,
     FileAddInsert, FileRemoveRead, FileRemoveFormRead, FileRemoveDeleteRow,
     FileRemoveFormDelete, FileDeleteObject DEF RequestStep
<1> QED  BY <1>1, <1>2 DEF Next, Terminated

----------------------------------------------------------------------------
\* The state of the form and of its requests keeps its type.
THEOREM FileTypeCorrect == Spec => []TypeOK
<1>1. FileInv => TypeOK  BY DEF FileInv
<1> QED  BY <1>1, FileInit, FileNext, PTL DEF Spec

\* A listed comprobante has its object, whatever overlaps or fails
\* (uafe-forms.service.ts:268-275, 308-309).
THEOREM RowsHaveObjectsCorrect == Spec => []RowsHaveObjects
<1>1. FileInv => RowsHaveObjects  BY DEF FileInv
<1> QED  BY <1>1, FileInit, FileNext, PTL DEF Spec

----------------------------------------------------------------------------
(***************************************************************************)
(* OrphansAccounted.  It is inductive once a form that is not yet stored   *)
(* is known to have no objects, and a request that failed to do nothing    *)
(* more: its last upload keeps the name that blames it.                    *)
(***************************************************************************)
Accounted(k) ==
  \/ k = NextKey(k[1]) /\ (At(k[1], "insert") \/ req[k[1]].result = "failed")
  \/ \E r \in Requests : At(r, "deleteObjects") /\ k \in req[r].keys
  \/ k \in leftovers

FailedDone == \A r \in Requests : req[r].result = "failed" => At(r, "done")

NothingBefore ==
  form = "absent" => objects = {} /\ \A r \in Requests : At(r, "new") \/ At(r, "done")

OrphanInv ==
  /\ TypeOK
  /\ FailedDone
  /\ NothingBefore
  /\ OrphansAccounted

(***************************************************************************)
(* What a step of r may do to the objects without rows: account for those  *)
(* it makes, for the upload it waited to insert, and for the keys that it  *)
(* was deleting.                                                           *)
(***************************************************************************)
LEMMA OrphanKept ==
  ASSUME OrphanInv, NEW r \in Requests, Others(r), ~At(r, "done"),
         leftovers \subseteq leftovers', NEW k \in Keys, Accounted(k),
         At(r, "insert") /\ k = NextKey(r) => Accounted(k)',
         At(r, "deleteObjects") /\ k \in req[r].keys =>
           k \in leftovers' \/ (At(r, "deleteObjects")' /\ k \in req'[r].keys)
  PROVE  Accounted(k)'
<1>1. CASE k = NextKey(k[1]) /\ (At(k[1], "insert") \/ req[k[1]].result = "failed")
  <2>1. CASE k[1] = r  BY <1>1, <2>1 DEF OrphanInv, FailedDone
  <2>2. CASE k[1] # r
    <3>1. req'[k[1]] = req[k[1]]  BY <2>2, KeyType DEF Others
    <3> QED  BY <1>1, <3>1 DEF Accounted, NextKey, At
  <2> QED  BY <2>1, <2>2
<1>2. ASSUME NEW q \in Requests, At(q, "deleteObjects"), k \in req[q].keys
      PROVE  Accounted(k)'
  <2>1. CASE q = r  BY <1>2, <2>1 DEF Accounted
  <2>2. CASE q # r
    <3>1. req'[q] = req[q]  BY <2>2 DEF Others
    <3>2. At(q, "deleteObjects")' /\ k \in req'[q].keys  BY <1>2, <3>1 DEF At
    <3> QED  BY <3>2 DEF Accounted
  <2> QED  BY <2>1, <2>2
<1>3. CASE k \in leftovers  BY <1>3 DEF Accounted
<1> QED  BY <1>1, <1>2, <1>3 DEF Accounted

LEMMA OrphanStep ==
  ASSUME OrphanInv, NEW r \in Requests, TypeOK', Others(r), ~At(r, "done"),
         leftovers \subseteq leftovers', form' = form \/ form' = "deleted",
         req'[r].result = "failed" => At(r, "done")',
         ~At(r, "new") \/ form = "stored" \/ (At(r, "done")' /\ objects' = objects),
         form' = "stored" =>
           /\ \A k \in objects' \ rows' : k \in objects \ rows \/ Accounted(k)'
           /\ \A k \in objects' \ rows' :
                At(r, "insert") /\ k = NextKey(r) => Accounted(k)'
           /\ \A k \in objects' :
                At(r, "deleteObjects") /\ k \in req[r].keys =>
                  k \in leftovers' \/ (At(r, "deleteObjects")' /\ k \in req'[r].keys)
  PROVE  OrphanInv'
<1>1. FailedDone'  BY DEF OrphanInv, FailedDone, Others, At
<1>2. NothingBefore'
  <2> SUFFICES ASSUME form' = "absent"
               PROVE  objects' = {} /\ \A q \in Requests : At(q, "new")' \/ At(q, "done")'
    BY DEF NothingBefore
  <2>1. /\ form = "absent" /\ objects = {}
        /\ \A q \in Requests : At(q, "new") \/ At(q, "done")
    BY DEF OrphanInv, NothingBefore
  <2>2. At(r, "done")' /\ objects' = objects  BY <2>1
  <2> QED  BY <2>1, <2>2 DEF Others, At
<1>3. OrphansAccounted'
  <2> SUFFICES ASSUME form' = "stored", NEW k \in objects' \ rows' PROVE Accounted(k)'
    BY DEF OrphansAccounted, Accounted
  <2>1. k \in Keys  BY DEF TypeOK
  <2>2. CASE k \in objects \ rows
    <3>1. form = "stored"  OBVIOUS
    <3>2. Accounted(k)  BY <2>2, <3>1 DEF OrphanInv, OrphansAccounted, Accounted
    <3> QED  BY <2>1, <3>2, OrphanKept
  <2> QED  BY <2>2
<1> QED  BY <1>1, <1>2, <1>3 DEF OrphanInv

LEMMA OrphanInit == Init => OrphanInv
<1> SUFFICES ASSUME Init PROVE OrphanInv
  OBVIOUS
<1>1. TypeOK  BY FileInit DEF FileInv
<1>2. \A r \in Requests : At(r, "new") /\ req[r].result = "none"
  BY DEF Init, NewRequest, At
<1> QED  BY <1>1, <1>2 DEF Init, OrphanInv, FailedDone, NothingBefore, OrphansAccounted

\* The steps that answer; a failure accounts for what it leaves behind.
LEMMA OrphanAnswer ==
  ASSUME OrphanInv, NEW r \in Requests, TypeOK', ~At(r, "done"),
         NEW result \in { "served", "refused", "failed" },
         Answer(r, result), UNCHANGED <<form, rows>>, leftovers \subseteq leftovers',
         objects' = objects \/ (At(r, "upload") /\ objects' = objects \cup {NextKey(r)}),
         At(r, "insert") \/ At(r, "upload") => result = "failed",
         At(r, "deleteObjects") => req[r].keys \subseteq leftovers'
  PROVE  OrphanInv'
<1>1. /\ Others(r) /\ At(r, "done")' /\ req'[r].result = result
      /\ req'[r].sent = req[r].sent
  BY AnswerOnly DEF OrphanInv, Others, At
<1>2. ASSUME NEW k, k = NextKey(r), result = "failed" PROVE Accounted(k)'
  <2>1. k[1] = r /\ k = <<r, req'[r].sent + 1>>  BY <1>1, <1>2 DEF NextKey
  <2> QED  BY <1>1, <1>2, <2>1 DEF Accounted, NextKey
<1>3. \A k \in objects' \ rows' : k \in objects \ rows \/ Accounted(k)'  BY <1>2
<1>4. \A k \in objects' \ rows' : At(r, "insert") /\ k = NextKey(r) => Accounted(k)'
  BY <1>2
<1>5. ~At(r, "new") \/ (At(r, "done")' /\ objects' = objects)
  BY <1>1 DEF At
<1>6. \A k \in objects' : At(r, "deleteObjects") /\ k \in req[r].keys => k \in leftovers'
  OBVIOUS
<1> QED  BY <1>1, <1>3, <1>4, <1>5, <1>6, OrphanStep

\* TypeOK' comes with FileNext; the pairing of the two is the invariant.
LEMMA OrphanAnswers ==
  ASSUME OrphanInv, NEW r \in Requests, TypeOK',
         Denied(r) \/ Touch(r) \/ DeleteDone(r) \/ Fail(r)
  PROVE  OrphanInv'
<1>1. CASE Denied(r)  BY <1>1, OrphanAnswer DEF Denied, At
<1>2. CASE Touch(r)  BY <1>2, OrphanAnswer DEF Touch, At
<1>3. CASE DeleteDone(r)  BY <1>3, OrphanAnswer DEF DeleteDone, At
<1>4. CASE Fail(r)  BY <1>4, OrphanAnswer DEF Fail, At
<1> QED  BY <1>1, <1>2, <1>3, <1>4

\* The form comes into being without objects.
LEMMA OrphanCreate ==
  ASSUME OrphanInv, NEW r \in Requests, TypeOK', CreateForm(r)
  PROVE  OrphanInv'
<1>1. objects' = {} /\ form' = "stored"  BY DEF CreateForm, OrphanInv, NothingBefore
<1>2. Others(r) /\ req'[r].result = "served"
  BY AnswerOnly DEF CreateForm, OrphanInv, Others
<1>3. FailedDone'  BY <1>2 DEF OrphanInv, FailedDone, Others, At
<1> QED  BY <1>1, <1>3 DEF OrphanInv, NothingBefore, OrphansAccounted

\* The steps between the first and the answer that neither upload nor insert.
LEMMA OrphanContinue ==
  ASSUME OrphanInv, NEW r \in Requests, TypeOK', Others(r), ~At(r, "done"),
         req'[r].result = req[r].result, ~At(r, "insert"),
         form' = form \/ form' = "deleted", ~At(r, "new") \/ form = "stored",
         UNCHANGED <<objects, leftovers>>,
         form' = "stored" => \A k \in (rows \ rows') : Accounted(k)',
         ~At(r, "deleteObjects")
  PROVE  OrphanInv'
<1>1. req'[r].result # "failed"  BY DEF OrphanInv, FailedDone
<1> QED  BY <1>1, OrphanStep

LEMMA OrphanReads ==
  ASSUME OrphanInv, NEW r \in Requests, TypeOK',
         AddRead(r) \/ RemoveRead(r) \/ RemoveFormRead(r)
  PROVE  OrphanInv'
<1> DEFINE others == {s \in Requests : Adding(s)}
<1>1. req[r] \in RequestState  BY DEF OrphanInv, TypeOK
<1>2. Others(r) /\ req'[r].result = req[r].result
  <2>1. CASE AddRead(r)
    <3>1. PICK n \in 1..MaxFiles :
            Become(r, [req[r] EXCEPT !.pc = "upload", !.files = n, !.beside = others])
      BY <2>1 DEF AddRead
    <3> DEFINE x == [req[r] EXCEPT !.pc = "upload", !.files = n, !.beside = others]
    <3>2. x.result = req[r].result  BY <1>1 DEF RequestState
    <3>3. Become(r, x)  BY <3>1
    <3> HIDE DEF x, others
    <3> QED  BY <3>2, <3>3, BecomeOnly DEF OrphanInv, Others
  <2>2. CASE RemoveRead(r)
    <3>1. PICK k \in Keys : Become(r, [req[r] EXCEPT !.pc = "find", !.keys = {k}])
      BY <2>2 DEF RemoveRead
    <3> DEFINE x == [req[r] EXCEPT !.pc = "find", !.keys = {k}]
    <3>2. x.result = req[r].result  BY <1>1 DEF RequestState
    <3>3. Become(r, x)  BY <3>1
    <3> HIDE DEF x
    <3> QED  BY <3>2, <3>3, BecomeOnly DEF OrphanInv, Others
  <2>3. CASE RemoveFormRead(r)
    <3> DEFINE x == [req[r] EXCEPT !.pc = "deleteForm", !.keys = rows]
    <3>1. x.result = req[r].result  BY <1>1 DEF RequestState
    <3>2. Become(r, x)  BY <2>3 DEF RemoveFormRead
    <3> HIDE DEF x
    <3> QED  BY <3>1, <3>2, BecomeOnly DEF OrphanInv, Others
  <2> QED  BY <2>1, <2>2, <2>3
<1> QED  BY <1>2, OrphanContinue DEF AddRead, RemoveRead, RemoveFormRead, At

LEMMA OrphanUpdate ==
  ASSUME OrphanInv, NEW r \in Requests, TypeOK', UpdateForm(r)
  PROVE  OrphanInv'
<1>1. Others(r) /\ req'[r].result = req[r].result
  BY ContinueOnly DEF UpdateForm, OrphanInv, Others
<1> QED  BY <1>1, OrphanContinue DEF UpdateForm, At

LEMMA OrphanRemoveFind ==
  ASSUME OrphanInv, NEW r \in Requests, TypeOK', RemoveFind(r)
  PROVE  OrphanInv'
<1>1. CASE Answer(r, "refused")  BY <1>1, OrphanAnswer DEF RemoveFind, At
<1>2. CASE Continue(r, "deleteRow")
  <2>1. Others(r) /\ req'[r].result = req[r].result
    BY <1>2, ContinueOnly DEF OrphanInv, Others
  <2> QED  BY <2>1, OrphanContinue DEF RemoveFind, At
<1> QED  BY <1>1, <1>2 DEF RemoveFind

LEMMA OrphanRemoveDeleteRow ==
  ASSUME OrphanInv, NEW r \in Requests, TypeOK', RemoveDeleteRow(r)
  PROVE  OrphanInv'
<1>1. CASE Answer(r, "failed") /\ UNCHANGED rows
  BY <1>1, OrphanAnswer DEF RemoveDeleteRow, At
<1>2. CASE rows' = rows \ req[r].keys /\ Continue(r, "deleteObjects")
  <2>1. /\ Others(r) /\ req'[r].result = req[r].result
        /\ At(r, "deleteObjects")' /\ req'[r].keys = req[r].keys
    BY <1>2, ContinueOnly DEF OrphanInv, Others, At
  <2>2. \A k \in (rows \ rows') : Accounted(k)'
    BY <1>2, <2>1 DEF Accounted
  <2> QED  BY <2>1, <2>2, OrphanContinue DEF RemoveDeleteRow, At
<1> QED  BY <1>1, <1>2 DEF RemoveDeleteRow

LEMMA OrphanRemoveFormDelete ==
  ASSUME OrphanInv, NEW r \in Requests, TypeOK', RemoveFormDelete(r)
  PROVE  OrphanInv'
<1>1. CASE Answer(r, "failed") /\ UNCHANGED <<form, rows>>
  BY <1>1, OrphanAnswer DEF RemoveFormDelete, At
<1>2. CASE form' = "deleted" /\ Continue(r, "deleteObjects")
  <2>1. Others(r) /\ req'[r].result = req[r].result
    BY <1>2, ContinueOnly DEF OrphanInv, Others
  <2> QED  BY <1>2, <2>1, OrphanContinue DEF RemoveFormDelete, At
<1> QED  BY <1>1, <1>2 DEF RemoveFormDelete

LEMMA OrphanAddUpload ==
  ASSUME OrphanInv, NEW r \in Requests, TypeOK', AddUpload(r)
  PROVE  OrphanInv'
<1>1. /\ Others(r) /\ req'[r].result = req[r].result
      /\ At(r, "insert")' /\ req'[r].sent = req[r].sent
  BY ContinueOnly DEF AddUpload, OrphanInv, Others, At
<1>2. req'[r].result # "failed"  BY <1>1 DEF OrphanInv, FailedDone, AddUpload, At
<1>3. ASSUME NEW k, k = NextKey(r) PROVE Accounted(k)'
  <2>1. k[1] = r /\ k = <<r, req'[r].sent + 1>>  BY <1>1, <1>3 DEF NextKey
  <2> QED  BY <1>1, <2>1 DEF Accounted, NextKey
<1>4. \A k \in objects' \ rows' : k \in objects \ rows \/ Accounted(k)'
  BY <1>3 DEF AddUpload
<1> QED  BY <1>1, <1>2, <1>4, OrphanStep DEF AddUpload, At

LEMMA OrphanAddInsert ==
  ASSUME OrphanInv, NEW r \in Requests, TypeOK', AddInsert(r)
  PROVE  OrphanInv'
<1>1. CASE Answer(r, "failed") /\ UNCHANGED rows
  BY <1>1, OrphanAnswer DEF AddInsert, At
<1>2. CASE /\ rows' = rows \cup {NextKey(r)}
           /\ Become(r, [req[r] EXCEPT !.sent = @ + 1,
                !.pc = IF req[r].sent + 1 = req[r].files THEN "touch" ELSE "upload"])
  <2> DEFINE x == [req[r] EXCEPT !.sent = @ + 1,
                !.pc = IF req[r].sent + 1 = req[r].files THEN "touch" ELSE "upload"]
  <2>1. x.result = req[r].result  BY DEF OrphanInv, TypeOK, RequestState
  <2>2. Become(r, x)  BY <1>2
  <2> HIDE DEF x
  <2>3. Others(r) /\ req'[r].result = req[r].result
    BY <2>1, <2>2, BecomeOnly DEF OrphanInv, Others
  <2>4. req'[r].result # "failed"  BY <2>3 DEF OrphanInv, FailedDone, AddInsert, At
  <2> QED  BY <1>2, <2>3, <2>4, OrphanStep DEF AddInsert, At
<1> QED  BY <1>1, <1>2 DEF AddInsert

LEMMA OrphanDeleteObject ==
  ASSUME OrphanInv, NEW r \in Requests, TypeOK', DeleteObject(r)
  PROVE  OrphanInv'
<1>1. PICK k \in req[r].keys :
        /\ \/ objects' = objects \ {k} /\ UNCHANGED leftovers
           \/ leftovers' = leftovers \cup {k} /\ UNCHANGED objects
        /\ Become(r, [req[r] EXCEPT !.keys = @ \ {k}])
  BY DEF DeleteObject
<1> DEFINE x == [req[r] EXCEPT !.keys = @ \ {k}]
<1>2. x.result = req[r].result /\ x.keys = req[r].keys \ {k} /\ x.pc = "deleteObjects"
  BY DEF OrphanInv, TypeOK, RequestState, DeleteObject, At
<1>3. Become(r, x)  BY <1>1
<1> HIDE DEF x
<1>4. /\ Others(r) /\ req'[r].result = req[r].result
      /\ At(r, "deleteObjects")' /\ req'[r].keys = req[r].keys \ {k}
  BY <1>2, <1>3, BecomeOnly DEF OrphanInv, Others, At
<1>5. req'[r].result # "failed"  BY <1>4 DEF OrphanInv, FailedDone, DeleteObject, At
<1>6. \A j \in objects' : j \in req[r].keys => j \in leftovers' \/ j \in req'[r].keys
  BY <1>1, <1>4
<1>7. objects' \subseteq objects /\ leftovers \subseteq leftovers'  BY <1>1
<1> QED  BY <1>4, <1>5, <1>6, <1>7, OrphanStep DEF DeleteObject, At

LEMMA OrphanNext == OrphanInv /\ TypeOK' /\ [Next]_uafeVars => OrphanInv'
<1> SUFFICES ASSUME OrphanInv, TypeOK', [Next]_uafeVars PROVE OrphanInv'
  OBVIOUS
<1>1. CASE UNCHANGED uafeVars
  BY <1>1 DEF uafeVars, OrphanInv, TypeOK, FailedDone, NothingBefore, OrphansAccounted,
    At, NextKey
<1>2. ASSUME NEW r \in Requests, RequestStep(r) PROVE OrphanInv'
  BY <1>2, OrphanAnswers, OrphanCreate, OrphanReads, OrphanUpdate, OrphanRemoveFind,
     OrphanRemoveDeleteRow, OrphanRemoveFormDelete, OrphanAddUpload, OrphanAddInsert,
     OrphanDeleteObject DEF RequestStep
<1> QED  BY <1>1, <1>2 DEF Next, Terminated

\* No object is forgotten while the form exists
\* (uafe-forms.service.ts:268-275, 308-309).
THEOREM OrphansAccountedCorrect == Spec => []OrphansAccounted
<1>1. OrphanInv => OrphansAccounted  BY DEF OrphanInv
<1> QED  BY <1>1, OrphanInit, OrphanNext, FileTypeCorrect, PTL DEF Spec
----------------------------------------------------------------------------
(***************************************************************************)
(* CapWithoutOverlap.  As long as no request read the form beside another  *)
(* that was adding, at most one is adding at any time, and the files it    *)
(* still has to send fit below the limit: the count that it compared then  *)
(* has only shrunk, or grown by the rows of its own.                       *)
(***************************************************************************)
Alone == \A r \in Requests : req[r].beside = {}

OneAdding == \A q, r \in Requests : Adding(q) /\ Adding(r) => q = r

RestFits ==
  \A r \in Requests :
    Adding(r) => Cardinality(rows) + (req[r].files - req[r].sent) <= MaxComprobantes

CapInv ==
  /\ IsFiniteSet(rows)
  /\ \A r \in Requests : At(r, "new") => req[r].beside = {}
  /\ Alone => OneAdding /\ RestFits /\ Cardinality(rows) <= MaxComprobantes

\* Steps that add no row and begin no upload.
LEMMA CapKept ==
  ASSUME FileInv, CapInv, NEW r \in Requests, Others(r), ~At(r, "new")',
         rows' \subseteq rows, req'[r].beside = req[r].beside,
         Adding(r)' => /\ Adding(r)
                       /\ req'[r].files = req[r].files /\ req'[r].sent = req[r].sent
  PROVE  CapInv'
<1>1. IsFiniteSet(rows') /\ Cardinality(rows') <= Cardinality(rows)
  BY FS_Subset DEF CapInv
<1>2. Cardinality(rows) \in Nat /\ Cardinality(rows') \in Nat
  BY <1>1, FS_CardinalityType DEF CapInv
<1>3. \A q \in Requests : At(q, "new")' => req'[q].beside = {}
  BY DEF CapInv, Others, At
<1>4. Alone' => Alone  BY DEF Alone, Others
<1>5. \A q \in Requests :
        Adding(q)' => /\ Adding(q)
                      /\ req'[q].files = req[q].files /\ req'[q].sent = req[q].sent
  BY DEF Adding, Others
<1>6. \A q \in Requests : req[q].files \in Nat /\ req[q].sent \in Nat
  BY UafeBounds DEF FileInv, TypeOK, RequestState
<1>7. ASSUME Alone'
      PROVE  OneAdding' /\ RestFits' /\ Cardinality(rows') <= MaxComprobantes
  <2>1. OneAdding /\ RestFits /\ Cardinality(rows) <= MaxComprobantes
    BY <1>4, <1>7 DEF CapInv
  <2>2. OneAdding'  BY <1>5, <2>1 DEF OneAdding
  <2>3. RestFits'
    <3> SUFFICES ASSUME NEW q \in Requests, Adding(q)'
                 PROVE  Cardinality(rows') + (req'[q].files - req'[q].sent)
                          <= MaxComprobantes
      BY DEF RestFits
    <3>1. Cardinality(rows) + (req[q].files - req[q].sent) <= MaxComprobantes
      BY <1>5, <2>1 DEF RestFits
    <3>2. req'[q].files = req[q].files /\ req'[q].sent = req[q].sent  BY <1>5
    <3> QED  BY <1>1, <1>2, <1>6, <3>1, <3>2, UafeBounds
  <2>4. Cardinality(rows') <= MaxComprobantes  BY <1>1, <1>2, <2>1, UafeBounds
  <2> QED  BY <2>2, <2>3, <2>4
<1> QED  BY <1>1, <1>3, <1>7 DEF CapInv

\* What Become keeps of r besides the fields that a step names.
LEMMA CapAnswer ==
  ASSUME FileInv, CapInv, NEW r \in Requests,
         NEW result \in { "served", "refused", "failed" },
         Answer(r, result), rows' \subseteq rows
  PROVE  CapInv'
<1> DEFINE x == [req[r] EXCEPT !.pc = "done", !.result = result, !.keys = {}]
<1>1. x.beside = req[r].beside /\ x.pc = "done"
  BY DEF FileInv, TypeOK, RequestState
<1>2. Become(r, x)  BY DEF Answer
<1> HIDE DEF x
<1>3. req'[r] = x /\ Others(r)  BY <1>2, BecomeOnly DEF FileInv, Others
<1> QED  BY <1>1, <1>3, CapKept DEF Adding, At

LEMMA CapContinue ==
  ASSUME FileInv, CapInv, NEW r \in Requests, NEW pc, Continue(r, pc), pc # "new",
         pc \in { "upload", "insert" } => Adding(r),
         rows' \subseteq rows
  PROVE  CapInv'
<1> DEFINE x == [req[r] EXCEPT !.pc = pc]
<1>1. /\ x.beside = req[r].beside /\ x.pc = pc
      /\ x.files = req[r].files /\ x.sent = req[r].sent
  BY DEF FileInv, TypeOK, RequestState
<1>2. Become(r, x)  BY DEF Continue
<1> HIDE DEF x
<1>3. req'[r] = x /\ Others(r)  BY <1>2, BecomeOnly DEF FileInv, Others
<1> QED  BY <1>1, <1>3, CapKept DEF Adding, At

LEMMA CapKeys ==
  ASSUME FileInv, CapInv, NEW r \in Requests, NEW pc \in { "find", "deleteForm", "deleteObjects" },
         NEW keys, Become(r, [req[r] EXCEPT !.pc = pc, !.keys = keys]), rows' = rows
  PROVE  CapInv'
<1> DEFINE x == [req[r] EXCEPT !.pc = pc, !.keys = keys]
<1>1. x.beside = req[r].beside /\ x.pc = pc
  BY DEF FileInv, TypeOK, RequestState
<1>2. Become(r, x)  OBVIOUS
<1> HIDE DEF x
<1>3. req'[r] = x /\ Others(r)  BY <1>2, BecomeOnly DEF FileInv, Others
<1> QED  BY <1>1, <1>3, CapKept DEF Adding, At

LEMMA CapAddRead ==
  ASSUME FileInv, CapInv, NEW r \in Requests, AddRead(r)
  PROVE  CapInv'
<1> DEFINE others == {s \in Requests : Adding(s)}
<1>1. PICK n \in 1..MaxFiles :
        /\ Cardinality(rows) + n <= MaxComprobantes
        /\ Become(r, [req[r] EXCEPT !.pc = "upload", !.files = n, !.beside = others])
  BY DEF AddRead
<1> DEFINE x == [req[r] EXCEPT !.pc = "upload", !.files = n, !.beside = others]
<1>2. x.pc = "upload" /\ x.files = n /\ x.sent = req[r].sent /\ x.beside = others
  BY DEF FileInv, TypeOK, RequestState
<1>3. Become(r, x)  BY <1>1
<1> HIDE DEF x
<1>4. req'[r] = x /\ Others(r)  BY <1>3, BecomeOnly DEF FileInv, Others
<1>5. req[r].sent = 0 /\ req[r].beside = {} /\ rows' = rows
  BY DEF AddRead, FileInv, SentInFiles, CapInv
<1>6. Cardinality(rows) \in Nat  BY FS_CardinalityType DEF CapInv
<1>7. \A q \in Requests : At(q, "new")' => req'[q].beside = {}
  BY <1>2, <1>4 DEF CapInv, Others, At
<1>8. ASSUME Alone'
      PROVE  OneAdding' /\ RestFits' /\ Cardinality(rows') <= MaxComprobantes
  <2>1. others = {}  BY <1>2, <1>4, <1>8 DEF Alone
  <2>2. \A q \in Requests : Adding(q)' => q = r
    BY <2>1, <1>4 DEF Others, Adding
  <2>3. Cardinality(rows') + (req'[r].files - req'[r].sent) <= MaxComprobantes
    BY <1>1, <1>2, <1>4, <1>5, <1>6
  <2>4. Cardinality(rows') <= MaxComprobantes  BY <1>1, <1>5, <1>6, UafeBounds
  <2> QED  BY <2>2, <2>3, <2>4 DEF OneAdding, RestFits
<1> QED  BY <1>5, <1>7, <1>8 DEF CapInv

LEMMA CapAddInsert ==
  ASSUME FileInv, CapInv, NEW r \in Requests, AddInsert(r)
  PROVE  CapInv'
<1>1. CASE Answer(r, "failed") /\ UNCHANGED rows
  BY <1>1, CapAnswer
<1>2. CASE /\ rows' = rows \cup {NextKey(r)}
           /\ Become(r, [req[r] EXCEPT !.sent = @ + 1,
                !.pc = IF req[r].sent + 1 = req[r].files THEN "touch" ELSE "upload"])
  <2> DEFINE x == [req[r] EXCEPT !.sent = @ + 1,
                !.pc = IF req[r].sent + 1 = req[r].files THEN "touch" ELSE "upload"]
  <2>1. /\ x.sent = req[r].sent + 1 /\ x.files = req[r].files
        /\ x.beside = req[r].beside /\ x.pc \in { "touch", "upload" }
    BY DEF FileInv, TypeOK, RequestState
  <2>2. Become(r, x)  BY <1>2
  <2> HIDE DEF x
  <2>3. req'[r] = x /\ Others(r)  BY <2>2, BecomeOnly DEF FileInv, Others
  <2>4. Adding(r) /\ req[r].sent < req[r].files
        /\ req[r].sent \in Nat /\ req[r].files \in Nat
    BY UafeBounds DEF AddInsert, At, Adding, FileInv, SentInFiles, TypeOK, RequestState
  <2>5. /\ IsFiniteSet(rows') /\ Cardinality(rows') <= Cardinality(rows) + 1
        /\ Cardinality(rows) \in Nat /\ Cardinality(rows') \in Nat
    <3>1. IsFiniteSet(rows) /\ Cardinality(rows) \in Nat
      BY FS_CardinalityType DEF CapInv
    <3>2. /\ IsFiniteSet(rows \cup {NextKey(r)})
          /\ Cardinality(rows \cup {NextKey(r)})
               = IF NextKey(r) \in rows THEN Cardinality(rows) ELSE Cardinality(rows) + 1
      BY <3>1, FS_AddElement
    <3> QED  BY <1>2, <3>1, <3>2
  <2>6. \A q \in Requests : At(q, "new")' => req'[q].beside = {}
    BY <2>1, <2>3 DEF CapInv, Others, At
  <2>7. ASSUME Alone'
        PROVE  OneAdding' /\ RestFits' /\ Cardinality(rows') <= MaxComprobantes
    <3>1. Alone  BY <2>1, <2>3, <2>7 DEF Alone, Others
    <3>2. OneAdding /\ RestFits  BY <3>1 DEF CapInv
    <3>3. \A q \in Requests : Adding(q)' => q = r
      BY <2>3, <2>4, <3>2 DEF OneAdding, Others, Adding
    <3>4. Cardinality(rows) + (req[r].files - req[r].sent) <= MaxComprobantes
      BY <2>4, <3>2 DEF RestFits
    <3>5. /\ Cardinality(rows') + (req'[r].files - req'[r].sent) <= MaxComprobantes
          /\ Cardinality(rows') <= MaxComprobantes
      BY <2>1, <2>3, <2>4, <2>5, <3>4, UafeBounds
    <3> QED  BY <3>3, <3>5 DEF OneAdding, RestFits
  <2> QED  BY <2>5, <2>6, <2>7 DEF CapInv
<1> QED  BY <1>1, <1>2 DEF AddInsert

LEMMA CapRemoves ==
  ASSUME FileInv, CapInv, NEW r \in Requests,
         \/ RemoveRead(r) \/ RemoveFind(r) \/ RemoveDeleteRow(r)
         \/ RemoveFormRead(r) \/ RemoveFormDelete(r)
  PROVE  CapInv'
<1>1. CASE RemoveRead(r)
  <2>1. PICK k \in Keys : Become(r, [req[r] EXCEPT !.pc = "find", !.keys = {k}])
    BY <1>1 DEF RemoveRead
  <2> QED  BY <1>1, <2>1, CapKeys DEF RemoveRead
<1>2. CASE RemoveFind(r)
  BY <1>2, CapContinue, CapAnswer DEF RemoveFind
<1>3. CASE RemoveDeleteRow(r)
  BY <1>3, CapContinue, CapAnswer DEF RemoveDeleteRow
<1>4. CASE RemoveFormRead(r)
  BY <1>4, CapKeys DEF RemoveFormRead
<1>5. CASE RemoveFormDelete(r)
  BY <1>5, CapContinue, CapAnswer DEF RemoveFormDelete
<1> QED  BY <1>1, <1>2, <1>3, <1>4, <1>5

LEMMA CapDeleteObject ==
  ASSUME FileInv, CapInv, NEW r \in Requests, DeleteObject(r)
  PROVE  CapInv'
<1>1. PICK k \in req[r].keys : Become(r, [req[r] EXCEPT !.keys = @ \ {k}])
  BY DEF DeleteObject
<1> DEFINE x == [req[r] EXCEPT !.keys = @ \ {k}]
<1>2. x.beside = req[r].beside /\ x.pc = "deleteObjects"
  BY DEF DeleteObject, At, FileInv, TypeOK, RequestState
<1>3. Become(r, x)  BY <1>1
<1> HIDE DEF x
<1>4. req'[r] = x /\ Others(r)  BY <1>3, BecomeOnly DEF FileInv, Others
<1> QED  BY <1>2, <1>4, CapKept DEF DeleteObject, Adding, At

LEMMA CapInit == Init => CapInv
<1> SUFFICES ASSUME Init PROVE CapInv
  OBVIOUS
<1>1. IsFiniteSet(rows) /\ Cardinality(rows) = 0  BY FS_EmptySet DEF Init
<1>2. \A r \in Requests : req[r].pc = "new" /\ req[r].beside = {}
  BY DEF Init, NewRequest
<1>3. \A r \in Requests : ~Adding(r)  BY <1>2 DEF Adding
<1>4. OneAdding /\ RestFits  BY <1>3 DEF OneAdding, RestFits
<1> QED  BY <1>1, <1>2, <1>4, UafeBounds DEF CapInv

LEMMA CapNext == FileInv /\ CapInv /\ [Next]_uafeVars => CapInv'
<1> SUFFICES ASSUME FileInv, CapInv, [Next]_uafeVars PROVE CapInv'
  OBVIOUS
<1>1. CASE UNCHANGED uafeVars
  BY <1>1 DEF uafeVars, CapInv, Alone, OneAdding, RestFits, Adding, At
<1>2. ASSUME NEW r \in Requests, RequestStep(r) PROVE CapInv'
  <2>1. CASE Denied(r)  BY <2>1, CapAnswer DEF Denied
  <2>2. CASE CreateForm(r)  BY <2>2, CapAnswer DEF CreateForm
  <2>3. CASE UpdateForm(r)  BY <2>3, CapContinue DEF UpdateForm
  <2>4. CASE AddUpload(r)  BY <2>4, CapContinue DEF AddUpload, At, Adding
  <2>5. CASE Touch(r)  BY <2>5, CapAnswer DEF Touch
  <2>6. CASE DeleteDone(r)  BY <2>6, CapAnswer DEF DeleteDone
  <2>7. CASE Fail(r)  BY <2>7, CapAnswer DEF Fail
  <2> QED  BY <1>2, <2>1, <2>2, <2>3, <2>4, <2>5, <2>6, <2>7, CapAddRead, CapAddInsert,
              CapRemoves, CapDeleteObject DEF RequestStep
<1> QED  BY <1>1, <1>2 DEF Next, Terminated

\* Without requests that overlap, the limit of comprobantes holds for any
\* limits and any failures (uafe-forms.service.ts:260-264).
THEOREM CapCorrect == Spec => []CapWithoutOverlap
<1>1. CapInv => CapWithoutOverlap  BY DEF CapInv, Alone, CapWithoutOverlap
<1> QED  BY <1>1, FileInit, FileNext, CapInit, CapNext, PTL DEF Spec

----------------------------------------------------------------------------
(***************************************************************************)
(* The clients and their documents.                                        *)
(*                                                                         *)
(* A request that is to write has only rows that the helper accepted, and  *)
(* what the helper accepts is what the law has (CheckIsLaw).  Imported     *)
(* says of the rows named by a request that they are in the table exactly  *)
(* if the request has counted them, which it does when it inserts them and *)
(* which stays, whether it then answers or dies at the log row.            *)
(***************************************************************************)
RowStates ==
  [ state: {"absent", "present", "deleted"}, doc: Documents \cup {NULL}, passport: BOOLEAN ]

ClientCalls ==
  [ pc: {"new", "insert", "write", "delete", "log", "done"},
    op: {"none", "create", "bulk", "update", "remove"},
    result: {"none", "ok", "rejected", "notFound", "failed"},
    id: Ids \cup {NULL}, rows: Seq(RowStates), imported: Nat,
    errores: SUBSET Nat, bad: SUBSET Nat ]

Accepted(x) == DOMAIN x.rows \ x.errores

ClientShape(x) ==
  /\ x.pc = "new" => x.op = "none"
  /\ x.pc = "insert" => x.op \in {"create", "bulk"}
  /\ x.pc = "write" => x.op = "update"
  /\ x.pc = "delete" => x.op = "remove"
  /\ x.pc # "done" => x.result = "none"
  /\ x.pc \in {"write", "delete"} => x.id \in Ids
  /\ IF x.op = "bulk" THEN x.errores = x.bad /\ x.errores \subseteq DOMAIN x.rows
                      ELSE x.errores = {}
  /\ x.pc = "log" => x.op # "none"
  /\ x.imported \in {0, Cardinality(Accepted(x))}
  /\ x.pc \in {"new", "insert"} \/ x.op \in {"update", "remove"} => x.imported = 0
  /\ x.op \in {"create", "bulk"} /\ (x.pc = "log" \/ x.result = "ok") =>
       x.imported = Cardinality(Accepted(x))
  /\ Len(x.rows) <= MaxRows
  /\ \A n \in Accepted(x) :
       /\ WellFormed(x.rows[n].doc, x.rows[n].passport)
       /\ x.rows[n].state = "present" \/ (x.op = "update" /\ x.rows[n] = NoClient)
  /\ x.pc = "write" => Len(x.rows) = 1

Inserts(x) == x.imported # 0

ClientsTyped ==
  /\ client \in [Ids -> RowStates]
  /\ call \in [Calls -> ClientCalls]
  /\ \A r \in Calls : ClientShape(call[r])

Imported ==
  \A r \in Calls : \A n \in 1..MaxRows :
    client[<<r, n>>].state # "absent" <=> Inserts(call[r]) /\ n \in Accepted(call[r])

ClientsInv == ClientsTyped /\ StoredWellFormed /\ Imported

LEMMA RowsOfDtos ==
  ASSUME NEW d \in PartialDtos
  PROVE  /\ Row(d) \in RowStates
         /\ Given(d.doc) \in Documents \cup {NULL}
         /\ Row(d).state = "present" /\ Row(d).doc = Given(d.doc)
         /\ Row(d).passport = d.passport
         /\ Row(d) # NoClient
BY SMT DEF PartialDtos, Row, Given, RowStates, NoClient

(***************************************************************************)
(* The helper accepts what the law has and nothing else, for documents of  *)
(* every length.                                                           *)
(***************************************************************************)
LEMMA CheckIsLaw ==
  ASSUME NEW d \in PartialDtos
  PROVE  Check(d).valid <=> WellFormed(Given(d.doc), d.passport)
<1>1. CASE d.passport
  <2> DEFINE v == Given(d.doc)
  <2>0. v \in Documents \cup {NULL} /\ Check(d) = validateIdentificacion(NULL, TRUE, v)
    BY <1>1, RowsOfDtos DEF Check, PartialDtos
  <2>1. CASE v = NULL
    <3>1. Check(d) = Invalid("pasaporte")
      BY <2>0, <2>1 DEF validateIdentificacion, Empty
    <3> QED BY <1>1, <2>1, <3>1 DEF WellFormed, Invalid
  <2>2. CASE v # NULL
    <3>1. /\ d.doc \in Documents /\ v = d.doc
          /\ v.length \in Nat /\ v.length > 0
      BY <1>1, <2>0, <2>2, SentinelsDiffer, LengthsAreNaturals DEF PartialDtos, Given, Documents
    <3>2. Check(d) = validatePasaporteFormat(v)
      BY <2>0, <2>2, <3>1 DEF validateIdentificacion, Empty
    <3>3. validatePasaporteFormat(v).valid
            <=> v.form # "other" /\ 5 <= v.length /\ v.length <= 20
      BY <3>1, SMT DEF validatePasaporteFormat, Valid, Invalid
    <3> QED BY <1>1, <2>2, <3>2, <3>3 DEF WellFormed
  <2> QED BY <2>1, <2>2
<1>2. CASE ~d.passport
  <2> DEFINE v == Given(d.doc)
  <2>0. v \in Documents \cup {NULL} /\ d.passport = FALSE
    BY <1>2, RowsOfDtos DEF PartialDtos
  <2>1. CASE v = NULL
    <3>1. Check(d) = Valid
      BY <1>2, <2>1 DEF Check, validateIdentificacion, Empty
    <3> QED BY <1>2, <2>1, <3>1 DEF WellFormed, Valid
  <2>2. CASE v # NULL
    <3>1. v.length \in Nat /\ v.form \in {"digits", "na", "alnum", "other"}
      BY <2>0, <2>2, LengthsAreNaturals DEF Documents
    <3>2. Check(d) = validateIdentificacion(v, FALSE, NULL)
      BY <2>0 DEF Check
    <3> HIDE DEF v
    <3>3. validateIdentificacion(v, FALSE, NULL).valid
            <=> \/ v.length = 0
                \/ v.form = "digits" /\ v.length \in {10, 13}
                \/ v.form = "na" /\ v.length = 10
      BY <2>2, <3>1, SMT
      DEF validateIdentificacion, Empty, isNaCedulaORuc, validateCedulaFormat,
          validateRucFormat, Digits, Valid, Invalid
    <3>4. WellFormed(v, FALSE)
            <=> \/ v.length = 0
                \/ v.form = "digits" /\ v.length \in {10, 13}
                \/ v.form = "na" /\ v.length = 10
      BY <2>2, <3>1 DEF WellFormed
    <3> QED BY <2>0, <3>2, <3>3, <3>4 DEF v
  <2> QED BY <2>1, <2>2
<1> QED BY <1>1, <1>2

LEMMA NothingIsWellFormed == NoClient \in RowStates /\ WellFormed(NoClient.doc, NoClient.passport)
BY DEF NoClient, RowStates, WellFormed

----------------------------------------------------------------------------
(***************************************************************************)
(* The rows of an import that were taken and those in error are together   *)
(* the rows of the import, and the invariant says the rest.                *)
(***************************************************************************)
LEMMA RowsAddUp ==
  ASSUME NEW n \in Nat, NEW E, E \subseteq 1..n
  PROVE  Cardinality(1..n \ E) + Cardinality(E) = n
<1>1. IsFiniteSet(1..n) /\ Cardinality(1..n) = n
  BY FS_Interval, SMT
<1>2. IsFiniteSet(E) /\ IsFiniteSet(1..n \ E)
  BY <1>1, FS_Subset
<1>3. Cardinality(1..n \ E) = Cardinality(1..n) - Cardinality((1..n) \cap E)
  BY <1>1, <1>2, FS_Difference
<1>4. (1..n) \cap E = E
  OBVIOUS
<1>5. Cardinality(E) \in Nat
  BY <1>2, FS_CardinalityType
<1>6. Cardinality(1..n \ E) = n - Cardinality(E)
  BY <1>1, <1>3, <1>4
<1> QED BY <1>5, <1>6, SMT

LEMMA ImportsAccounted == ClientsInv => ImportAccounted
<1> SUFFICES ASSUME ClientsInv, NEW r \in Calls, call[r].op = "bulk"
             PROVE  LET good == DOMAIN call[r].rows \ call[r].bad
                        stored == {n \in 1..MaxRows : client[<<r, n>>].state # "absent"}
                    IN  /\ stored \in {{}, good}
                        /\ CallAt(r, "insert") => stored = {}
                        /\ CallAt(r, "log") \/ call[r].result = "ok" =>
                             /\ stored = good
                             /\ call[r].errores = call[r].bad
                             /\ call[r].imported + Cardinality(call[r].errores)
                                  = Len(call[r].rows)
  BY DEF ImportAccounted
<1> DEFINE x == call[r]
           good == DOMAIN x.rows \ x.bad
           stored == {n \in 1..MaxRows : client[<<r, n>>].state # "absent"}
<1>1. x \in ClientCalls /\ ClientShape(x)
  BY DEF ClientsInv, ClientsTyped
<1>2. x.errores = x.bad /\ x.errores \subseteq DOMAIN x.rows
  BY <1>1 DEF ClientShape
<1>3. DOMAIN x.rows = 1..Len(x.rows) /\ Len(x.rows) \in Nat /\ Len(x.rows) <= MaxRows
  BY <1>1 DEF ClientShape, ClientCalls
<1>4. good = Accepted(x) /\ good = 1..Len(x.rows) \ x.errores /\ good \subseteq 1..MaxRows
  BY <1>2, <1>3, ClientBounds DEF Accepted
<1>5. stored = IF x.imported = 0 THEN {} ELSE good
  <2>1. \A n \in 1..MaxRows : client[<<r, n>>].state # "absent"
                                <=> x.imported # 0 /\ n \in Accepted(x)
    BY DEF ClientsInv, Imported, Inserts
  <2> QED BY <1>4, <2>1
<1>6. ASSUME x.pc = "log" \/ x.result = "ok"
      PROVE  stored = good /\ x.imported + Cardinality(x.errores) = Len(x.rows)
  <2>1. x.imported = Cardinality(good)
    BY <1>1, <1>4, <1>6 DEF ClientShape
  <2>2. IsFiniteSet(good)
    <3>1. IsFiniteSet(1..Len(x.rows))
      BY <1>3, FS_Interval
    <3> QED BY <1>4, <3>1, FS_Subset
  <2>3. x.imported = 0 => good = {}
    BY <2>1, <2>2, FS_EmptySet
  <2>4. x.imported + Cardinality(x.errores) = Len(x.rows)
    BY <1>2, <1>3, <1>4, <2>1, RowsAddUp
  <2> QED BY <1>5, <2>3, <2>4
<1>7. x.pc = "insert" => stored = {}
  BY <1>1, <1>5 DEF ClientShape
<1> QED BY <1>2, <1>5, <1>6, <1>7 DEF CallAt

----------------------------------------------------------------------------
KeepsRows(x, y) ==
  /\ Inserts(x) <=> Inserts(y)
  /\ Inserts(x) => Accepted(x) = Accepted(y)

(***************************************************************************)
(* A step of a request that inserts nothing, or has done so before: it is  *)
(* enough that the rows of the table stay well formed and none appears.    *)
(***************************************************************************)
LEMMA CallKeeps ==
  ASSUME ClientsInv,
         NEW r \in Calls,
         NEW x \in ClientCalls, ClientShape(x), KeepsRows(x, call[r]),
         SetCall(r, x),
         client' \in [Ids -> RowStates],
         \A i \in Ids : /\ WellFormed(client'[i].doc, client'[i].passport)
                        /\ client'[i].state = "absent" <=> client[i].state = "absent"
  PROVE  ClientsInv'
<1>1. \A q \in Calls : call'[q] = IF q = r THEN x ELSE call[q]
  BY DEF ClientsInv, ClientsTyped, SetCall
<1>2. ClientsTyped'
  <2>1. call' \in [Calls -> ClientCalls]
    BY DEF ClientsInv, ClientsTyped, SetCall
  <2>2. \A q \in Calls : ClientShape(call'[q])
    BY <1>1 DEF ClientsInv, ClientsTyped
  <2> QED BY <2>1, <2>2 DEF ClientsTyped, ClientShape, Accepted
<1>3. StoredWellFormed'
  BY DEF StoredWellFormed
<1>4. Imported'
  <2> SUFFICES ASSUME NEW q \in Calls, NEW n \in 1..MaxRows
               PROVE  client'[<<q, n>>].state # "absent"
                        <=> Inserts(call'[q]) /\ n \in Accepted(call'[q])
    BY DEF Imported, Inserts, Accepted
  <2>1. client[<<q, n>>].state # "absent" <=> Inserts(call[q]) /\ n \in Accepted(call[q])
    BY DEF ClientsInv, Imported
  <2>2. client'[<<q, n>>].state = "absent" <=> client[<<q, n>>].state = "absent"
    BY DEF Ids
  <2>3. call'[q] = IF q = r THEN x ELSE call[q]
    BY <1>1
  <2>4. Inserts(call'[q]) /\ n \in Accepted(call'[q])
          <=> Inserts(call[q]) /\ n \in Accepted(call[q])
    BY <2>3 DEF KeepsRows
  <2> QED BY <2>1, <2>2, <2>4
<1> QED BY <1>2, <1>3, <1>4 DEF ClientsInv

LEMMA CallKeepsTable ==
  ASSUME ClientsInv,
         NEW r \in Calls,
         NEW x \in ClientCalls, ClientShape(x), KeepsRows(x, call[r]),
         SetCall(r, x), UNCHANGED client
  PROVE  ClientsInv'
BY CallKeeps DEF ClientsInv, ClientsTyped, StoredWellFormed

(***************************************************************************)
(* What an answer, and what the log row that is to follow, make of a       *)
(* request.                                                                *)
(***************************************************************************)
LEMMA AnswerFields ==
  ASSUME ClientsInv,
         NEW r \in Calls, call[r].pc # "done",
         NEW result \in {"ok", "rejected", "notFound", "failed"},
         result = "ok" => call[r].pc = "log"
  PROVE  LET x == [call[r] EXCEPT !.pc = "done", !.result = result]
         IN  x \in ClientCalls /\ ClientShape(x) /\ KeepsRows(x, call[r])
<1> DEFINE x == [call[r] EXCEPT !.pc = "done", !.result = result]
<1>1. call[r] \in ClientCalls /\ ClientShape(call[r])
  BY DEF ClientsInv, ClientsTyped
<1>2. x \in ClientCalls
  BY <1>1 DEF ClientCalls
<1>3. /\ x.pc = "done" /\ x.result = result /\ x.op = call[r].op /\ x.rows = call[r].rows
      /\ x.errores = call[r].errores /\ x.bad = call[r].bad
      /\ x.imported = call[r].imported
  BY <1>1 DEF ClientCalls
<1> HIDE DEF x
<1>4. Accepted(x) = Accepted(call[r])
  BY <1>3 DEF Accepted
<1>5. ClientShape(x)
  BY <1>1, <1>3, <1>4 DEF ClientShape
<1>6. KeepsRows(x, call[r])
  BY <1>3, <1>4 DEF KeepsRows, Inserts
<1> QED BY <1>2, <1>5, <1>6 DEF x

LEMMA LogFields ==
  ASSUME ClientsInv,
         NEW r \in Calls, call[r].pc \in {"write", "delete"}
  PROVE  LET x == [call[r] EXCEPT !.pc = "log"]
         IN  x \in ClientCalls /\ ClientShape(x) /\ KeepsRows(x, call[r])
<1> DEFINE x == [call[r] EXCEPT !.pc = "log"]
<1>1. call[r] \in ClientCalls /\ ClientShape(call[r])
  BY DEF ClientsInv, ClientsTyped
<1>2. x \in ClientCalls
  BY <1>1 DEF ClientCalls
<1>3. /\ x.pc = "log" /\ x.result = call[r].result /\ x.op = call[r].op
      /\ x.rows = call[r].rows /\ x.errores = call[r].errores /\ x.bad = call[r].bad
      /\ x.imported = call[r].imported
  BY <1>1 DEF ClientCalls
<1> HIDE DEF x
<1>4. Accepted(x) = Accepted(call[r])
  BY <1>3 DEF Accepted
<1>5. ClientShape(x)
  BY <1>1, <1>3, <1>4 DEF ClientShape
<1>6. KeepsRows(x, call[r])
  BY <1>3, <1>4 DEF KeepsRows, Inserts
<1> QED BY <1>2, <1>5, <1>6 DEF x

LEMMA AnswerKeeps ==
  ASSUME ClientsInv,
         NEW r \in Calls, call[r].pc # "done",
         NEW result \in {"ok", "rejected", "notFound", "failed"},
         result = "ok" => call[r].pc = "log",
         AnswerCall(r, result), UNCHANGED client
  PROVE  ClientsInv'
<1> DEFINE x == [call[r] EXCEPT !.pc = "done", !.result = result]
<1>1. x \in ClientCalls /\ ClientShape(x) /\ KeepsRows(x, call[r])
  BY AnswerFields
<1>2. SetCall(r, x)
  BY DEF AnswerCall
<1> HIDE DEF x
<1> QED BY <1>1, <1>2, CallKeepsTable

(***************************************************************************)
(* A new request that is to store one row, or none.                        *)
(***************************************************************************)
LEMMA NewCallFields ==
  ASSUME ClientsInv, NEW r \in Calls, CallAt(r, "new")
  PROVE  /\ call[r] \in ClientCalls /\ call[r].imported = 0
         /\ call[r].op = "none" /\ call[r].result = "none" /\ call[r].errores = {}
         /\ Len(call[r].rows) <= MaxRows
         /\ \A n \in DOMAIN call[r].rows :
              /\ WellFormed(call[r].rows[n].doc, call[r].rows[n].passport)
              /\ call[r].rows[n].state = "present"
<1>1. call[r] \in ClientCalls /\ ClientShape(call[r]) /\ call[r].pc = "new"
  BY DEF ClientsInv, ClientsTyped, CallAt
<1>2. call[r].op = "none" /\ call[r].result = "none" /\ call[r].imported = 0
  BY <1>1 DEF ClientShape
<1>3. call[r].errores = {} /\ Len(call[r].rows) <= MaxRows
  BY <1>1, <1>2 DEF ClientShape
<1>4. Accepted(call[r]) = DOMAIN call[r].rows
  BY <1>3 DEF Accepted
<1>5. \A n \in DOMAIN call[r].rows :
        /\ WellFormed(call[r].rows[n].doc, call[r].rows[n].passport)
        /\ call[r].rows[n].state = "present"
  BY <1>1, <1>2, <1>4 DEF ClientShape
<1> QED BY <1>1, <1>2, <1>3, <1>5

LEMMA CreateKeeps ==
  ASSUME ClientsInv, NEW r \in Calls, NEW d \in Dtos, Create(r, d)
  PROVE  ClientsInv'
<1>1. CASE ~Check(d).valid
  BY <1>1, AnswerKeeps DEF Create, CallAt
<1>2. CASE Check(d).valid
  <2> DEFINE x == [call[r] EXCEPT !.pc = "insert", !.op = "create", !.rows = <<Row(d)>>]
  <2>1. SetCall(r, x) /\ UNCHANGED client /\ CallAt(r, "new")
    BY <1>2 DEF Create
  <2>2. /\ call[r] \in ClientCalls /\ call[r].imported = 0
        /\ call[r].result = "none" /\ call[r].errores = {}
    BY <2>1, NewCallFields
  <2>3. Row(d) \in RowStates /\ Row(d).state = "present"
        /\ WellFormed(Row(d).doc, Row(d).passport)
    BY <1>2, RowsOfDtos, CheckIsLaw DEF Dtos
  <2>4. x \in ClientCalls
    <3>1. <<Row(d)>> \in Seq(RowStates)
      BY <2>3
    <3> QED BY <2>2, <3>1 DEF ClientCalls
  <2>5. /\ x.pc = "insert" /\ x.op = "create" /\ x.rows = <<Row(d)>>
        /\ x.result = "none" /\ x.errores = {} /\ x.imported = 0
    BY <2>2 DEF ClientCalls
  <2> HIDE DEF x
  <2>6. Len(x.rows) = 1 /\ Accepted(x) = {1} /\ x.rows[1] = Row(d)
    BY <2>5 DEF Accepted
  <2>7. ClientShape(x)
    BY <2>3, <2>5, <2>6, ClientBounds DEF ClientShape
  <2>8. KeepsRows(x, call[r])
    BY <2>2, <2>5 DEF KeepsRows, Inserts
  <2> QED BY <2>1, <2>2, <2>4, <2>7, <2>8, CallKeepsTable
<1> QED BY <1>1, <1>2

LEMMA UpdateKeeps ==
  ASSUME ClientsInv, NEW r \in Calls, NEW d \in PartialDtos, NEW i \in Ids, NEW rest \in BOOLEAN,
         Update(r, i, d, rest)
  PROVE  ClientsInv'
<1> DEFINE row == IF d.doc = ABSENT THEN NoClient ELSE Row(d)
           x == [call[r] EXCEPT !.pc = "write", !.op = "update", !.id = i, !.rows = <<row>>]
<1>1. CASE AnswerCall(r, "notFound") \/ AnswerCall(r, "rejected")
  BY <1>1, AnswerKeeps DEF Update, CallAt
<1>2. CASE SetCall(r, x) /\ (d.doc = ABSENT \/ Check(d).valid)
  <2>1. SetCall(r, x) /\ UNCHANGED client /\ CallAt(r, "new")
    BY <1>2 DEF Update
  <2>2. /\ call[r] \in ClientCalls /\ call[r].imported = 0
        /\ call[r].result = "none" /\ call[r].errores = {}
    BY <2>1, NewCallFields
  <2>3. /\ row \in RowStates
        /\ WellFormed(row.doc, row.passport)
        /\ row.state = "present" \/ row = NoClient
    BY <1>2, RowsOfDtos, CheckIsLaw, NothingIsWellFormed
  <2> HIDE DEF row
  <2>4. x \in ClientCalls
    <3>1. <<row>> \in Seq(RowStates)
      BY <2>3
    <3> QED BY <2>2, <3>1 DEF ClientCalls
  <2>5. /\ x.pc = "write" /\ x.op = "update" /\ x.rows = <<row>> /\ x.id = i
        /\ x.result = "none" /\ x.errores = {} /\ x.imported = 0
    BY <2>2 DEF ClientCalls
  <2> HIDE DEF x
  <2>6. Len(x.rows) = 1 /\ Accepted(x) = {1} /\ x.rows[1] = row
    BY <2>5 DEF Accepted
  <2>7. ClientShape(x)
    BY <2>3, <2>5, <2>6, ClientBounds DEF ClientShape
  <2>8. KeepsRows(x, call[r])
    BY <2>2, <2>5 DEF KeepsRows, Inserts
  <2> QED BY <2>1, <2>2, <2>4, <2>7, <2>8, CallKeepsTable
<1> QED BY <1>1, <1>2 DEF Update

LEMMA RemoveKeeps ==
  ASSUME ClientsInv, NEW r \in Calls, NEW i \in Ids, Remove(r, i)
  PROVE  ClientsInv'
<1> DEFINE x == [call[r] EXCEPT !.pc = "delete", !.op = "remove", !.id = i]
<1>1. CASE ~Present(i)
  BY <1>1, AnswerKeeps DEF Remove, CallAt
<1>2. CASE Present(i)
  <2>1. SetCall(r, x) /\ UNCHANGED client /\ CallAt(r, "new")
    BY <1>2 DEF Remove
  <2>2. /\ call[r] \in ClientCalls /\ call[r].imported = 0
        /\ call[r].result = "none" /\ call[r].errores = {}
        /\ Len(call[r].rows) <= MaxRows
        /\ \A n \in DOMAIN call[r].rows :
             /\ WellFormed(call[r].rows[n].doc, call[r].rows[n].passport)
             /\ call[r].rows[n].state = "present"
    BY <2>1, NewCallFields
  <2>3. x \in ClientCalls
    BY <2>2 DEF ClientCalls
  <2>4. /\ x.pc = "delete" /\ x.op = "remove" /\ x.rows = call[r].rows /\ x.id = i
        /\ x.result = "none" /\ x.errores = {} /\ x.imported = 0
    BY <2>2 DEF ClientCalls
  <2> HIDE DEF x
  <2>5. ClientShape(x)
    BY <2>2, <2>4 DEF ClientShape, Accepted
  <2>6. KeepsRows(x, call[r])
    BY <2>2, <2>4 DEF KeepsRows, Inserts
  <2> QED BY <2>1, <2>2, <2>3, <2>5, <2>6, CallKeepsTable
<1> QED BY <1>1, <1>2

LEMMA BulkKeeps ==
  ASSUME ClientsInv, NEW r \in Calls, NEW n \in 1..MaxRows, NEW ds \in [1..n -> Dtos],
         Bulk(r, ds)
  PROVE  ClientsInv'
<1> DEFINE errores == {i \in DOMAIN ds : ~Check(ds[i]).valid}
           bad == {i \in DOMAIN ds : ~WellFormed(Given(ds[i].doc), ds[i].passport)}
           taken == [i \in DOMAIN ds |-> IF i \in errores THEN NoClient ELSE Row(ds[i])]
           x == [call[r] EXCEPT !.pc = "insert", !.op = "bulk", !.errores = errores,
                                !.rows = taken, !.bad = bad]
<1>1. SetCall(r, x) /\ UNCHANGED client /\ CallAt(r, "new")
  BY DEF Bulk
<1>2. call[r] \in ClientCalls /\ call[r].imported = 0 /\ call[r].result = "none"
  BY <1>1, NewCallFields
<1>3. DOMAIN ds = 1..n /\ n \in Nat /\ n <= MaxRows /\ \A i \in 1..n : ds[i] \in Dtos
  BY ClientBounds
<1>4. errores = bad
  BY <1>3, CheckIsLaw DEF Dtos
<1>5. errores \subseteq 1..n /\ errores \in SUBSET Nat
  BY <1>3
<1>6. \A i \in 1..n : taken[i] = IF i \in errores THEN NoClient ELSE Row(ds[i])
  BY <1>3
<1>7. \A i \in 1..n : taken[i] \in RowStates
  BY <1>3, <1>6, RowsOfDtos, NothingIsWellFormed DEF Dtos
<1>8. taken \in Seq(RowStates) /\ Len(taken) = n /\ DOMAIN taken = 1..n
  <2>1. DOMAIN taken = 1..n
    BY <1>3
  <2>2. taken \in [1..n -> RowStates]
    <3>1. taken = [i \in 1..n |-> taken[i]]
      BY <1>3
    <3> QED BY <1>7, <3>1
  <2> QED BY <1>3, <2>1, <2>2
<1>9. \A i \in 1..n \ errores : /\ WellFormed(taken[i].doc, taken[i].passport)
                                /\ taken[i].state = "present"
  <2> SUFFICES ASSUME NEW i \in 1..n \ errores
               PROVE  WellFormed(taken[i].doc, taken[i].passport) /\ taken[i].state = "present"
    OBVIOUS
  <2>1. ds[i] \in Dtos /\ Check(ds[i]).valid
    BY <1>3
  <2>2. taken[i] = Row(ds[i])
    BY <1>6
  <2> QED BY <2>1, <2>2, RowsOfDtos, CheckIsLaw DEF Dtos
<1> HIDE DEF errores, bad, taken
<1>10. x \in ClientCalls
  BY <1>2, <1>4, <1>5, <1>8 DEF ClientCalls
<1>11. /\ x.pc = "insert" /\ x.op = "bulk" /\ x.rows = taken /\ x.errores = errores
       /\ x.bad = bad /\ x.result = "none" /\ x.imported = 0
  BY <1>2 DEF ClientCalls
<1> HIDE DEF x
<1>12. Accepted(x) = 1..n \ errores
  BY <1>8, <1>11 DEF Accepted
<1>13. ClientShape(x)
  BY <1>3, <1>4, <1>5, <1>8, <1>9, <1>11, <1>12 DEF ClientShape
<1>14. KeepsRows(x, call[r])
  BY <1>2, <1>11 DEF KeepsRows, Inserts
<1> QED BY <1>1, <1>2, <1>10, <1>13, <1>14, CallKeepsTable

(***************************************************************************)
(* The rows taken appear in the table, under the name of their request,    *)
(* and nothing else does.                                                  *)
(***************************************************************************)
LEMMA InsertKeeps ==
  ASSUME ClientsInv, NEW r \in Calls, Insert(r)
  PROVE  ClientsInv'
<1> DEFINE good == Accepted(call[r])
           x == [call[r] EXCEPT !.pc = "log", !.imported = Cardinality(good)]
<1>1. /\ SetCall(r, x) /\ call[r].pc = "insert"
      /\ client' = [i \in Ids |-> IF i \in {<<r, n>> : n \in good}
                                  THEN call[r].rows[i[2]] ELSE client[i]]
  BY DEF Insert, Accepted, CallAt
<1>2. call[r] \in ClientCalls /\ ClientShape(call[r]) /\ ~Inserts(call[r])
  BY <1>1 DEF ClientsInv, ClientsTyped, ClientShape, Inserts
<1>3. call[r].op \in {"create", "bulk"}
  BY <1>1, <1>2 DEF ClientShape
<1>4. \A n \in good : /\ call[r].rows[n] \in RowStates
                      /\ WellFormed(call[r].rows[n].doc, call[r].rows[n].passport)
                      /\ call[r].rows[n].state = "present"
  BY <1>2, <1>3 DEF ClientShape, ClientCalls, Accepted
<1>5. Cardinality(good) \in Nat
  <2>1. DOMAIN call[r].rows = 1..Len(call[r].rows) /\ Len(call[r].rows) \in Nat
    BY <1>2 DEF ClientCalls
  <2>2. IsFiniteSet(DOMAIN call[r].rows)
    BY <2>1, FS_Interval
  <2>3. IsFiniteSet(good)
    BY <2>2, FS_Subset DEF Accepted
  <2> QED BY <2>3, FS_CardinalityType
<1>5a. Cardinality(good) = 0 => good = {}
  <2>1. DOMAIN call[r].rows = 1..Len(call[r].rows) /\ Len(call[r].rows) \in Nat
    BY <1>2 DEF ClientCalls
  <2>2. IsFiniteSet(DOMAIN call[r].rows)
    BY <2>1, FS_Interval
  <2>3. IsFiniteSet(good)
    BY <2>2, FS_Subset DEF Accepted
  <2> QED BY <2>3, FS_EmptySet
<1> HIDE DEF good
<1>6. x \in ClientCalls
  BY <1>2, <1>5 DEF ClientCalls
<1>7. /\ x.pc = "log" /\ x.op = call[r].op /\ x.rows = call[r].rows
      /\ x.result = call[r].result
      /\ x.errores = call[r].errores /\ x.bad = call[r].bad
      /\ x.imported = Cardinality(good)
  BY <1>2 DEF ClientCalls
<1> HIDE DEF x
<1>8. Accepted(x) = good
  BY <1>7 DEF Accepted, good
<1>9. ClientShape(x)
  <2>1. x.result = "none" /\ x.imported = Cardinality(Accepted(x))
    BY <1>1, <1>2, <1>7, <1>8 DEF ClientShape
  <2>2. Accepted(x) = Accepted(call[r])
    BY <1>7 DEF Accepted
  <2> QED BY <1>2, <1>3, <1>7, <2>1, <2>2 DEF ClientShape
<1>10. \A q \in Calls : call'[q] = IF q = r THEN x ELSE call[q]
  BY <1>1 DEF ClientsInv, ClientsTyped, SetCall
<1>11. \A i \in Ids : \/ client'[i] = client[i]
                      \/ \E n \in good : i = <<r, n>> /\ client'[i] = call[r].rows[n]
  BY <1>1
<1>12. ClientsTyped'
  <2>1. call' \in [Calls -> ClientCalls]
    BY <1>1, <1>6 DEF ClientsInv, ClientsTyped, SetCall
  <2>2. \A q \in Calls : ClientShape(call'[q])
    BY <1>9, <1>10 DEF ClientsInv, ClientsTyped
  <2>3. client' \in [Ids -> RowStates]
    <3>1. \A i \in Ids : client'[i] \in RowStates
      BY <1>4, <1>11 DEF ClientsInv, ClientsTyped
    <3>2. client' = [i \in Ids |-> client'[i]]
      BY <1>1
    <3> QED BY <3>1, <3>2
  <2> QED BY <2>1, <2>2, <2>3 DEF ClientsTyped, ClientShape, Accepted
<1>13. StoredWellFormed'
  BY <1>4, <1>11 DEF ClientsInv, StoredWellFormed
<1>14. Imported'
  <2> SUFFICES ASSUME NEW q \in Calls, NEW n \in 1..MaxRows
               PROVE  client'[<<q, n>>].state # "absent"
                        <=> Inserts(call'[q]) /\ n \in Accepted(call'[q])
    BY DEF Imported, Inserts, Accepted
  <2>1. client[<<q, n>>].state # "absent" <=> Inserts(call[q]) /\ n \in Accepted(call[q])
    BY DEF ClientsInv, Imported
  <2>2. <<q, n>> \in Ids
    BY DEF Ids
  <2>3. CASE q # r
    <3>1. call'[q] = call[q]
      BY <1>10, <2>3
    <3>2. client'[<<q, n>>] = client[<<q, n>>]
      BY <1>11, <2>2, <2>3
    <3> QED BY <2>1, <3>1, <3>2
  <2>4. CASE q = r
    <3>1. call'[q] = x /\ (n \in good => Inserts(x))
      BY <1>5a, <1>7, <1>10, <2>4 DEF Inserts
    <3>2. CASE n \in good
      <4>1. client'[<<q, n>>] = call[r].rows[n]
        BY <1>1, <2>2, <2>4, <3>2
      <4> QED BY <1>4, <1>8, <3>1, <3>2, <4>1
    <3>3. CASE n \notin good
      <4>1. client'[<<q, n>>] = client[<<q, n>>]
        BY <1>11, <2>2, <2>4, <3>3
      <4> QED BY <1>2, <1>8, <2>1, <2>4, <3>1, <3>3, <4>1
    <3> QED BY <3>2, <3>3
  <2> QED BY <2>3, <2>4
<1> QED BY <1>12, <1>13, <1>14 DEF ClientsInv

LEMMA WriteKeeps ==
  ASSUME ClientsInv, NEW r \in Calls, Write(r)
  PROVE  ClientsInv'
<1> DEFINE i == call[r].id
           new == call[r].rows[1]
           x == [call[r] EXCEPT !.pc = "log"]
<1>1. call[r] \in ClientCalls /\ ClientShape(call[r]) /\ call[r].pc = "write"
  BY DEF ClientsInv, ClientsTyped, Write, CallAt
<1>2. call[r].op = "update" /\ i \in Ids /\ Len(call[r].rows) = 1 /\ call[r].errores = {}
  BY <1>1 DEF ClientShape
<1>3. 1 \in Accepted(call[r])
  BY <1>1, <1>2 DEF Accepted, ClientCalls
<1>4. /\ new \in RowStates
      /\ WellFormed(new.doc, new.passport)
      /\ new.state = "present" \/ new = NoClient
  BY <1>1, <1>2, <1>3 DEF ClientShape, ClientCalls
<1>5. CASE ~Present(i)
  BY <1>1, <1>5, AnswerKeeps DEF Write
<1>6. CASE Present(i)
  <2>1. /\ client' = IF new = NoClient THEN client ELSE [client EXCEPT ![i] = new]
        /\ SetCall(r, x)
    BY <1>6 DEF Write, GoOn
  <2>2. x \in ClientCalls /\ ClientShape(x) /\ KeepsRows(x, call[r])
    BY <1>1, LogFields
  <2> HIDE DEF x, new, i
  <2>3. client \in [Ids -> RowStates] /\ client[i].state = "present"
    BY <1>6 DEF ClientsInv, ClientsTyped, Present
  <2>4. \A j \in Ids : WellFormed(client[j].doc, client[j].passport)
    BY DEF ClientsInv, StoredWellFormed
  <2>5. client' \in [Ids -> RowStates]
    BY <1>4, <2>1, <2>3
  <2>6. \A j \in Ids : \/ client'[j] = client[j]
                       \/ j = i /\ client'[j] = new /\ new.state = "present"
    BY <1>4, <2>1, <2>3
  <2>7. \A j \in Ids : /\ WellFormed(client'[j].doc, client'[j].passport)
                       /\ client'[j].state = "absent" <=> client[j].state = "absent"
    BY <1>4, <2>3, <2>4, <2>6
  <2> QED BY <2>1, <2>2, <2>5, <2>7, CallKeeps
<1> QED BY <1>5, <1>6

LEMMA DeleteKeeps ==
  ASSUME ClientsInv, NEW r \in Calls, Delete(r)
  PROVE  ClientsInv'
<1> DEFINE i == call[r].id
           x == [call[r] EXCEPT !.pc = "log"]
<1>1. call[r] \in ClientCalls /\ ClientShape(call[r]) /\ call[r].pc = "delete"
  BY DEF ClientsInv, ClientsTyped, Delete, CallAt
<1>2. call[r].op = "remove" /\ i \in Ids
  BY <1>1 DEF ClientShape
<1>3. CASE ~Present(i)
  BY <1>1, <1>3, AnswerKeeps DEF Delete
<1>4. CASE Present(i)
  <2>1. client' = [client EXCEPT ![i].state = "deleted"] /\ SetCall(r, x)
    BY <1>4 DEF Delete, GoOn
  <2>2. x \in ClientCalls /\ ClientShape(x) /\ KeepsRows(x, call[r])
    BY <1>1, LogFields
  <2> HIDE DEF x, i
  <2>3. client \in [Ids -> RowStates] /\ client[i].state = "present"
    BY <1>4 DEF ClientsInv, ClientsTyped, Present
  <2>4. \A j \in Ids : WellFormed(client[j].doc, client[j].passport)
    BY DEF ClientsInv, StoredWellFormed
  <2>5. client' \in [Ids -> RowStates]
    BY <1>2, <2>1, <2>3 DEF RowStates
  <2>6. \A j \in Ids : /\ client'[j].doc = client[j].doc
                       /\ client'[j].passport = client[j].passport
                       /\ client'[j].state = IF j = i THEN "deleted" ELSE client[j].state
    BY <2>1, <2>3 DEF RowStates
  <2>7. \A j \in Ids : /\ WellFormed(client'[j].doc, client'[j].passport)
                       /\ client'[j].state = "absent" <=> client[j].state = "absent"
    BY <2>3, <2>4, <2>6
  <2> QED BY <2>1, <2>2, <2>5, <2>7, CallKeeps
<1> QED BY <1>3, <1>4

LEMMA LoggedKeeps ==
  ASSUME ClientsInv, NEW r \in Calls, Logged(r)
  PROVE  ClientsInv'
BY AnswerKeeps DEF Logged, CallAt

LEMMA FailKeeps ==
  ASSUME ClientsInv, NEW r \in Calls, FailCall(r)
  PROVE  ClientsInv'
BY AnswerKeeps DEF FailCall, CallAt

----------------------------------------------------------------------------
LEMMA ClientsStep == ClientsInv /\ [ClientsNext]_clientVars => ClientsInv'
<1> SUFFICES ASSUME ClientsInv, [ClientsNext]_clientVars PROVE ClientsInv'
  OBVIOUS
<1>1. ASSUME NEW r \in Calls, NEW d \in Dtos, Create(r, d) PROVE ClientsInv'
  BY <1>1, CreateKeeps
<1>2. ASSUME NEW r \in Calls, NEW d \in PartialDtos, NEW i \in Ids, NEW rest \in BOOLEAN,
             Update(r, i, d, rest)
      PROVE  ClientsInv'
  BY <1>2, UpdateKeeps
<1>3. ASSUME NEW r \in Calls, NEW n \in 1..MaxRows, NEW ds \in [1..n -> Dtos], Bulk(r, ds)
      PROVE  ClientsInv'
  BY <1>3, BulkKeeps
<1>4. ASSUME NEW r \in Calls, NEW i \in Ids, Remove(r, i) PROVE ClientsInv'
  BY <1>4, RemoveKeeps
<1>5. ASSUME NEW r \in Calls, Insert(r) PROVE ClientsInv'
  BY <1>5, InsertKeeps
<1>6. ASSUME NEW r \in Calls, Write(r) PROVE ClientsInv'
  BY <1>6, WriteKeeps
<1>7. ASSUME NEW r \in Calls, Delete(r) PROVE ClientsInv'
  BY <1>7, DeleteKeeps
<1>8. ASSUME NEW r \in Calls, FailCall(r) PROVE ClientsInv'
  BY <1>8, FailKeeps
<1>10. ASSUME NEW r \in Calls, Logged(r) PROVE ClientsInv'
  BY <1>10, LoggedKeeps
<1>9. CASE UNCHANGED clientVars
  <2>1. client' = client /\ call' = call
    BY <1>9 DEF clientVars
  <2>2. ClientsTyped'
    BY <2>1 DEF ClientsInv, ClientsTyped, ClientShape, Accepted
  <2>3. StoredWellFormed' /\ Imported'
    BY <2>1 DEF ClientsInv, StoredWellFormed, Imported, Inserts, Accepted
  <2> QED BY <2>2, <2>3 DEF ClientsInv
<1> QED BY <1>1, <1>2, <1>3, <1>4, <1>5, <1>6, <1>7, <1>8, <1>9, <1>10
        DEF ClientsNext, ClientsRest

LEMMA ClientsStart == ClientsInit => ClientsInv
<1> SUFFICES ASSUME ClientsInit PROVE ClientsInv
  OBVIOUS
<1>1. NewCall \in ClientCalls /\ ClientShape(NewCall) /\ ~Inserts(NewCall)
  <2>1. << >> \in Seq(RowStates) /\ Len(<< >>) = 0 /\ DOMAIN << >> = {}
    OBVIOUS
  <2>2. Accepted(NewCall) = {}
    BY <2>1 DEF Accepted, NewCall
  <2>3. NewCall \in ClientCalls
    BY <2>1 DEF NewCall, ClientCalls
  <2>4. /\ NewCall.pc = "new" /\ NewCall.op = "none" /\ NewCall.result = "none"
        /\ NewCall.errores = {} /\ NewCall.rows = << >> /\ NewCall.imported = 0
    BY DEF NewCall
  <2>5. ClientShape(NewCall) /\ ~Inserts(NewCall)
    BY <2>1, <2>2, <2>4, ClientBounds DEF ClientShape, Inserts
  <2> QED BY <2>3, <2>5
<1>2. \A r \in Calls : call[r] = NewCall
  BY DEF ClientsInit
<1>3. \A i \in Ids : /\ client[i] \in RowStates
                     /\ client[i].doc = NULL /\ client[i].passport = FALSE
                     /\ i # Seed => client[i].state = "absent"
  BY DEF ClientsInit, NoClient, RowStates
<1>4. ClientsTyped
  <2>1. client \in [Ids -> RowStates]
    BY <1>3 DEF ClientsInit
  <2>2. call \in [Calls -> ClientCalls]
    BY <1>1 DEF ClientsInit
  <2> QED BY <1>1, <1>2, <2>1, <2>2 DEF ClientsTyped
<1>5. StoredWellFormed
  BY <1>3 DEF StoredWellFormed, WellFormed
<1>6. Imported
  BY <1>1, <1>2, <1>3, SentinelsDiffer DEF Imported, Ids
<1> QED BY <1>4, <1>5, <1>6 DEF ClientsInv

LEMMA ClientsAlways == ClientsSpec => []ClientsInv
BY ClientsStart, ClientsStep, PTL DEF ClientsSpec

(***************************************************************************)
(* For all documents, and whatever creations, imports and updates,         *)
(* complete, partial or failed, came before: no client has a document that *)
(* the law does not have for what it was given as                          *)
(* (identification.helper.ts:75-131, clients.service.ts:59-61, 98-100).    *)
(***************************************************************************)
THEOREM StoredCorrect == ClientsSpec => []StoredWellFormed
<1>1. ClientsInv => StoredWellFormed
  BY DEF ClientsInv
<1> QED BY <1>1, ClientsAlways, PTL

(***************************************************************************)
(* For imports of any number of rows: the answer names exactly the rows    *)
(* that the law refuses, the number of rows it says were imported and the  *)
(* number of errors add up, and the table has exactly the rows that were   *)
(* not refused; without an answer it has those, if the process died after  *)
(* it had stored them, or none of them (clients.service.ts:134-200).       *)
(***************************************************************************)
THEOREM ImportCorrect == ClientsSpec => []ImportAccounted
<1> QED BY ImportsAccounted, ClientsAlways, PTL
=============================================================================
