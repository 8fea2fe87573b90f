------------------------------ MODULE UafeForm ------------------------------
(***************************************************************************)
(* One UAFE form and its comprobantes, the receipt images attached to it:  *)
(* UafeFormsService over two stores that share no transaction, the         *)
(* database and the S3 bucket.  Each awaited call is a step; a request     *)
(* works on the form as getOwnedForm read it at its start.                 *)
(*                                                                         *)
(* An S3 key is made up by the request that uploads the file, so it is     *)
(* named by that request and the position of the file in it.  A row of     *)
(* uafe_comprobantes holds one key, and is named by it.  The content of    *)
(* the form is left out: nothing here depends on it.                       *)
(***************************************************************************)
EXTENDS Naturals, FiniteSets

CONSTANTS
  Requests,         \* HTTP requests; each is served at most once
  MaxComprobantes,  \* MAX_COMPROBANTES of the service
  MaxFiles,         \* COMPROBANTE_MAX_COUNT of the controller, per request
  MaxFailures       \* bound: how many requests may fail in flight

ASSUME UafeBounds ==
  MaxComprobantes \in Nat /\ MaxFiles \in Nat \ {0} /\ MaxFailures \in Nat

VARIABLES
  form,       \* the form row: absent, stored or deleted
  rows,       \* the rows of uafe_comprobantes that belong to the form
  objects,    \* the objects in the bucket
  leftovers,  \* history: objects that should have been deleted, but S3 or the
              \* request failed
  req         \* the requests: program counter and local variables

uafeVars == <<form, rows, objects, leftovers, req>>

Keys == Requests \X (1..MaxFiles)

(***************************************************************************)
(* files and sent count the uploads of a request, keys are the objects it  *)
(* is going to delete.  beside is history: the other requests that were    *)
(* adding comprobantes when this one read the form.                        *)
(***************************************************************************)
RequestState ==
  [ pc: { "new", "done", "upload", "insert", "touch", "find", "deleteRow",
          "deleteForm", "deleteObjects" },
    result: { "none", "served", "refused", "failed" },
    files: 0..MaxFiles, sent: 0..MaxFiles,
    keys: SUBSET Keys, beside: SUBSET Requests ]

NewRequest ==
  [ pc |-> "new", result |-> "none", files |-> 0, sent |-> 0,
    keys |-> {}, beside |-> {} ]

TypeOK ==
  /\ form \in { "absent", "stored", "deleted" }
  /\ rows \subseteq Keys
  /\ objects \subseteq Keys
  /\ leftovers \subseteq Keys
  /\ req \in [Requests -> RequestState]

Init ==
  /\ form = "absent"
  /\ rows = {} /\ objects = {} /\ leftovers = {}
  /\ req = [r \in Requests |-> NewRequest]

----------------------------------------------------------------------------
At(r, pc) == req[r].pc = pc

\* The program counter and the local variables of r become x.
Become(r, x) == req' = [req EXCEPT ![r] = x]

Continue(r, pc) == Become(r, [req[r] EXCEPT !.pc = pc])

\* The response: "failed" is an exception that no check of the handler threw.
Answer(r, result) ==
  Become(r, [req[r] EXCEPT !.pc = "done", !.result = result, !.keys = {}])

\* 404 without a row, 403 for a caller who may not see the form, which is any
\* other than its author and the supervisors, 400 for too many files.
Denied(r) ==
  /\ At(r, "new")
  /\ Answer(r, "refused")
  /\ UNCHANGED <<form, rows, objects, leftovers>>

CreateForm(r) ==
  /\ At(r, "new") /\ form = "absent"
  /\ form' = "stored"
  /\ Answer(r, "served")
  /\ UNCHANGED <<rows, objects, leftovers>>

\* update writes the content, on a row that may be gone by then.
UpdateForm(r) ==
  /\ At(r, "new") /\ form = "stored"
  /\ Continue(r, "touch")
  /\ UNCHANGED <<form, rows, objects, leftovers>>

----------------------------------------------------------------------------
(***************************************************************************)
(* addComprobantes: file by file, an upload and the insert of its row.     *)
(***************************************************************************)
Adding(r) == req[r].pc \in { "upload", "insert" }

NextKey(r) == <<r, req[r].sent + 1>>

\* Mutant: only the files of this request are counted.
AddReadOwnFiles(r) ==
  /\ At(r, "new") /\ form = "stored"
  /\ \E n \in 1..MaxFiles :
       /\ n <= MaxComprobantes
       /\ Become(r, [req[r] EXCEPT !.pc = "upload", !.files = n,
                                   !.beside = {s \in Requests : Adding(s)}])
  /\ UNCHANGED <<form, rows, objects, leftovers>>

\* The limit is compared with the rows there are now; more are Denied.
AddRead(r) ==
  /\ At(r, "new") /\ form = "stored"
  /\ \E n \in 1..MaxFiles :
       /\ Cardinality(rows) + n <= MaxComprobantes
       /\ Become(r, [req[r] EXCEPT !.pc = "upload", !.files = n,
                                   !.beside = {s \in Requests : Adding(s)}])
  /\ UNCHANGED <<form, rows, objects, leftovers>>

AddUpload(r) ==
  /\ At(r, "upload")
  /\ objects' = objects \cup {NextKey(r)}
  /\ Continue(r, "insert")
  /\ UNCHANGED <<form, rows, leftovers>>

\* The foreign key refuses the row of a form that is gone.
AddInsert(r) ==
  /\ At(r, "insert")
  /\ \/ /\ form = "stored"
        /\ rows' = rows \cup {NextKey(r)}
        /\ Become(r, [req[r] EXCEPT !.sent = @ + 1,
                        !.pc = IF req[r].sent + 1 = req[r].files THEN "touch" ELSE "upload"])
     \/ /\ form # "stored"
        /\ Answer(r, "failed")
        /\ UNCHANGED rows
  /\ UNCHANGED <<form, objects, leftovers>>

\* The last write of update and of addComprobantes, by the form's id.
Touch(r) ==
  /\ At(r, "touch")
  /\ Answer(r, IF form = "stored" THEN "served" ELSE "failed")
  /\ UNCHANGED <<form, rows, objects, leftovers>>

----------------------------------------------------------------------------
(***************************************************************************)
(* removeComprobante: the form, the row, the delete of the row, the        *)
(* delete of the object.                                                   *)
(***************************************************************************)
RemoveRead(r) ==
  /\ At(r, "new") /\ form = "stored"
  /\ \E k \in Keys : Become(r, [req[r] EXCEPT !.pc = "find", !.keys = {k}])
  /\ UNCHANGED <<form, rows, objects, leftovers>>

RemoveFind(r) ==
  /\ At(r, "find")
  /\ \/ req[r].keys \subseteq rows /\ Continue(r, "deleteRow")
     \/ ~(req[r].keys \subseteq rows) /\ Answer(r, "refused")
  /\ UNCHANGED <<form, rows, objects, leftovers>>

\* Mutant: the object goes first.
RemoveDeleteObjectFirst(r) ==
  /\ At(r, "deleteRow")
  /\ objects' = objects \ req[r].keys
  /\ Continue(r, "deleteObjects")
  /\ UNCHANGED <<form, rows, leftovers>>

\* Mutant: the object is forgotten.
RemoveDeleteRowOnly(r) ==
  /\ At(r, "deleteRow")
  /\ rows' = rows \ req[r].keys
  /\ Answer(r, "served")
  /\ UNCHANGED <<form, objects, leftovers>>

\* The row may have been deleted in between: then the delete throws.
RemoveDeleteRow(r) ==
  /\ At(r, "deleteRow")
  /\ \/ /\ req[r].keys \subseteq rows
        /\ rows' = rows \ req[r].keys
        /\ Continue(r, "deleteObjects")
     \/ /\ ~(req[r].keys \subseteq rows)
        /\ Answer(r, "failed")
        /\ UNCHANGED rows
  /\ UNCHANGED <<form, objects, leftovers>>

\* deleteFile swallows its errors; one object after the other, in any order.
DeleteObject(r) ==
  /\ At(r, "deleteObjects")
  /\ \E k \in req[r].keys :
       /\ \/ objects' = objects \ {k} /\ UNCHANGED leftovers
          \/ leftovers' = leftovers \cup {k} /\ UNCHANGED objects
       /\ Become(r, [req[r] EXCEPT !.keys = @ \ {k}])
  /\ UNCHANGED <<form, rows>>

DeleteDone(r) ==
  /\ At(r, "deleteObjects") /\ req[r].keys = {}
  /\ Answer(r, "served")
  /\ UNCHANGED <<form, rows, objects, leftovers>>

(***************************************************************************)
(* remove: the keys to delete are those read with the form, the rows go    *)
(* with the form by cascade.                                               *)
(***************************************************************************)
RemoveFormRead(r) ==
  /\ At(r, "new") /\ form = "stored"
  /\ Become(r, [req[r] EXCEPT !.pc = "deleteForm", !.keys = rows])
  /\ UNCHANGED <<form, rows, objects, leftovers>>

RemoveFormDelete(r) ==
  /\ At(r, "deleteForm")
  /\ \/ /\ form = "stored"
        /\ form' = "deleted" /\ rows' = {}
        /\ Continue(r, "deleteObjects")
     \/ /\ form # "stored"
        /\ Answer(r, "failed")
        /\ UNCHANGED <<form, rows>>
  /\ UNCHANGED <<objects, leftovers>>

----------------------------------------------------------------------------
\* A query or an upload fails, or the process stops.  The bucket may have
\* stored the object of an upload that timed out.
Fail(r) ==
  /\ req[r].pc \notin { "new", "done" }
  /\ Cardinality({s \in Requests : req[s].result = "failed"}) < MaxFailures
  /\ leftovers' = IF At(r, "deleteObjects") THEN leftovers \cup req[r].keys
                                            ELSE leftovers
  /\ \/ UNCHANGED objects
     \/ At(r, "upload") /\ objects' = objects \cup {NextKey(r)}
  /\ Answer(r, "failed")
  /\ UNCHANGED <<form, rows>>

Terminated == (\A r \in Requests : At(r, "done")) /\ UNCHANGED uafeVars

RequestStep(r) ==
  \/ Denied(r) \/ CreateForm(r) \/ UpdateForm(r)
  \/ AddRead(r) \/ AddUpload(r) \/ AddInsert(r) \/ Touch(r)
  \/ RemoveRead(r) \/ RemoveFind(r) \/ RemoveDeleteRow(r)
  \/ DeleteObject(r) \/ DeleteDone(r)
  \/ RemoveFormRead(r) \/ RemoveFormDelete(r)
  \/ Fail(r)

Next == (\E r \in Requests : RequestStep(r)) \/ Terminated

Spec == Init /\ [][Next]_uafeVars

----------------------------------------------------------------------------
(***************************************************************************)
(* A comprobante that the form lists can be shown: whatever requests       *)
(* overlap or fail, no row names an object that is gone                    *)
(* (uafe-forms.service.ts:234-237, 268-275, 308-309).                      *)
(***************************************************************************)
RowsHaveObjects == rows \subseteq objects

(***************************************************************************)
(* Nothing is left in the bucket silently while the form exists: an object *)
(* without a row is the last upload of a request that is about to insert   *)
(* its row or failed before it could, or is about to be deleted, or its    *)
(* deletion failed (uafe-forms.service.ts:268-275, 308-309).               *)
(***************************************************************************)
OrphansAccounted ==
  form = "stored" =>
    \A k \in objects \ rows :
      \/ k = NextKey(k[1]) /\ (At(k[1], "insert") \/ req[k[1]].result = "failed")
      \/ \E r \in Requests : At(r, "deleteObjects") /\ k \in req[r].keys
      \/ k \in leftovers

(***************************************************************************)
(* The limit of comprobantes holds as long as no request read the form     *)
(* while another one was adding to it (uafe-forms.service.ts:260-264).     *)
(***************************************************************************)
CapWithoutOverlap ==
  (\A r \in Requests : req[r].beside = {}) => Cardinality(rows) <= MaxComprobantes

(***************************************************************************)
(* A form never has more than MAX_COMPROBANTES comprobantes                *)
(* (uafe-forms.service.ts:262).                                            *)
(***************************************************************************)
CapHolds == Cardinality(rows) <= MaxComprobantes
=============================================================================
