-------------------------------- MODULE News --------------------------------
(***************************************************************************)
(* The news: a row, its image in the bucket, and the events that tell the  *)
(* connected clients of a new or a removed one (NewsController,            *)
(* NewsService, S3Service.uploadImage and deleteFile).                     *)
(*                                                                         *)
(* A query or a call to S3 is a step.  An image is named by the request    *)
(* that uploads it, or by the seed that has it.  An update tells nobody.   *)
(***************************************************************************)
EXTENDS Naturals, FiniteSets

CONSTANTS
  Seeds,     \* the news of the first state
  Requests,  \* requests; each also names the news it creates and the image it uploads
  NULL,
  MaxFaults  \* bound: failed calls and crashes

NewsIds == Seeds \cup Requests

ASSUME NullIsNoNews == NULL \notin NewsIds
ASSUME SeedsAreNoRequests == Seeds \cap Requests = {}
ASSUME FaultBound == MaxFaults \in Nat

VARIABLES
  row,     \* table news
  bucket,  \* the images in S3
  shown,   \* the news on the screen of a client that is connected all the time
  req,     \* the requests
  kept,    \* history: images that deleteFile failed to delete
  faults   \* history: how many faults there were

newsVars == <<row, bucket, shown, req, kept, faults>>

NoRow == [ state |-> "absent", image |-> NULL ]

(***************************************************************************)
(* A news is absent, present or deleted; its image is one of the bucket's  *)
(* or NULL.  old is the image a request read with the row, file whether it *)
(* brings one.  History: with are the requests that had read the row       *)
(* before this one wrote it; early says that a removal read its news       *)
(* before the creation had announced it.                                   *)
(***************************************************************************)
NewRequest ==
  [ pc |-> "new", op |-> "none", result |-> "none", id |-> NULL, old |-> NULL,
    file |-> FALSE, with |-> {}, early |-> FALSE ]

Init ==
  /\ bucket \in SUBSET Seeds
  /\ row = [n \in NewsIds |->
              IF n \notin Seeds THEN NoRow
              ELSE [ state |-> "present", image |-> IF n \in bucket THEN n ELSE NULL ]]
  /\ shown = Seeds
  /\ req = [r \in Requests |-> NewRequest]
  /\ kept = {}
  /\ faults = 0

----------------------------------------------------------------------------
At(r, pc) == req[r].pc = pc

InFlight(r) == ~At(r, "new") /\ ~At(r, "done")

Become(r, x) == req' = [req EXCEPT ![r] = x]

Go(r, pc) == Become(r, [req[r] EXCEPT !.pc = pc])

Answer(r, result) == Become(r, [req[r] EXCEPT !.pc = "done", !.result = result])

Present(n) == row[n].state = "present"

Readers(r) == {s \in Requests \ {r} : InFlight(s) /\ req[s].id = req[r].id}

Fault == faults < MaxFaults /\ faults' = faults + 1

----------------------------------------------------------------------------
\* A file of another type, too large, or whose first bytes say otherwise.
Refuse(r) ==
  /\ At(r, "new")
  /\ Answer(r, "rejected")
  /\ UNCHANGED <<row, bucket, shown, kept, faults>>

Create(r, file) ==
  /\ At(r, "new")
  /\ Become(r, [req[r] EXCEPT !.op = "create", !.id = r, !.file = file,
                  !.pc = IF file THEN "put" ELSE "insert"])
  /\ UNCHANGED <<row, bucket, shown, kept, faults>>

Update(r, n, file) ==
  /\ At(r, "new")
  /\ IF Present(n)
     THEN Become(r, [req[r] EXCEPT !.op = "update", !.id = n, !.file = file,
                       !.old = row[n].image, !.pc = IF file THEN "put" ELSE "write"])
     ELSE Answer(r, "notFound")
  /\ UNCHANGED <<row, bucket, shown, kept, faults>>

Remove(r, n) ==
  /\ At(r, "new")
  /\ IF Present(n)
     THEN Become(r, [req[r] EXCEPT !.op = "remove", !.id = n, !.old = row[n].image,
                       !.early = \E s \in Requests : s = n /\ InFlight(s),
                       !.pc = IF row[n].image = NULL THEN "delete" ELSE "drop"])
     ELSE Answer(r, "notFound")
  /\ UNCHANGED <<row, bucket, shown, kept, faults>>

\* Mutant: an update forgets the image it replaces.
AfterPutForget(r) == IF req[r].op = "create" THEN "insert" ELSE "write"

AfterPut(r) ==
  CASE req[r].op = "create" -> "insert"
    [] req[r].op = "update" /\ req[r].old # NULL -> "drop"
    [] req[r].op = "update" /\ req[r].old = NULL -> "write"

\* uploadImage: a call that fails may have stored the object.
Put(r) ==
  /\ At(r, "put")
  /\ \/ bucket' = bucket \cup {r} /\ Go(r, AfterPut(r)) /\ UNCHANGED faults
     \/ bucket' \in { bucket, bucket \cup {r} } /\ Answer(r, "failed") /\ Fault
  /\ UNCHANGED <<row, shown, kept>>

\* deleteFile of the image that was read with the row swallows its failures.
Drop(r) ==
  /\ At(r, "drop")
  /\ Go(r, IF req[r].op = "update" THEN "write" ELSE "delete")
  /\ \/ bucket' = bucket \ {req[r].old} /\ UNCHANGED <<kept, faults>>
     \/ kept' = kept \cup {req[r].old} /\ UNCHANGED bucket /\ Fault
  /\ UNCHANGED <<row, shown>>

Insert(r) ==
  /\ At(r, "insert")
  /\ row' = [row EXCEPT ![r] =
               [ state |-> "present", image |-> IF req[r].file THEN r ELSE NULL ]]
  /\ Go(r, "publish")
  /\ UNCHANGED <<bucket, shown, kept, faults>>

\* news.update by id; Prisma's P2025 when the row is gone.
Write(r) ==
  /\ At(r, "write")
  /\ IF Present(req[r].id)
     THEN /\ row' = [row EXCEPT ![req[r].id].image = IF req[r].file THEN r ELSE @]
          /\ Become(r, [req[r] EXCEPT !.pc = "done", !.result = "ok", !.with = Readers(r)])
     ELSE Answer(r, "notFound") /\ UNCHANGED row
  /\ UNCHANGED <<bucket, shown, kept, faults>>

DeleteRow(r) ==
  /\ At(r, "delete")
  /\ IF Present(req[r].id)
     THEN /\ row' = [row EXCEPT ![req[r].id] = [ state |-> "deleted", image |-> NULL ]]
          /\ Go(r, "retract")
     ELSE Answer(r, "notFound") /\ UNCHANGED row
  /\ UNCHANGED <<bucket, shown, kept, faults>>

\* emitToAll, when the answer of the database has come.
Publish(r) ==
  /\ At(r, "publish")
  /\ shown' = shown \cup {r}
  /\ Answer(r, "ok")
  /\ UNCHANGED <<row, bucket, kept, faults>>

\* Mutant: the removal is announced to nobody.
RetractNothing(r) ==
  /\ At(r, "retract")
  /\ Answer(r, "ok")
  /\ UNCHANGED <<row, bucket, shown, kept, faults>>

Retract(r) ==
  /\ At(r, "retract")
  /\ shown' = shown \ {req[r].id}
  /\ Answer(r, "ok")
  /\ UNCHANGED <<row, bucket, kept, faults>>

\* A query fails or the process dies.
Fail(r) ==
  /\ InFlight(r)
  /\ Answer(r, "failed")
  /\ Fault
  /\ UNCHANGED <<row, bucket, shown, kept>>

Terminated ==
  /\ \A r \in Requests : At(r, "done")
  /\ UNCHANGED newsVars

Next ==
  \/ \E r \in Requests :
       \/ \E file \in BOOLEAN : Create(r, file)
       \/ \E n \in NewsIds : Remove(r, n) \/ \E file \in BOOLEAN : Update(r, n, file)
       \/ Refuse(r) \/ Put(r) \/ Drop(r) \/ Insert(r) \/ Write(r) \/ DeleteRow(r)
       \/ Publish(r) \/ Retract(r) \/ Fail(r)
  \/ Terminated

Spec == Init /\ [][Next]_newsVars

----------------------------------------------------------------------------
Done(r, results) == At(r, "done") /\ req[r].result \in results

(***************************************************************************)
(* Rows and bucket agree.  The image of a news is in the bucket, or a      *)
(* request that read it has deleted it and is still to write the row, or   *)
(* failed before it could: the old image goes first.  An image that no     *)
(* news has belongs to a request under way, to one that failed or found    *)
(* the news removed, S3 refused to delete it, or its request wrote a row   *)
(* that another one had read and was to write (news.service.ts:100-126,    *)
(* 132-151; s3.service.ts:138-148).                                        *)
(***************************************************************************)
ImageShown ==
  \A n \in NewsIds : Present(n) /\ row[n].image \notin bucket \cup {NULL} =>
    \E r \in Requests :
      /\ req[r].id = n /\ req[r].old = row[n].image
      /\ At(r, "write") \/ At(r, "delete") \/ Done(r, {"failed"})

OrphansAccounted ==
  \A i \in bucket \ { row[n].image : n \in {m \in NewsIds : Present(m)} } :
    \/ i \in kept
    \/ i \in Requests /\ (InFlight(i) \/ Done(i, {"failed", "notFound"}) \/ req[i].with # {})

ImagesAccounted == ImageShown /\ OrphansAccounted

(***************************************************************************)
(* What a connected client shows is what there is.  A removed news stays   *)
(* on the screen only while its removal has not told, when it failed, or   *)
(* when the removal overtook the announcement of the creation; one that    *)
(* exists is missing only while its creation has not told, or failed       *)
(* (news.service.ts:85-91, 151-156).                                       *)
(***************************************************************************)
ScreenFollows ==
  \A n \in NewsIds :
    /\ n \in shown /\ ~Present(n) =>
         \E r \in Requests :
           /\ req[r].op = "remove" /\ req[r].id = n
           /\ InFlight(r) \/ Done(r, {"failed"}) \/ req[r].early
    /\ Present(n) /\ n \notin shown =>
         n \in Requests /\ (At(n, "publish") \/ Done(n, {"failed"}))
=============================================================================
