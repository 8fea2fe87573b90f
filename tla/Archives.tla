------------------------------ MODULE Archives ------------------------------
(***************************************************************************)
(* The notarial archives: their codes, unique among the undeleted, their   *)
(* participants, which an update replaces in a transaction, and the PDF in *)
(* the bucket (ArchivesController, ArchivesService, S3Service.uploadPdf).  *)
(*                                                                         *)
(* A query or a call to S3 is a step.  The transaction of an update runs   *)
(* at PostgreSQL's default level, READ COMMITTED: a statement sees the     *)
(* rows that were committed when it began, and waits for the rows another  *)
(* open transaction has deleted.  What a transaction wrote is kept with    *)
(* its request until it commits.  Handlers that only read are left out.    *)
(***************************************************************************)
EXTENDS Naturals, FiniteSets

CONSTANTS
  Seeds,     \* the archives of the first state
  Requests,  \* requests; each also names the archive it creates, the PDF it stores
  Codes,
  NULL,
  MaxFaults  \* bound: failed queries, failed uploads and crashes

Archives == Seeds \cup Requests

ASSUME NullIsNoValue == NULL \notin Archives \cup Codes
ASSUME SeedsAreNoRequests == Seeds \cap Requests = {}
ASSUME FaultBound == MaxFaults \in Nat

Kinds == { "grantor", "beneficiary" }

VARIABLES
  row,     \* table archives
  party,   \* tables grantors and beneficiaries, as committed
  bucket,  \* the PDFs in S3
  req,     \* the requests: program counter, local variables, transaction
  caught,  \* history: the requests under way when an archive was removed
  faults   \* history: how many faults there were

archiveVars == <<row, party, bucket, req, caught, faults>>

Row == [ state: {"absent", "active", "deleted"},
         code: Codes \cup {NULL}, pdf: Requests \cup {NULL} ]

NoRow == [ state |-> "absent", code |-> NULL, pdf |-> NULL ]

\* by is history: the request that inserted the row, NULL in the first state.
Party == [ archive: Archives, kind: Kinds, by: Requests \cup {NULL} ]

(***************************************************************************)
(* kinds are the lists of the dto still to be replaced, seen the snapshot  *)
(* of the statement that waits, gone and added what the open transaction   *)
(* deleted and inserted.  with is history: the transactions that were open *)
(* on the archive when this one took a snapshot.                           *)
(***************************************************************************)
RequestState ==
  [ pc: { "new", "insert", "checkCode", "snapshot", "replace", "commit",
          "delete", "put", "images", "render", "find", "link", "done" },
    result: { "none", "ok", "rejected", "notFound", "failed" },
    id: Archives \cup {NULL}, code: Codes \cup {NULL}, kinds: SUBSET Kinds,
    seen: SUBSET Party, gone: SUBSET Party, added: SUBSET Party,
    with: SUBSET Requests ]

NewRequest ==
  [ pc |-> "new", result |-> "none", id |-> NULL, code |-> NULL, kinds |-> {},
    seen |-> {}, gone |-> {}, added |-> {}, with |-> {} ]

TypeOK ==
  /\ row \in [Archives -> Row]
  /\ party \subseteq Party
  /\ bucket \subseteq Requests
  /\ req \in [Requests -> RequestState]
  /\ caught \in [Archives -> SUBSET Requests]
  /\ faults \in Nat

\* The seeds are stored, with different codes and with participants.
Init ==
  /\ \E code \in [Seeds -> Codes] :
       /\ \A a, b \in Seeds : code[a] = code[b] => a = b
       /\ row = [a \in Archives |->
                   IF a \in Seeds THEN [ state |-> "active", code |-> code[a], pdf |-> NULL ]
                                 ELSE NoRow]
  /\ party = [ archive: Seeds, kind: Kinds, by: {NULL} ]
  /\ bucket = {}
  /\ req = [r \in Requests |-> NewRequest]
  /\ caught = [a \in Archives |-> {}]
  /\ faults = 0

----------------------------------------------------------------------------
At(r, pc) == req[r].pc = pc

InFlight(r) == ~At(r, "new") /\ ~At(r, "done")

Become(r, x) == req' = [req EXCEPT ![r] = x]

Active(a) == row[a].state = "active"

\* An answer ends the transaction, if there is one, and the use of the dto.
Answered(r, result) ==
  [req[r] EXCEPT !.pc = "done", !.result = result, !.code = NULL, !.kinds = {},
                 !.seen = {}, !.gone = {}, !.added = {}]

Answer(r, result) == Become(r, Answered(r, result))

\* The request has an archive a before it and goes on at pc.
Proceed(r, a, pc) == Become(r, [req[r] EXCEPT !.pc = pc, !.id = a])

\* The partial unique index archives_code_unique_active lets a have code c.
CodeFree(c, a) == \A b \in Archives : Active(b) /\ row[b].code = c => b = a

Fault == faults < MaxFaults /\ faults' = faults + 1

----------------------------------------------------------------------------
\* validateParticipants may find a document not valid, if there is one.
ParticipantsRefused(r, kinds) == kinds # {} /\ Answer(r, "rejected")

(***************************************************************************)
(* create: the code is looked up, the participants are validated, and the  *)
(* archive is inserted with them in one statement of Prisma.               *)
(***************************************************************************)
CreateLookup(r, c, kinds) ==
  /\ At(r, "new")
  /\ \/ (\E a \in Archives : Active(a) /\ row[a].code = c) /\ Answer(r, "rejected")
     \/ /\ ~ \E a \in Archives : Active(a) /\ row[a].code = c
        /\ \/ Become(r, [req[r] EXCEPT !.pc = "insert", !.code = c, !.kinds = kinds])
           \/ ParticipantsRefused(r, kinds)
  /\ UNCHANGED <<row, party, bucket, caught, faults>>

\* Mutant: the look-up alone is trusted.
CreateUnchecked(r) ==
  /\ At(r, "insert")
  /\ row' = [row EXCEPT ![r] = [ state |-> "active", code |-> req[r].code, pdf |-> NULL ]]
  /\ party' = party \cup { [ archive |-> r, kind |-> k, by |-> r ] : k \in req[r].kinds }
  /\ Answer(r, "ok")
  /\ UNCHANGED <<bucket, caught, faults>>

CreateInsert(r) ==
  /\ At(r, "insert")
  /\ \/ /\ CodeFree(req[r].code, r)
        /\ row' = [row EXCEPT ![r] = [ state |-> "active", code |-> req[r].code, pdf |-> NULL ]]
        /\ party' = party \cup { [ archive |-> r, kind |-> k, by |-> r ] : k \in req[r].kinds }
        /\ Answer(r, "ok")
     \/ /\ ~CodeFree(req[r].code, r)
        /\ Answer(r, "rejected") /\ UNCHANGED <<row, party>>
  /\ UNCHANGED <<bucket, caught, faults>>

----------------------------------------------------------------------------
(***************************************************************************)
(* update: the archive is looked up, then its code if the dto changes it,  *)
(* then come the transaction's statements, one list after the other and    *)
(* the archive last.  c is NULL when the dto has no code.                  *)
(***************************************************************************)
TxStart(kinds) == IF kinds = {} THEN "commit" ELSE "snapshot"

\* Mutant: the look-up does not ask for deletedAt: null.
UpdateReadAny(r, a, c, kinds) ==
  /\ At(r, "new")
  /\ \/ row[a].state = "absent" /\ Answer(r, "notFound")
     \/ /\ row[a].state # "absent"
        /\ \/ Become(r, [req[r] EXCEPT !.id = a, !.code = c, !.kinds = kinds, !.pc =
                           IF c \in {NULL, row[a].code} THEN TxStart(kinds) ELSE "checkCode"])
           \/ ParticipantsRefused(r, kinds)
  /\ UNCHANGED <<row, party, bucket, caught, faults>>

UpdateRead(r, a, c, kinds) ==
  /\ At(r, "new")
  /\ \/ ~Active(a) /\ Answer(r, "notFound")
     \/ /\ Active(a)
        /\ \/ Become(r, [req[r] EXCEPT !.id = a, !.code = c, !.kinds = kinds, !.pc =
                           IF c \in {NULL, row[a].code} THEN TxStart(kinds) ELSE "checkCode"])
           \/ ParticipantsRefused(r, kinds)
  /\ UNCHANGED <<row, party, bucket, caught, faults>>

UpdateCheckCode(r) ==
  /\ At(r, "checkCode")
  /\ IF CodeFree(req[r].code, req[r].id)
     THEN Become(r, [req[r] EXCEPT !.pc = TxStart(req[r].kinds)])
     ELSE Answer(r, "rejected")
  /\ UNCHANGED <<row, party, bucket, caught, faults>>

\* Mutant: each client decides which list comes first.
NextKindAny(r) ==
  IF r = CHOOSE x \in Requests : TRUE
  THEN IF "grantor" \in req[r].kinds THEN "grantor" ELSE "beneficiary"
  ELSE IF "beneficiary" \in req[r].kinds THEN "beneficiary" ELSE "grantor"

NextKind(r) == IF "grantor" \in req[r].kinds THEN "grantor" ELSE "beneficiary"

\* The transaction of s has begun to write to archive a.
Writing(s, a) ==
  /\ req[s].id = a /\ InFlight(s)
  /\ At(s, "replace") \/ req[s].gone # {} \/ req[s].added # {}

\* deleteMany begins: these are the rows it sees.
Snapshot(r) ==
  /\ At(r, "snapshot")
  /\ Become(r, [req[r] EXCEPT !.pc = "replace",
       !.seen = {p \in party : p.archive = req[r].id /\ p.kind = NextKind(r)},
       !.with = @ \cup {s \in Requests \ {r} : Writing(s, req[r].id)}])
  /\ UNCHANGED <<row, party, bucket, caught, faults>>

\* r waits for s, which has deleted a row that r wants to delete.
WaitsFor(r, s) == r # s /\ At(r, "replace") /\ req[r].seen \cap req[s].gone # {}

\* Mutant: the list of the dto is added to the one there is.
ReplaceAppend(r) ==
  LET new == [ archive |-> req[r].id, kind |-> NextKind(r), by |-> r ]
      rest == req[r].kinds \ {NextKind(r)}
  IN  /\ At(r, "replace")
      /\ \E list \in { {}, {new} } :
           Become(r, [req[r] EXCEPT !.pc = TxStart(rest), !.kinds = rest, !.seen = {},
                        !.added = @ \cup list])
      /\ UNCHANGED <<row, party, bucket, caught, faults>>

\* Then it deletes those that are still there, and createMany inserts the
\* list of the dto, if it is not empty.
Replace(r) ==
  LET new == [ archive |-> req[r].id, kind |-> NextKind(r), by |-> r ]
      rest == req[r].kinds \ {NextKind(r)}
  IN  /\ At(r, "replace")
      /\ \A s \in Requests : ~WaitsFor(r, s)
      /\ \E list \in { {}, {new} } :
           Become(r, [req[r] EXCEPT !.pc = TxStart(rest), !.kinds = rest, !.seen = {},
                        !.gone = @ \cup (req[r].seen \cap party), !.added = @ \cup list])
      /\ UNCHANGED <<row, party, bucket, caught, faults>>

\* archive.update by id and the commit.  The unique index refuses a code
\* that an undeleted archive has by now, and everything is rolled back.
Commit(r) ==
  LET a == req[r].id
      c == IF req[r].code = NULL THEN row[a].code ELSE req[r].code
  IN  /\ At(r, "commit")
      /\ \/ /\ Active(a) => CodeFree(c, a)
            /\ row' = [row EXCEPT ![a].code = c]
            /\ party' = (party \ req[r].gone) \cup req[r].added
            /\ Answer(r, "ok")
         \/ /\ Active(a) /\ ~CodeFree(c, a)
            /\ Answer(r, "rejected") /\ UNCHANGED <<row, party>>
      /\ UNCHANGED <<bucket, caught, faults>>

----------------------------------------------------------------------------
\* remove: a soft delete, which frees the code and keeps everything else.
\* Without confirmar_eliminacion it is refused before it looks for anything.
Unconfirmed(r) ==
  /\ At(r, "new")
  /\ Answer(r, "rejected")
  /\ UNCHANGED <<row, party, bucket, caught, faults>>

RemoveRead(r, a) ==
  /\ At(r, "new")
  /\ IF Active(a) THEN Proceed(r, a, "delete") ELSE Answer(r, "notFound")
  /\ UNCHANGED <<row, party, bucket, caught, faults>>

RemoveRow(r) ==
  /\ At(r, "delete")
  /\ row' = [row EXCEPT ![req[r].id].state = "deleted"]
  /\ caught' = [caught EXCEPT ![req[r].id] =
                  IF Active(req[r].id) THEN {s \in Requests : InFlight(s)} ELSE @]
  /\ Answer(r, "ok")
  /\ UNCHANGED <<party, bucket, faults>>

----------------------------------------------------------------------------
(***************************************************************************)
(* The PDF.  Both handlers check the files against the configuration.      *)
(* uploadPdf stores the file before it looks for the archive; generatePdf  *)
(* looks for it first, and may find an image corrupt.  A PDF that another  *)
(* one replaces stays in the bucket.                                       *)
(***************************************************************************)
\* The type a file is declared to have, its first bytes, its size and the
\* number of files: what the checks find is free.
FileRefused(r) == Answer(r, "rejected")

Upload(r, a) ==
  /\ At(r, "new")
  /\ Proceed(r, a, "put") \/ FileRefused(r)
  /\ UNCHANGED <<row, party, bucket, caught, faults>>

Generate(r, a) ==
  /\ At(r, "new")
  /\ Proceed(r, a, "images") \/ FileRefused(r)
  /\ UNCHANGED <<row, party, bucket, caught, faults>>

GenerateRead(r) ==
  /\ At(r, "images")
  /\ \/ ~Active(req[r].id) /\ Answer(r, "notFound")
     \/ Active(req[r].id) /\ (Proceed(r, req[r].id, "render") \/ Answer(r, "rejected"))
  /\ UNCHANGED <<row, party, bucket, caught, faults>>

\* Mutant: a failed upload is not noticed.
PutUnchecked(r) ==
  /\ At(r, "put") \/ At(r, "render")
  /\ \/ bucket' = bucket \cup {r} /\ UNCHANGED faults
     \/ bucket' \in { bucket, bucket \cup {r} } /\ Fault
  /\ Become(r, [req[r] EXCEPT !.pc = IF At(r, "put") THEN "find" ELSE "link"])
  /\ UNCHANGED <<row, party, caught>>

\* uploadPdf of S3Service: a call that fails may have stored the object.
Put(r) ==
  /\ At(r, "put") \/ At(r, "render")
  /\ \/ /\ bucket' = bucket \cup {r}
        /\ Become(r, [req[r] EXCEPT !.pc = IF At(r, "put") THEN "find" ELSE "link"])
        /\ UNCHANGED faults
     \/ /\ bucket' \in { bucket, bucket \cup {r} }
        /\ Answer(r, "failed")
        /\ Fault
  /\ UNCHANGED <<row, party, caught>>

\* attachPdf looks for the archive when the file is stored already.
Find(r) ==
  /\ At(r, "find")
  /\ IF Active(req[r].id) THEN Proceed(r, req[r].id, "link") ELSE Answer(r, "notFound")
  /\ UNCHANGED <<row, party, bucket, caught, faults>>

\* archive.update by id, of attachPdf and of generatePdf.
Link(r) ==
  /\ At(r, "link")
  /\ row' = [row EXCEPT ![req[r].id].pdf = r]
  /\ Answer(r, "ok")
  /\ UNCHANGED <<party, bucket, caught, faults>>

----------------------------------------------------------------------------
\* A query fails or the process dies: PostgreSQL rolls the transaction back.
Fail(r) ==
  /\ InFlight(r)
  /\ Answer(r, "failed")
  /\ Fault
  /\ UNCHANGED <<row, party, bucket, caught>>

Terminated ==
  /\ \A r \in Requests : At(r, "done")
  /\ UNCHANGED archiveVars

Next ==
  \/ \E r \in Requests :
       \/ Unconfirmed(r)
       \/ \E c \in Codes, kinds \in SUBSET Kinds : CreateLookup(r, c, kinds)
       \/ \E a \in Archives, c \in Codes \cup {NULL}, kinds \in SUBSET Kinds :
            UpdateRead(r, a, c, kinds)
       \/ \E a \in Archives : RemoveRead(r, a) \/ Upload(r, a) \/ Generate(r, a)
       \/ CreateInsert(r) \/ UpdateCheckCode(r) \/ Snapshot(r) \/ Replace(r) \/ Commit(r)
       \/ RemoveRow(r) \/ GenerateRead(r) \/ Put(r) \/ Find(r) \/ Link(r) \/ Fail(r)
  \/ Terminated

Spec == Init /\ [][Next]_archiveVars

----------------------------------------------------------------------------
(***************************************************************************)
(* Two undeleted archives never have the same code, however the creations  *)
(* and the updates that looked it up overlap (archives.service.ts:128-151, *)
(* 169-175; migration 20260514000000).                                     *)
(***************************************************************************)
CodeUnique ==
  \A a, b \in Archives : Active(a) /\ Active(b) /\ row[a].code = row[b].code => a = b

(***************************************************************************)
(* The participants of one kind of an archive come from one request,       *)
(* unless two updates had their transactions open together: then each      *)
(* deletes what it saw and the lists are merged                            *)
(* (archives.service.ts:183-206).                                          *)
(***************************************************************************)
PartiesOfOneUpdate ==
  \A p, q \in party : p.archive = q.archive /\ p.kind = q.kind /\ p.by # q.by =>
    /\ {p.by, q.by} \subseteq Requests
    /\ p.by \in req[q.by].with \/ q.by \in req[p.by].with

(***************************************************************************)
(* The transactions of updates never wait for each other in a circle: in   *)
(* any set of requests one waits for none of the others.  All of them take *)
(* grantors, then beneficiaries, then the archive                          *)
(* (archives.service.ts:184-211).                                          *)
(***************************************************************************)
NoCircularWait ==
  \A S \in (SUBSET Requests) \ { {} } : \E r \in S : \A s \in S : ~WaitsFor(r, s)

(***************************************************************************)
(* The PDF of an archive is in the bucket, and a stored PDF that no        *)
(* archive has belongs to a request under way, to one that failed or found *)
(* no archive, or was followed by another one                              *)
(* (archives.controller.ts:245-247, archives.service.ts:250-270, 311-317). *)
(***************************************************************************)
Linked == {row[a].pdf : a \in Archives} \ {NULL}

PdfAccounted ==
  /\ Linked \subseteq bucket
  /\ \A r \in bucket \ Linked :
       \/ InFlight(r)
       \/ req[r].result \in {"failed", "notFound"}
       \/ req[r].result = "ok" /\ row[req[r].id].pdf # NULL

(***************************************************************************)
(* A removed archive stays removed, and it and its participants change     *)
(* only by requests that were under way when it was removed: those look it *)
(* up before and write by id afterwards                                    *)
(* (archives.service.ts:164, 208, 251, 256, 278, 314).                     *)
(***************************************************************************)
PartiesOf(a) == {p \in party : p.archive = a}

RemovedArchiveRests ==
  [][\A a \in Archives : row[a].state = "deleted" =>
       /\ row'[a].state = "deleted"
       /\ row'[a] # row[a] \/ PartiesOf(a)' # PartiesOf(a) =>
            \E r \in caught[a] : InFlight(r) /\ ~InFlight(r)']_archiveVars
=============================================================================
