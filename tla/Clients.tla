------------------------------ MODULE Clients -------------------------------
(***************************************************************************)
(* The clients and their documents (ClientsController, ClientsService): a  *)
(* cedula, RUC or NA marker, or a passport in the same column.  A query is *)
(* a step, and so is the log row that a handler waits for before it        *)
(* answers, whose contents are left out (see Settings).  Names and         *)
(* nationalities are left out, and so are the handlers that only read.     *)
(***************************************************************************)
EXTENDS Identification, Sequences, FiniteSets

CONSTANTS
  Seed,      \* a client of the first state, without document
  Calls,     \* HTTP requests
  MaxRows,   \* bound: rows of an import (the dto allows 500)
  ABSENT,    \* what JavaScript calls undefined
  MaxFaults  \* bound: failed queries and crashes

Ids == {Seed} \cup (Calls \X (1..MaxRows))

ASSUME ClientBounds == MaxRows \in Nat \ {0} /\ MaxFaults \in Nat
ASSUME SentinelsDiffer ==
  /\ ABSENT # NULL
  /\ {ABSENT, NULL} \cap Documents = {}
  /\ Seed \notin Calls \X (1..MaxRows)

VARIABLES
  client,  \* table clients
  call,    \* the HTTP requests, by their names
  faults   \* history: how many faults there were

clientVars == <<client, call, faults>>

\* state is "absent", "present" or "deleted"; passport is history: the
\* document was given as a passport.
NoClient == [ state |-> "absent", doc |-> NULL, passport |-> FALSE ]

(***************************************************************************)
(* The identification of a dto: doc is the field that is looked at,        *)
(* pasaporte when es_pasaporte is true, cedulaORuc otherwise.  The         *)
(* validation pipe lets through no announced passport that is missing or   *)
(* empty, but in a partial dto, whose fields are all optional, the former. *)
(***************************************************************************)
PartialDtos ==
  { d \in [ doc: Documents \cup {ABSENT, NULL}, passport: BOOLEAN ] :
      d.passport /\ d.doc \in Documents => d.doc.length > 0 }

Dtos == {d \in PartialDtos : d.passport => d.doc \in Documents}

Given(v) == IF v = ABSENT THEN NULL ELSE v

Check(d) ==
  validateIdentificacion(IF d.passport THEN NULL ELSE Given(d.doc), d.passport,
                         IF d.passport THEN Given(d.doc) ELSE NULL)

Row(d) == [ state |-> "present", doc |-> Given(d.doc), passport |-> d.passport ]

\* A document as the law has it.
WellFormed(v, passport) ==
  \/ passport /\ v # NULL /\ v.form # "other" /\ 5 <= v.length /\ v.length <= 20
  \/ ~passport /\ \/ v = NULL
                  \/ v.length = 0
                  \/ v.form = "digits" /\ v.length \in {10, 13}
                  \/ v.form = "na" /\ v.length = 10

(***************************************************************************)
(* pc is "new", "insert", "write", "delete", "log" or "done"; result "ok", *)
(* "rejected", "notFound" or "failed".  rows are what is to be stored:     *)
(* NoClient for a row in error, and for an update without document.  bad   *)
(* is history: the rows of an import that are not well formed.             *)
(***************************************************************************)
NewCall ==
  [ pc |-> "new", op |-> "none", result |-> "none", id |-> NULL, rows |-> << >>,
    imported |-> 0, errores |-> {}, bad |-> {} ]

ClientsInit ==
  /\ client = [i \in Ids |->
                 IF i = Seed THEN [NoClient EXCEPT !.state = "present"] ELSE NoClient]
  /\ call = [r \in Calls |-> NewCall]
  /\ faults = 0

----------------------------------------------------------------------------
CallAt(r, pc) == call[r].pc = pc

SetCall(r, x) == call' = [call EXCEPT ![r] = x]

\* The change is in the table, and its log row is to follow.
GoOn(r) == SetCall(r, [call[r] EXCEPT !.pc = "log"])

AnswerCall(r, result) == SetCall(r, [call[r] EXCEPT !.pc = "done", !.result = result])

Present(i) == client[i].state = "present"

Create(r, d) ==
  /\ CallAt(r, "new")
  /\ IF Check(d).valid
     THEN SetCall(r, [call[r] EXCEPT !.pc = "insert", !.op = "create", !.rows = <<Row(d)>>])
     ELSE AnswerCall(r, "rejected")
  /\ UNCHANGED <<client, faults>>

\* bulkCreate: the rows in error are reported, the others go on.
Bulk(r, ds) ==
  LET errores == {i \in DOMAIN ds : ~Check(ds[i]).valid}
  IN  /\ CallAt(r, "new")
      /\ SetCall(r, [call[r] EXCEPT !.pc = "insert", !.op = "bulk", !.errores = errores,
           !.rows = [i \in DOMAIN ds |-> IF i \in errores THEN NoClient ELSE Row(ds[i])],
           !.bad = {i \in DOMAIN ds : ~WellFormed(Given(ds[i].doc), ds[i].passport)}])
      /\ UNCHANGED <<client, faults>>

\* Mutant: the rows in error are inserted with the others.
InsertAll(r) ==
  /\ CallAt(r, "insert")
  /\ client' = [i \in Ids |-> IF i \in {<<r, n>> : n \in DOMAIN call[r].rows}
                              THEN [call[r].rows[i[2]] EXCEPT !.state = "present"]
                              ELSE client[i]]
  /\ SetCall(r, [call[r] EXCEPT !.pc = "log", !.imported = Len(call[r].rows)])
  /\ UNCHANGED faults

\* create and createMany, which is one statement; none when no row is valid.
Insert(r) ==
  LET good == DOMAIN call[r].rows \ call[r].errores
  IN  /\ CallAt(r, "insert")
      /\ client' = [i \in Ids |-> IF i \in {<<r, n>> : n \in good}
                                  THEN call[r].rows[i[2]] ELSE client[i]]
      /\ SetCall(r, [call[r] EXCEPT !.pc = "log", !.imported = Cardinality(good)])
      /\ UNCHANGED faults

\* update looks for the client before it looks at the document, if the dto
\* has any of the three fields; rest says that it has one that is not used.
Update(r, i, d, rest) ==
  /\ CallAt(r, "new")
  /\ IF ~Present(i) THEN AnswerCall(r, "notFound")
     ELSE IF (d.doc # ABSENT \/ d.passport \/ rest) /\ ~Check(d).valid THEN AnswerCall(r, "rejected")
     ELSE SetCall(r, [call[r] EXCEPT !.pc = "write", !.op = "update", !.id = i,
                       !.rows = <<IF d.doc = ABSENT THEN NoClient ELSE Row(d)>>])
  /\ UNCHANGED <<client, faults>>

\* Prisma leaves a column alone whose value is undefined.
Write(r) ==
  LET new == call[r].rows[1]
  IN  /\ CallAt(r, "write")
      /\ IF Present(call[r].id)
         THEN /\ client' = IF new = NoClient THEN client
                           ELSE [client EXCEPT ![call[r].id] = new]
              /\ GoOn(r)
         ELSE AnswerCall(r, "notFound") /\ UNCHANGED client
      /\ UNCHANGED faults

Remove(r, i) ==
  /\ CallAt(r, "new")
  /\ IF Present(i)
     THEN SetCall(r, [call[r] EXCEPT !.pc = "delete", !.op = "remove", !.id = i])
     ELSE AnswerCall(r, "notFound")
  /\ UNCHANGED <<client, faults>>

Delete(r) ==
  /\ CallAt(r, "delete")
  /\ IF Present(call[r].id)
     THEN client' = [client EXCEPT ![call[r].id].state = "deleted"] /\ GoOn(r)
     ELSE AnswerCall(r, "notFound") /\ UNCHANGED client
  /\ UNCHANGED faults

\* LogsService lets no failure through: the answer follows.
Logged(r) ==
  /\ CallAt(r, "log")
  /\ AnswerCall(r, "ok")
  /\ UNCHANGED <<client, faults>>

\* A query fails or the process dies; at the log row it is the latter.
FailCall(r) ==
  /\ ~CallAt(r, "new") /\ ~CallAt(r, "done")
  /\ faults < MaxFaults
  /\ faults' = faults + 1
  /\ AnswerCall(r, "failed")
  /\ UNCHANGED client

ClientsRest ==
  /\ \A r \in Calls : CallAt(r, "done")
  /\ UNCHANGED clientVars

ClientsNext ==
  \/ \E r \in Calls :
       \/ /\ CallAt(r, "new")
          /\ \/ \E d \in Dtos : Create(r, d)
             \/ \E d \in PartialDtos, i \in Ids, rest \in BOOLEAN : Update(r, i, d, rest)
             \/ \E n \in 1..MaxRows : \E ds \in [1..n -> Dtos] : Bulk(r, ds)
             \/ \E i \in Ids : Remove(r, i)
       \/ Insert(r) \/ Write(r) \/ Delete(r) \/ Logged(r) \/ FailCall(r)
  \/ ClientsRest

ClientsSpec == ClientsInit /\ [][ClientsNext]_clientVars

----------------------------------------------------------------------------
(***************************************************************************)
(* Whatever sequence of creations, imports and updates, partial ones too,  *)
(* led to it: the document of a client is well formed for what it was      *)
(* given as, a passport or a cedula, RUC or NA marker                      *)
(* (identification.helper.ts:75-131, clients.service.ts:59-61, 98-100).    *)
(***************************************************************************)
StoredWellFormed ==
  \A i \in Ids : WellFormed(client[i].doc, client[i].passport)

(***************************************************************************)
(* Of an import all rows that are well formed are in the table or none is, *)
(* however it ended, and never one of the others.  If it answers, they all *)
(* are: the others are reported under their numbers, and the count of the  *)
(* answer is that of the rows stored.  Who gets no answer may find either: *)
(* the process may have died before the rows or after them, at the log row *)
(* (clients.service.ts:134-200).                                           *)
(***************************************************************************)
ImportAccounted ==
  \A r \in Calls : call[r].op = "bulk" =>
    LET good == DOMAIN call[r].rows \ call[r].bad
        stored == {n \in 1..MaxRows : client[<<r, n>>].state # "absent"}
    IN  /\ stored \in {{}, good}
        /\ CallAt(r, "insert") => stored = {}
        /\ CallAt(r, "log") \/ call[r].result = "ok" =>
             /\ stored = good
             /\ call[r].errores = call[r].bad
             /\ call[r].imported + Cardinality(call[r].errores) = Len(call[r].rows)
=============================================================================
