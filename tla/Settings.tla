------------------------------ MODULE Settings ------------------------------
(***************************************************************************)
(* The settings of the system, written one by one (SettingsService) or     *)
(* several at once (SystemService), and the two records of every change:   *)
(* the log row the service waits for and the audit row that the            *)
(* interceptor stores after the answer (LogsService, AuditInterceptor).    *)
(*                                                                         *)
(* A query is a step.  A value is known by the request that wrote it.  An  *)
(* upsert by key is one statement of PostgreSQL that commits by itself.    *)
(***************************************************************************)
EXTENDS Naturals, FiniteSets

CONSTANTS
  Keys,        \* allowed keys
  ConfigKeys,  \* those that PATCH /system/config writes
  Calls,       \* HTTP requests
  NOBODY,      \* who wrote the settings of the first state
  MaxFaults    \* bound: failed queries and crashes

ASSUME ConfigKeysAreKeys == ConfigKeys \subseteq Keys
ASSUME NobodyCalls == NOBODY \notin Calls
ASSUME FaultBound == MaxFaults \in Nat

VARIABLES
  setting,  \* table settings: who wrote each value
  call,     \* the HTTP requests, by their names
  crashed,  \* history: the requests whose process died under them
  faults    \* history: how many faults there were

settingsVars == <<setting, call, crashed, faults>>

(***************************************************************************)
(* pc is "new", "write", "log", "read" or "done"; op "update", "bulk",     *)
(* "config", "read" or "search"; result "ok", "rejected" or "failed"; log  *)
(* and audit, the two records, "stored" or "lost", audit also "pending".   *)
(* pending are the upserts sent and not yet executed.  with is history:    *)
(* the requests that were busy at the same time.                           *)
(***************************************************************************)
NewCall ==
  [ pc |-> "new", op |-> "none", result |-> "none", keys |-> {}, pending |-> {},
    log |-> "none", audit |-> "none", with |-> {} ]

SettingsInit ==
  /\ setting = [k \in Keys |-> NOBODY]
  /\ call = [r \in Calls |-> NewCall]
  /\ crashed = {}
  /\ faults = 0

----------------------------------------------------------------------------
CallAt(r, pc) == call[r].pc = pc

InFlight(r) == ~CallAt(r, "new") /\ ~CallAt(r, "done")

Busy(r) == InFlight(r) \/ call[r].pending # {}

SetCall(r, x) == call' = [call EXCEPT ![r] = x]

Fault == faults < MaxFaults /\ faults' = faults + 1

\* Every mutation is audited, and a GET only if it has query parameters: no
\* route of the settings downloads or authenticates.
Audited(x) == x.op # "read"

\* x with its answer sent: the interceptor goes on to store the audit row.
AnsweredTapOnly(x, result) ==   \* mutant: the interceptor has no catchError
  [x EXCEPT !.pc = "done", !.result = result,
            !.audit = IF result = "ok" THEN "pending" ELSE "none"]

Answered(x, result) ==
  [x EXCEPT !.pc = "done", !.result = result,
            !.audit = IF Audited(x) THEN "pending" ELSE "none"]

(***************************************************************************)
(* A request begins to write keys: all the upserts are sent.               *)
(***************************************************************************)
BeginWrites(r, op, keys, pc) ==
  call' = [s \in Calls |->
             IF s = r THEN [call[r] EXCEPT !.pc = pc, !.op = op, !.keys = keys,
                              !.pending = keys, !.with = {t \in Calls \ {r} : Busy(t)}]
             ELSE IF Busy(s) THEN [call[s] EXCEPT !.with = @ \cup {r}] ELSE call[s]]

----------------------------------------------------------------------------
\* update of SettingsService, for an allowed key.
Update(r, k) ==
  /\ CallAt(r, "new")
  /\ BeginWrites(r, "update", {k}, "write")
  /\ UNCHANGED <<setting, crashed, faults>>

\* updateConfig: one upsert for each value of the dto, all of them at once.
Config(r, keys) ==
  /\ CallAt(r, "new")
  /\ BeginWrites(r, "config", keys, IF keys = {} THEN "log" ELSE "write")
  /\ UNCHANGED <<setting, crashed, faults>>

(***************************************************************************)
(* PATCH /settings.  The dto's only property has no validator: with        *)
(* whitelist and forbidNonWhitelisted the pipe refuses every body that has *)
(* it, and without it Object.keys(undefined) throws.                       *)
(***************************************************************************)
Bulk(r, keys) ==
  /\ CallAt(r, "new")
  /\ \E result \in IF keys = {} THEN {"rejected", "failed"} ELSE {"rejected"} :
       SetCall(r, Answered([call[r] EXCEPT !.op = "bulk", !.keys = keys], result))
  /\ UNCHANGED <<setting, crashed, faults>>

\* GET of one or all of the settings or of the configuration, with or without
\* query parameters.
Get(r, op) ==
  /\ CallAt(r, "new")
  /\ \/ SetCall(r, Answered([call[r] EXCEPT !.op = op], "ok")) /\ UNCHANGED faults
     \/ SetCall(r, Answered([call[r] EXCEPT !.op = op], "rejected")) /\ UNCHANGED faults
     \/ SetCall(r, Answered([call[r] EXCEPT !.op = op], "failed")) /\ Fault
  /\ UNCHANGED <<setting, crashed>>

\* An unknown key, or a value that the pipe refuses.
Refuse(r) ==
  /\ CallAt(r, "new")
  /\ SetCall(r, Answered(call[r], "rejected"))
  /\ UNCHANGED <<setting, crashed, faults>>

\* An upsert is executed; the last one lets its request go on.
Upsert(r, k) ==
  LET left == call[r].pending \ {k}
  IN  /\ k \in call[r].pending
      /\ setting' = [setting EXCEPT ![k] = r]
      /\ SetCall(r, [call[r] EXCEPT !.pending = left,
                      !.pc = IF CallAt(r, "write") /\ left = {} THEN "log" ELSE @])
      /\ UNCHANGED <<crashed, faults>>

\* Mutant: allSettled in place of all, the failures are not looked at.
UpsertSettled(r, k) ==
  LET left == call[r].pending \ {k}
  IN  /\ k \in call[r].pending
      /\ SetCall(r, [call[r] EXCEPT !.pending = left,
                      !.pc = IF CallAt(r, "write") /\ left = {} THEN "log" ELSE @])
      /\ Fault
      /\ UNCHANGED <<setting, crashed>>

\* The first failure ends Promise.all, and the handler with it; the other
\* upserts are on their way.
UpsertFails(r, k) ==
  LET rest == [call[r] EXCEPT !.pending = @ \ {k}]
  IN  /\ k \in call[r].pending
      /\ SetCall(r, IF CallAt(r, "done") THEN rest ELSE Answered(rest, "failed"))
      /\ Fault
      /\ UNCHANGED <<setting, crashed>>

\* LogsService.log swallows its failures.
LogRow(r) ==
  /\ CallAt(r, "log")
  /\ \E log \in {"stored", "lost"} :
       LET x == [call[r] EXCEPT !.log = log]
       IN  /\ SetCall(r, IF x.op = "config" THEN [x EXCEPT !.pc = "read"]
                                          ELSE Answered(x, "ok"))
           /\ IF log = "lost" THEN Fault ELSE UNCHANGED faults
  /\ UNCHANGED <<setting, crashed>>

\* getConfig, after the update; it is the answer.
ReadBack(r) ==
  /\ CallAt(r, "read")
  /\ \/ SetCall(r, Answered(call[r], "ok")) /\ UNCHANGED faults
     \/ SetCall(r, Answered(call[r], "failed")) /\ Fault
  /\ UNCHANGED <<setting, crashed>>

\* persist of the interceptor, which nobody waits for.
Persist(r) ==
  /\ call[r].audit = "pending"
  /\ \/ SetCall(r, [call[r] EXCEPT !.audit = "stored"]) /\ UNCHANGED faults
     \/ SetCall(r, [call[r] EXCEPT !.audit = "lost"]) /\ Fault
  /\ UNCHANGED <<setting, crashed>>

\* The process of r dies; what PostgreSQL has received may still be executed.
Crash(r) ==
  /\ InFlight(r) \/ call[r].audit = "pending"
  /\ \E left \in SUBSET call[r].pending :
       SetCall(r, [call[r] EXCEPT !.pc = "done", !.audit = "lost", !.pending = left,
                    !.result = IF @ = "none" THEN "failed" ELSE @])
  /\ crashed' = crashed \cup {r}
  /\ Fault
  /\ UNCHANGED setting

SettingsRest ==
  /\ \A r \in Calls : CallAt(r, "done") /\ ~Busy(r) /\ call[r].audit # "pending"
  /\ UNCHANGED settingsVars

SettingsNext ==
  \/ \E r \in Calls :
       \/ \E k \in Keys : Update(r, k) \/ Upsert(r, k) \/ UpsertFails(r, k)
       \/ \E keys \in SUBSET ConfigKeys : Config(r, keys) \/ Bulk(r, keys)
       \/ \E op \in {"read", "search"} : Get(r, op)
       \/ Refuse(r) \/ LogRow(r) \/ ReadBack(r) \/ Persist(r) \/ Crash(r)
  \/ SettingsRest

(***************************************************************************)
(* Fairness: PostgreSQL answers what it was sent, and Node runs every      *)
(* continuation that can run.  No request has to arrive.                   *)
(***************************************************************************)
Progress(r) ==
  (\E k \in Keys : Upsert(r, k)) \/ LogRow(r) \/ ReadBack(r) \/ Persist(r)

Fairness == \A r \in Calls : WF_settingsVars(Progress(r))

SettingsSpec == SettingsInit /\ [][SettingsNext]_settingsVars /\ Fairness

----------------------------------------------------------------------------
(***************************************************************************)
(* Two values of the configuration that come from two requests, each of    *)
(* which wrote both keys, were written by requests that overlapped, or one *)
(* of them has failed or is not done: Promise.all of separate upserts is   *)
(* no transaction (system.service.ts:47-90).                               *)
(***************************************************************************)
Blameless(r) == ~Busy(r) /\ call[r].result = "ok"

ConfigOfOneUpdate ==
  \A k, j \in Keys : LET r == setting[k] s == setting[j] IN
    /\ NOBODY \notin {r, s}
    /\ r # s
    /\ {k, j} \subseteq call[r].keys \cap call[s].keys
    /\ Blameless(r) /\ Blameless(s)
    => s \in call[r].with

(***************************************************************************)
(* As long as no process dies, one failed query does not leave a change    *)
(* without a record: the log row of the service and the audit row of the   *)
(* interceptor cover for each other, also when the request itself failed   *)
(* half way (logs.service.ts:24-31, audit.interceptor.ts:92-108).          *)
(***************************************************************************)
OneFaultLeavesRecord ==
  faults <= 1 /\ crashed = {} =>
    \A r \in Calls :
      /\ \E k \in Keys : setting[k] = r
      /\ ~Busy(r) /\ call[r].audit # "pending"
      => "stored" \in {call[r].log, call[r].audit}

(***************************************************************************)
(* Every request is answered, its upserts come to an end and it is         *)
(* audited, unless the row is lost or it only read a resource              *)
(* (audit.interceptor.ts:59-108, system.service.ts:42-102).                *)
(***************************************************************************)
RequestsEnd ==
  \A r \in Calls :
    ~CallAt(r, "new") ~>
      /\ CallAt(r, "done") /\ ~Busy(r)
      /\ call[r].audit \in {"stored", "lost"} \/ call[r].op = "read"

(***************************************************************************)
(* What the README says of PATCH /settings (README.md:319): a bulk update  *)
(* of known keys is carried out.                                           *)
(***************************************************************************)
BulkUpdates ==
  \A r \in Calls :
    call[r].op = "bulk" /\ call[r].keys # {} /\ r \notin crashed => call[r].result = "ok"
=============================================================================
