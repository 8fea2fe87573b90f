---------------------------- MODULE SessionLine ----------------------------
(***************************************************************************)
(* What refresh-token rotation promises, whatever the interleaving: the    *)
(* line of each session.  A session is opened by one login with a root     *)
(* token; while it is live it has exactly one head, the only token it      *)
(* accepts; a rotation consumes the head and then hands out a token never  *)
(* used before; once the session is closed nothing revives it.             *)
(***************************************************************************)
CONSTANTS
  Tokens,   \* refresh tokens; a session is named by its root token
  NULL

VARIABLES
  line,     \* the state of each session
  used      \* tokens that were ever handed out

lineVars == <<line, used>>

LineState ==
  [phase: {"unopened", "live", "rotating", "closed"}, head: Tokens \cup {NULL}]

Phase(p) == [phase |-> p, head |-> NULL]
LiveAt(t) == [phase |-> "live", head |-> t]

LineTypeOK == line \in [Tokens -> LineState] /\ used \subseteq Tokens

LineInit == line = [f \in Tokens |-> Phase("unopened")] /\ used = {}

Open(f) ==
  /\ line[f] = Phase("unopened") /\ f \notin used
  /\ line' = [line EXCEPT ![f] = LiveAt(f)]
  /\ used' = used \cup {f}

Consume(f) ==
  /\ line[f].phase = "live"
  /\ line' = [line EXCEPT ![f] = Phase("rotating")]
  /\ UNCHANGED used

HandOut(f, t) ==
  /\ line[f].phase = "rotating" /\ t \notin used
  /\ line' = [line EXCEPT ![f] = LiveAt(t)]
  /\ used' = used \cup {t}

\* Revocation closes live sessions, a rotation that fails closes its own.
Close ==
  /\ \A f \in Tokens :
       \/ line'[f] = line[f]
       \/ line[f].phase \in {"live", "rotating"} /\ line'[f] = Phase("closed")
  /\ line' \in [Tokens -> LineState]
  /\ UNCHANGED used

LineNext ==
  \/ \E f \in Tokens : Open(f) \/ Consume(f)
  \/ \E f, t \in Tokens : HandOut(f, t)
  \/ Close

LineSpec == LineInit /\ [][LineNext]_lineVars
=============================================================================
