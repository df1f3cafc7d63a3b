------------------------------ MODULE ActPromise ------------------------------
(***************************************************************************)
(* What cu_act promises its caller: a call that goes on, in which at most  *)
(* two inputs are sent (a real click and its fallback), and an answer      *)
(* whose code tells whether any may have been.  Module Facade implements   *)
(* it; the replay runner (module Replay) relies on nothing else.           *)
(***************************************************************************)
EXTENDS ActOutcomes

VARIABLES
  phase,    \* "idle", "acting" or "done"
  commit,   \* the commit flag of the call that goes on
  sends,    \* inputs sent in it
  code      \* what a call that is done answers

promiseVars == <<phase, commit, sends, code>>

PromiseInit == phase = "idle" /\ commit = FALSE /\ sends = 0 /\ code = "none"

\* The call is let in, or refused at once.
Call ==
  /\ phase = "idle"
  /\ sends' = 0
  /\ \/ phase' = "acting" /\ commit' \in BOOLEAN /\ code' = "none"
     \/ phase' = "done" /\ commit' = FALSE /\ code' \in {"INVALID", "STALE_STATE", "EXCEPTION"}

Send == phase = "acting" /\ sends < 2 /\ sends' = sends + 1 /\ UNCHANGED <<phase, commit, code>>

Answer ==
  /\ phase = "acting" /\ phase' = "done"
  /\ code' \in {o.code : o \in {o \in Outcomes(commit) : o.sends = sends}}
  /\ commit' = FALSE /\ sends' = 0

Leave == phase = "done" /\ phase' = "idle" /\ code' = "none" /\ UNCHANGED <<commit, sends>>

PromiseSpec ==
  PromiseInit /\ [][Call \/ Send \/ Answer \/ Leave]_promiseVars
=============================================================================
