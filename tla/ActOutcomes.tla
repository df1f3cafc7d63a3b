------------------------------ MODULE ActOutcomes ------------------------------
(***************************************************************************)
(* How a cu_act may end: the code it answers (or that it raised), and how  *)
(* many inputs were sent until then.  Said once, for the promise the       *)
(* facade keeps (module ActPromise) and for who relies on it (Replay).     *)
(***************************************************************************)
EXTENDS Naturals

\* INVALID arguments and STALE_STATE mean that nothing was sent; a failed
\* commit is uncertain, a failed plain action is an upstream error; a real
\* click that fell back may have clicked twice.
Outcomes(committing) ==
  {o \in [code : {"ok", "INVALID", "STALE_STATE", "UPSTREAM_ERROR", "COMMIT_UNCERTAIN", "EXCEPTION"},
          sends : 0 .. 2] :
     /\ o.code \in {"INVALID", "STALE_STATE"} => o.sends = 0
     /\ o.code = "UPSTREAM_ERROR" => ~committing
     /\ o.code = "COMMIT_UNCERTAIN" => committing}
=============================================================================
