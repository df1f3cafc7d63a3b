------------------------------ MODULE FreshPlan ------------------------------
(***************************************************************************)
(* What the snapshot store promises the agent, without how it keeps its    *)
(* tables: every app has at most one plan, the id of a snapshot the agent  *)
(* may act on.  An observation replaces the app's plan.  The store may     *)
(* forget any plan at an observation (it lacks room, or the plan is old),  *)
(* but a plan that it refuses is gone, and one that was forgotten or       *)
(* replaced never returns.                                                 *)
(***************************************************************************)
EXTENDS Integers

CONSTANT Apps

VARIABLES
  plan,      \* app -> the id that may be acted on, 0 for none
  issued,    \* ids handed out so far
  reply      \* the store's last answer

Init ==
  /\ plan = [app \in Apps |-> 0]
  /\ issued = 0
  /\ reply.result = "none"

\* A new plan for one app; plans of any apps may be forgotten on the way.
Observe(app) ==
  /\ issued' = issued + 1
  /\ reply'.result = "none"
  /\ plan' \in [Apps -> 0 .. issued']
  /\ plan'[app] \in {0, issued'}
  /\ \A a \in Apps \ {app} : plan'[a] \in {0, plan[a]}

\* A plan is accepted, and stays good.
Accept(app, id) ==
  /\ id # 0
  /\ plan[app] = id
  /\ reply' = [op |-> "get", result |-> "served", app |-> app, id |-> id,
               named |-> id, age |-> reply'.age]
  /\ UNCHANGED <<plan, issued>>

\* A refusal ends the plan it refuses and touches no other; a plan the app is
\* left with is the one the refusal names.
Reject(app, id) ==
  /\ reply'.result = "stale" /\ reply'.app = app
  /\ plan' = [plan EXCEPT ![app] = IF @ = id THEN 0 ELSE @]
  /\ plan'[app] \in {0, reply'.named}
  /\ UNCHANGED issued

Next ==
  \E app \in Apps :
    \/ Observe(app)
    \/ \E id \in 0 .. issued : Accept(app, id) \/ Reject(app, id)

Spec == Init /\ [][Next]_<<plan, issued, reply>>
=============================================================================
