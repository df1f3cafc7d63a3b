---- MODULE MCFacade ----
(* One app over a store with room for one snapshot.  Its tree may be trivial *)
(* (the pictures decide) or rich, and a snapshot may be read at two budgets. *)
EXTENDS Facade

CONSTANTS a1, trivial, rich, p1, p2, b1, b2

MCViews == AllViews

\* A limit that counts from the end of the steps.
MCLimits == {-1}
====
