---- MODULE MCDesk ----
(* Two windows of the four; a third thread may meet two that were late. *)
EXTENDS Desk
====
