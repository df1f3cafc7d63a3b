---- MODULE MCVision ----
(* Three providers, one preferred; a long and a short cooldown, and an      *)
(* upgrade cooldown of another length again.                                *)
EXTENDS Vision
====
