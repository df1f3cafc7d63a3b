---- MODULE MCStateStore ----
(* The store alone: three apps, room for two snapshots, a clock that passes *)
(* the TTL twice and may be set back.                                      *)
EXTENDS StateStore, TLC

CONSTANTS a1, a2, a3, v1

AppSymmetry == Permutations({a1, a2, a3})
====
