---- MODULE MCConfigStore ----
(* Two command-line writers and a panel, two base URLs, two keys; at the    *)
(* start the file is missing, empty, or has one or both endpoints.          *)
EXTENDS ConfigStore

CONSTANTS c1, c2, p1, u1, u2, k1, k2

First == [base |-> u1, key |-> k1]
Second == [base |-> u2, key |-> k2]
MCStartFiles == {<<>>, <<First>>, <<First, Second>>}
====
