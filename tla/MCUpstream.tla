------------------------------ MODULE MCUpstream ------------------------------
(***************************************************************************)
(* An app with two windows, the title of one within the other's, and a     *)
(* browser that shows a page about the app; the helper process of the app  *)
(* goes by a longer name.                                                  *)
(***************************************************************************)
EXTENDS Upstream

MCNameOf == [p \in Pids |-> CASE p = "cad" -> "cad" [] p = "helper" -> "cad helper" [] OTHER -> "web"]
MCPidOf == [w \in WindowIds |-> CASE w = "tips" -> "web" [] OTHER -> "cad"]
MCTitleOf == [w \in WindowIds |-> CASE w = "tips" -> "cad tips" [] w = "second" -> "plan 2" [] OTHER -> "plan"]
MCWithin == {<<t, t>> : t \in Texts} \cup {<<"cad", "cad tips">>, <<"cad", "cad helper">>, <<"plan", "plan 2">>}
MCListed == <<"cad", "helper", "web">>
MCPlaces == {[x |-> 0, y |-> 0, w |-> 2, h |-> 1], [x |-> 0, y |-> 0, w |-> 2, h |-> 2]}
MCLayouts == {[w \in WindowIds |-> [x |-> 0, y |-> 0, w |-> 2, h |-> IF w = "first" THEN 2 ELSE 1]]}
MCOffsets == {<<0, 0>>, <<1, 1>>}
=============================================================================
