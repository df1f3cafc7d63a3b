------------------------------- MODULE MCReplay -------------------------------
(* Two components of one app and two templates in the memory; one other     *)
(* process.  The demonstrations hold every way a step can be carried out.   *)
EXTENDS Replay

CONSTANTS c1, c2, t1, t2, nick, r, q

MCAppOf == [c \in Ids |-> "app"]

Plain(action, id) ==
  [action |-> action, id |-> id, target |-> FALSE, coords |-> FALSE, keys |-> 0,
   commit |-> FALSE]

FocusStep == Plain("focus", c1)
Keys == [Plain("type_text", c2) EXCEPT !.keys = 2]
ClickStep == [Plain("click", c1) EXCEPT !.target = TRUE, !.coords = TRUE, !.commit = TRUE]
ScrollStep == [Plain("scroll", c2) EXCEPT !.target = TRUE]
DragStep == [Plain("drag", c1) EXCEPT !.coords = TRUE]
PressStep == Plain("press_key", c2)

MCDemonstrations ==
  {<<FocusStep, Keys>>, <<ClickStep, Keys>>, <<DragStep, PressStep>>, <<ScrollStep>>}

\* A thin tree or one control; nothing or one element seen.
MCViews == {<<>>, <<50>>, <<80>>, <<100>>}

MCRecordings == {[task |-> t1, steps |-> <<c1, c2, c1>>]}
MCAliasWords == {<<c1, nick>>}
MCReviews ==
  {[aliases |-> << <<c1, nick>> >>, merges |-> << [keep |-> c1, into |-> c2] >>, generals |-> <<>>],
   [aliases |-> <<>>, merges |-> << [keep |-> c2, into |-> c2] >>, generals |-> <<>>],
   [aliases |-> <<>>, merges |-> <<>>, generals |-> << [tasks |-> <<t1, t2>>, name |-> BaseName] >>],
   [aliases |-> << <<c2, nick>> >>, merges |-> <<>>, generals |-> << [tasks |-> <<t1, t1>>, name |-> t2] >>]}

Learned ==
  [comp |-> (c1 :> [hits |-> 1, misses |-> 0, aliases |-> {}]) @@
            (c2 :> [hits |-> 0, misses |-> 1, aliases |-> {nick}]),
   tmpl |-> (t1 :> [ids |-> <<c1, c2>>, hits |-> 0]) @@ (t2 :> [ids |-> <<c2>>, hits |-> 1])]
MCLibraries == {EmptyLibrary, Learned}
=============================================================================
