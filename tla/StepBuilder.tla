------------------------------ MODULE StepBuilder ------------------------------
(***************************************************************************)
(* How a recording becomes steps (record/steps.py, build_steps): one pass  *)
(* over the captured input events, which holds back what may still grow (a *)
(* text being typed, a session of an input method, a drag) and appends the *)
(* rest.  An event is its kind: the left button pressed, the pointer moved *)
(* past the drag threshold, the button released, a wheel notch, a          *)
(* printable key, another key such as Enter, or a shortcut with Control,   *)
(* Alt or Win; "_late" marks a notch or key that comes after the           *)
(* coalescing window, "ime_" a key or shortcut while an input method is    *)
(* open, "key_up" a key let go with no input method open.  A step is its     *)
(* action and the numbers of the events that went into it.  One window, no *)
(* other button; modifiers by themselves, and keys let go while an input   *)
(* method is open, change nothing here.                                    *)
(* The pass is given as what it holds after each event (NoSteps, Consume)  *)
(* and what it returns when the events end there (Ending).                 *)
(***************************************************************************)
EXTENDS Naturals, Sequences, SequencesExt

Kinds == {"press", "move", "release", "wheel", "wheel_late", "key", "key_late",
          "special", "shortcut", "key_up", "ime_key", "ime_shortcut"}
IsKey(kind) == kind \in {"key", "key_late"}
IsWheel(kind) == kind \in {"wheel", "wheel_late"}
\* A press, a notch or a key: the user expects it among the steps.
IsAction(kind) == kind \notin {"move", "release", "key_up", "ime_shortcut"}

\* steps; events of the text being typed; keys kept for an input method, and
\* whether a session of it runs; events of the running drag; is the button
\* down; index of the last scroll step, 0 for none.
NoSteps ==
  [steps |-> <<>>, typing |-> {}, ime |-> {}, imeActive |-> FALSE, drag |-> {},
   down |-> FALSE, scroll |-> 0]

Step(action, from) == [action |-> action, from |-> from]

Grown(b, step) == [b EXCEPT !.steps = Append(@, step)]

\* flush_type, flush_drag and flush_ime
TypingFlushed(b) ==
  IF b.typing = {} THEN b ELSE [Grown(b, Step("type_text", b.typing)) EXCEPT !.typing = {}]
DragFlushed(b) ==
  IF b.drag = {} THEN b ELSE [Grown(b, Step("drag", b.drag)) EXCEPT !.drag = {}]
ImeFlushed(b) ==
  IF ~b.imeActive THEN b
  ELSE [Grown(b, Step("type_text", b.ime)) EXCEPT !.imeActive = FALSE, !.ime = {}]

Key(b, n, late) ==
  LET c == IF late THEN TypingFlushed(ImeFlushed(b)) ELSE ImeFlushed(b)
  IN  [c EXCEPT !.typing = @ \cup {n}]

Special(b, n) == Grown(TypingFlushed(ImeFlushed(b)), Step("press_key", {n}))

\* A shortcut does not end the input method's session.
Shortcut(b, n) == Grown(TypingFlushed(b), Step("press_key", {n}))

ImeKey(b, n) == [TypingFlushed(b) EXCEPT !.imeActive = TRUE, !.ime = @ \cup {n}]

\* It is kept for the session, also if there is none.
ImeShortcut(b, n) == [b EXCEPT !.ime = @ \cup {n}]

Press(b, n) ==
  [Grown(DragFlushed(TypingFlushed(ImeFlushed(b))), Step("click", {n})) EXCEPT !.down = TRUE]

\* Faulty variant of Move: the click the drag came from stays.
MoveKeepsClick(b, n) ==
  IF b.drag # {} THEN [b EXCEPT !.drag = @ \cup {n}]
  ELSE IF b.down /\ b.steps # <<>> /\ Last(b.steps).action = "click"
  THEN [b EXCEPT !.drag = Last(b.steps).from \cup {n}]
  ELSE b
\* The first move turns the click at the end of the steps into a drag.
Move(b, n) ==
  IF b.drag # {} THEN [b EXCEPT !.drag = @ \cup {n}]
  ELSE IF b.down /\ b.steps # <<>> /\ Last(b.steps).action = "click"
  THEN [b EXCEPT !.steps = Front(@), !.drag = Last(b.steps).from \cup {n}]
  ELSE b

Release(b, n) ==
  LET c == [b EXCEPT !.down = FALSE]
  IN  IF b.drag = {} THEN c ELSE DragFlushed([c EXCEPT !.drag = @ \cup {n}])

\* A notch joins the last scroll, wherever that stands by now.
Wheel(b, n, late) ==
  LET c == TypingFlushed(b)
  IN  IF c.scroll # 0 /\ ~late /\ c.steps[c.scroll].action = "scroll"
      THEN [c EXCEPT !.steps[c.scroll].from = @ \cup {n}]
      ELSE [Grown(c, Step("scroll", {n})) EXCEPT !.scroll = Len(c.steps) + 1]

Consume(b, n, kind) ==
  CASE IsKey(kind) -> Key(b, n, kind = "key_late")
    [] IsWheel(kind) -> Wheel(b, n, kind = "wheel_late")
    [] kind = "press" -> Press(b, n)
    [] kind = "move" -> Move(b, n)
    [] kind = "release" -> Release(b, n)
    [] kind = "special" -> Special(b, n)
    [] kind = "shortcut" -> Shortcut(b, n)
    [] kind = "key_up" -> ImeFlushed(b)
    [] kind = "ime_key" -> ImeKey(b, n)
    [] kind = "ime_shortcut" -> ImeShortcut(b, n)

Ending(b) == DragFlushed(TypingFlushed(ImeFlushed(b))).steps
=============================================================================
