---------------------------- MODULE RecordingProofs ----------------------------
(***************************************************************************)
(* Proofs about a recording session, for any number of events and any      *)
(* interleaving of its three threads; and first about its step builder:    *)
(* what every event does to the list of steps, for any events before it.   *)
(***************************************************************************)
EXTENDS Recording, FiniteSetTheorems, TLAPS

-----------------------------------------------------------------------------
(* The step builder. *)

Actions == {"type_text", "click", "drag", "scroll", "press_key", "focus"}
StepType == [action : Actions, from : SUBSET Nat]
BuildType ==
  [steps : Seq(StepType), typing : SUBSET Nat, ime : SUBSET Nat, imeActive : BOOLEAN,
   drag : SUBSET Nat, down : BOOLEAN, scroll : Nat]

\* What the pass holds is typed, and the last scroll it remembers is one.
Built(b) ==
  /\ b \in BuildType
  /\ b.scroll # 0 => b.scroll \in 1 .. Len(b.steps) /\ b.steps[b.scroll].action = "scroll"

Held(group) == IF group = {} THEN 0 ELSE 1
Running(b) == IF b.imeActive THEN 1 ELSE 0
\* How many steps there would be if the events ended here.
Size(b) == Len(b.steps) + Held(b.typing) + Running(b) + Held(b.drag)

LEMMA NoStepsBuilt == Built(NoSteps) /\ Size(NoSteps) = 0
BY DEF Built, BuildType, NoSteps, Size, Running, Held

LEMMA GrownBuilt ==
  ASSUME NEW b, Built(b), NEW step \in StepType
  PROVE  /\ Built(Grown(b, step))
         /\ Len(Grown(b, step).steps) = Len(b.steps) + 1
         /\ Grown(b, step).steps[Len(b.steps) + 1] = step
         /\ \A f \in {"typing", "ime", "imeActive", "drag", "down", "scroll"} :
              Grown(b, step)[f] = b[f]
<1> DEFINE c == Grown(b, step)
<1>1. c.steps = Append(b.steps, step) /\ b.steps \in Seq(StepType)
  BY DEF Grown, Built, BuildType
<1>2. Len(c.steps) = Len(b.steps) + 1 /\ c.steps[Len(b.steps) + 1] = step
      /\ \A i \in 1 .. Len(b.steps) : c.steps[i] = b.steps[i]
  BY <1>1
<1>3. c \in BuildType
  <2>1. c.steps \in Seq(StepType) /\ c = [b EXCEPT !.steps = c.steps]
    BY <1>1 DEF Grown
  <2> HIDE DEF c
  <2> QED BY <2>1 DEF Built, BuildType
<1>4. /\ c.typing = b.typing /\ c.ime = b.ime /\ c.imeActive = b.imeActive
      /\ c.drag = b.drag /\ c.down = b.down /\ c.scroll = b.scroll
  BY DEF Grown, Built, BuildType
<1>5. Built(c)
  BY <1>1, <1>2, <1>3, <1>4 DEF Built
<1> QED BY <1>2, <1>4, <1>5

\* Flushing what is held back makes the list no longer than it would be anyway.
LEMMA TypingFlushedBuilt ==
  ASSUME NEW b, Built(b)
  PROVE  /\ Built(TypingFlushed(b)) /\ Size(TypingFlushed(b)) = Size(b)
         /\ TypingFlushed(b).typing = {}
         /\ \A f \in {"ime", "imeActive", "drag", "down", "scroll"} : TypingFlushed(b)[f] = b[f]
<1>1. CASE b.typing = {}
  BY <1>1 DEF TypingFlushed
<1>2. CASE b.typing # {}
  <2> DEFINE step == Step("type_text", b.typing)
             g == Grown(b, step)
             c == [g EXCEPT !.typing = {}]
  <2>1. step \in StepType
    BY DEF Step, StepType, Actions, Built, BuildType
  <2>2. Built(g) /\ Len(g.steps) = Len(b.steps) + 1
        /\ \A f \in {"typing", "ime", "imeActive", "drag", "down", "scroll"} : g[f] = b[f]
    BY <2>1, GrownBuilt
  <2> HIDE DEF g
  <2>3. c \in BuildType /\ c.typing = {} /\ c.steps = g.steps
        /\ \A f \in {"ime", "imeActive", "drag", "down", "scroll"} : c[f] = g[f]
    BY <2>2 DEF Built, BuildType
  <2>4. Built(c)
    BY <2>2, <2>3 DEF Built
  <2>5. Size(c) = Size(b)
    <3>1. Held(b.typing) = 1 /\ Held(c.typing) = 0
      BY <1>2, <2>3 DEF Running, Held
    <3>2. Len(b.steps) \in Nat /\ Running(b) \in Nat /\ Held(b.drag) \in Nat
      BY DEF Built, BuildType, Running, Held
    <3>3. /\ Running(c) = Running(b) /\ Held(c.drag) = Held(b.drag)
          /\ Len(c.steps) = Len(b.steps) + 1
      BY <2>2, <2>3 DEF Running
    <3> HIDE DEF c
    <3> QED BY <3>1, <3>2, <3>3 DEF Size
  <2>6. TypingFlushed(b) = c
    BY <1>2 DEF TypingFlushed, g
  <2> HIDE DEF c
  <2> QED BY <2>2, <2>3, <2>4, <2>5, <2>6
<1> QED BY <1>1, <1>2

LEMMA DragFlushedBuilt ==
  ASSUME NEW b, Built(b)
  PROVE  /\ Built(DragFlushed(b)) /\ Size(DragFlushed(b)) = Size(b)
         /\ DragFlushed(b).drag = {}
         /\ \A f \in {"typing", "ime", "imeActive", "down", "scroll"} : DragFlushed(b)[f] = b[f]
<1>1. CASE b.drag = {}
  BY <1>1 DEF DragFlushed
<1>2. CASE b.drag # {}
  <2> DEFINE step == Step("drag", b.drag)
             g == Grown(b, step)
             c == [g EXCEPT !.drag = {}]
  <2>1. step \in StepType
    BY DEF Step, StepType, Actions, Built, BuildType
  <2>2. Built(g) /\ Len(g.steps) = Len(b.steps) + 1
        /\ \A f \in {"typing", "ime", "imeActive", "drag", "down", "scroll"} : g[f] = b[f]
    BY <2>1, GrownBuilt
  <2> HIDE DEF g
  <2>3. c \in BuildType /\ c.drag = {} /\ c.steps = g.steps
        /\ \A f \in {"typing", "ime", "imeActive", "down", "scroll"} : c[f] = g[f]
    BY <2>2 DEF Built, BuildType
  <2>4. Built(c)
    BY <2>2, <2>3 DEF Built
  <2>5. Size(c) = Size(b)
    <3>1. Held(b.drag) = 1 /\ Held(c.drag) = 0
      BY <1>2, <2>3 DEF Running, Held
    <3>2. Len(b.steps) \in Nat /\ Running(b) \in Nat /\ Held(b.typing) \in Nat
      BY DEF Built, BuildType, Running, Held
    <3>3. /\ Running(c) = Running(b) /\ Held(c.typing) = Held(b.typing)
          /\ Len(c.steps) = Len(b.steps) + 1
      BY <2>2, <2>3 DEF Running
    <3> HIDE DEF c
    <3> QED BY <3>1, <3>2, <3>3 DEF Size
  <2>6. DragFlushed(b) = c
    BY <1>2 DEF DragFlushed, g
  <2> HIDE DEF c
  <2> QED BY <2>2, <2>3, <2>4, <2>5, <2>6
<1> QED BY <1>1, <1>2

LEMMA ImeFlushedBuilt ==
  ASSUME NEW b, Built(b)
  PROVE  /\ Built(ImeFlushed(b)) /\ Size(ImeFlushed(b)) = Size(b)
         /\ ImeFlushed(b).imeActive = FALSE
         /\ \A f \in {"typing", "drag", "down", "scroll"} : ImeFlushed(b)[f] = b[f]
<1>1. CASE b.imeActive = FALSE
  BY <1>1 DEF ImeFlushed
<1>2. CASE b.imeActive = TRUE
  <2> DEFINE step == Step("type_text", b.ime)
             g == Grown(b, step)
             c == [g EXCEPT !.imeActive = FALSE, !.ime = {}]
  <2>1. step \in StepType
    BY DEF Step, StepType, Actions, Built, BuildType
  <2>2. Built(g) /\ Len(g.steps) = Len(b.steps) + 1
        /\ \A f \in {"typing", "ime", "imeActive", "drag", "down", "scroll"} : g[f] = b[f]
    BY <2>1, GrownBuilt
  <2> HIDE DEF g
  <2>3. c \in BuildType /\ c.imeActive = FALSE /\ c.steps = g.steps
        /\ \A f \in {"typing", "drag", "down", "scroll"} : c[f] = g[f]
    BY <2>2 DEF Built, BuildType
  <2>4. Built(c)
    BY <2>2, <2>3 DEF Built
  <2>5. Size(c) = Size(b)
    <3>1. Running(b) = 1 /\ Running(c) = 0
      BY <1>2, <2>3 DEF Running, Held
    <3>2. Len(b.steps) \in Nat /\ Held(b.drag) \in Nat /\ Held(b.typing) \in Nat
      BY DEF Built, BuildType, Running, Held
    <3>3. /\ Held(c.drag) = Held(b.drag) /\ Held(c.typing) = Held(b.typing)
          /\ Len(c.steps) = Len(b.steps) + 1
      BY <2>2, <2>3
    <3> HIDE DEF c
    <3> QED BY <3>1, <3>2, <3>3 DEF Size
  <2>6. ImeFlushed(b) = c
    BY <1>2 DEF ImeFlushed, g
  <2> HIDE DEF c
  <2> QED BY <2>2, <2>3, <2>4, <2>5, <2>6
<1>3. b.imeActive \in BOOLEAN
  BY DEF Built, BuildType
<1> QED BY <1>1, <1>2, <1>3

\* The list a recording would have if its events ended here.
LEMMA EndingLength ==
  ASSUME NEW b, Built(b)
  PROVE  Len(Ending(b)) = Size(b)
<1> DEFINE i == ImeFlushed(b)
           t == TypingFlushed(i)
           d == DragFlushed(t)
<1>1. Built(i) /\ Size(i) = Size(b) /\ i.imeActive = FALSE
  BY ImeFlushedBuilt
<1> HIDE DEF i
<1>2. Built(t) /\ Size(t) = Size(b) /\ t.imeActive = FALSE /\ t.typing = {}
  BY <1>1, TypingFlushedBuilt
<1> HIDE DEF t
<1>3. Built(d) /\ Size(d) = Size(b) /\ d.imeActive = FALSE /\ d.typing = {} /\ d.drag = {}
  BY <1>2, DragFlushedBuilt
<1> HIDE DEF d
<1>4. Size(d) = Len(d.steps)
  BY <1>3 DEF Size, Running, Held, Built, BuildType
<1> QED BY <1>3, <1>4 DEF Ending, d, t, i

-----------------------------------------------------------------------------
(* No event makes the list shorter. *)

Grows(b, c) == Built(c) /\ Size(b) <= Size(c)

LEMMA PartsAreNat ==
  ASSUME NEW b, b \in BuildType
  PROVE  Len(b.steps) \in Nat /\ Held(b.typing) \in Nat /\ Running(b) \in Nat /\ Held(b.drag) \in Nat
BY DEF BuildType, Held, Running

LEMMA SizeIsNat == ASSUME NEW b, Built(b) PROVE Size(b) \in Nat
<1>1. Len(b.steps) \in Nat /\ Held(b.typing) \in Nat /\ Running(b) \in Nat /\ Held(b.drag) \in Nat
  BY PartsAreNat DEF Built
<1> QED BY <1>1 DEF Size

\* A step is appended, and what is held back stays.
LEMMA GrownGrows ==
  ASSUME NEW b, Built(b), NEW step \in StepType
  PROVE  Grows(b, Grown(b, step))
<1> DEFINE c == Grown(b, step)
<1>1. /\ Built(c) /\ Len(c.steps) = Len(b.steps) + 1
      /\ c.typing = b.typing /\ c.imeActive = b.imeActive /\ c.drag = b.drag
  BY GrownBuilt
<1> HIDE DEF c
<1>2. Size(c) = Size(b) + 1
  <2>1. Len(b.steps) \in Nat /\ Held(b.typing) \in Nat /\ Running(b) \in Nat /\ Held(b.drag) \in Nat
    BY PartsAreNat DEF Built
  <2>2. Held(c.typing) = Held(b.typing) /\ Running(c) = Running(b) /\ Held(c.drag) = Held(b.drag)
    BY <1>1 DEF Running
  <2> QED BY <1>1, <2>1, <2>2 DEF Size
<1> QED BY <1>1, <1>2, SizeIsNat DEF Grows, c

\* The steps stay, and no less is held back.
LEMMA HeldBackGrows ==
  ASSUME NEW b, Built(b), NEW c, c \in BuildType, c.steps = b.steps, c.scroll = b.scroll,
         Held(b.typing) <= Held(c.typing), Running(b) <= Running(c),
         Held(b.drag) <= Held(c.drag)
  PROVE  Grows(b, c)
<1>1. Built(c)
  BY DEF Built
<1>2. /\ Len(b.steps) \in Nat /\ Held(b.typing) \in Nat /\ Running(b) \in Nat /\ Held(b.drag) \in Nat
      /\ Held(c.typing) \in Nat /\ Running(c) \in Nat /\ Held(c.drag) \in Nat
  BY PartsAreNat DEF Built
<1>3. Len(c.steps) = Len(b.steps)
  OBVIOUS
<1>4. Size(b) <= Size(c)
  <2>1. \A l, h, r, d, x, y, z \in Nat :
          h <= x /\ r <= y /\ d <= z => l + h + r + d <= l + x + y + z
    OBVIOUS
  <2> QED BY <1>2, <1>3, <2>1 DEF Size
<1> QED BY <1>1, <1>4 DEF Grows

\* An event joins a text, a session of the input method, or a drag.
LEMMA TextGrows ==
  ASSUME NEW b, Built(b), NEW n \in Nat
  PROVE  Grows(b, [b EXCEPT !.typing = @ \cup {n}])
<1> DEFINE c == [b EXCEPT !.typing = @ \cup {n}]
<1>1. /\ c \in BuildType /\ c.steps = b.steps /\ c.scroll = b.scroll
      /\ c.typing = b.typing \cup {n} /\ c.imeActive = b.imeActive /\ c.drag = b.drag
  BY DEF Built, BuildType
<1> HIDE DEF c
<1>2. Held(b.typing) <= Held(c.typing) /\ Running(b) <= Running(c) /\ Held(b.drag) <= Held(c.drag)
  BY <1>1 DEF Running, Held
<1>3. Grows(b, c)
  BY <1>1, <1>2, HeldBackGrows
<1> QED BY <1>3 DEF c

LEMMA SessionGrows ==
  ASSUME NEW b, Built(b), NEW n \in Nat
  PROVE  Grows(b, [b EXCEPT !.imeActive = TRUE, !.ime = @ \cup {n}])
<1> DEFINE c == [b EXCEPT !.imeActive = TRUE, !.ime = @ \cup {n}]
<1>1. /\ c \in BuildType /\ c.steps = b.steps /\ c.scroll = b.scroll
      /\ c.typing = b.typing /\ c.imeActive = TRUE /\ c.drag = b.drag
  BY DEF Built, BuildType
<1> HIDE DEF c
<1>2. Held(b.typing) <= Held(c.typing) /\ Running(b) <= Running(c) /\ Held(b.drag) <= Held(c.drag)
  BY <1>1 DEF Running, Held
<1>3. Grows(b, c)
  BY <1>1, <1>2, HeldBackGrows
<1> QED BY <1>3 DEF c

LEMMA ShortcutKept ==
  ASSUME NEW b, Built(b), NEW n \in Nat
  PROVE  Grows(b, [b EXCEPT !.ime = @ \cup {n}])
<1> DEFINE c == [b EXCEPT !.ime = @ \cup {n}]
<1>1. /\ c \in BuildType /\ c.steps = b.steps /\ c.scroll = b.scroll
      /\ c.typing = b.typing /\ c.imeActive = b.imeActive /\ c.drag = b.drag
  BY DEF Built, BuildType
<1> HIDE DEF c
<1>2. Held(b.typing) <= Held(c.typing) /\ Running(b) <= Running(c) /\ Held(b.drag) <= Held(c.drag)
  BY <1>1 DEF Running, Held
<1>3. Grows(b, c)
  BY <1>1, <1>2, HeldBackGrows
<1> QED BY <1>3 DEF c

LEMMA DragGrows ==
  ASSUME NEW b, Built(b), NEW n \in Nat
  PROVE  Grows(b, [b EXCEPT !.drag = @ \cup {n}])
<1> DEFINE c == [b EXCEPT !.drag = @ \cup {n}]
<1>1. /\ c \in BuildType /\ c.steps = b.steps /\ c.scroll = b.scroll
      /\ c.typing = b.typing /\ c.imeActive = b.imeActive /\ c.drag = b.drag \cup {n}
  BY DEF Built, BuildType
<1> HIDE DEF c
<1>2. Held(b.typing) <= Held(c.typing) /\ Running(b) <= Running(c) /\ Held(b.drag) <= Held(c.drag)
  BY <1>1 DEF Running, Held
<1>3. Grows(b, c)
  BY <1>1, <1>2, HeldBackGrows
<1> QED BY <1>3 DEF c

LEMMA ButtonKept ==
  ASSUME NEW b, Built(b), NEW down \in BOOLEAN
  PROVE  Grows(b, [b EXCEPT !.down = down])
<1> DEFINE c == [b EXCEPT !.down = down]
<1>1. /\ c \in BuildType /\ c.steps = b.steps /\ c.scroll = b.scroll
      /\ c.typing = b.typing /\ c.imeActive = b.imeActive /\ c.drag = b.drag
  BY DEF Built, BuildType
<1> HIDE DEF c
<1>2. Held(b.typing) <= Held(c.typing) /\ Running(b) <= Running(c) /\ Held(b.drag) <= Held(c.drag)
  BY <1>1 DEF Running, Held
<1>3. Grows(b, c)
  BY <1>1, <1>2, HeldBackGrows
<1> QED BY <1>3 DEF c

LEMMA StepsAreTyped ==
  ASSUME NEW action \in Actions, NEW n \in Nat
  PROVE  Step(action, {n}) \in StepType
BY DEF Step, StepType

LEMMA KeyGrows ==
  ASSUME NEW b, Built(b), NEW n \in Nat, NEW late \in BOOLEAN
  PROVE  Grows(b, Key(b, n, late))
<1> DEFINE c == IF late THEN TypingFlushed(ImeFlushed(b)) ELSE ImeFlushed(b)
<1>1. Built(c) /\ Size(c) = Size(b)
  BY ImeFlushedBuilt, TypingFlushedBuilt
<1> HIDE DEF c
<1>2. Grows(c, [c EXCEPT !.typing = @ \cup {n}])
  BY <1>1, TextGrows
<1> QED BY <1>1, <1>2 DEF Key, c, Grows

LEMMA SpecialGrows ==
  ASSUME NEW b, Built(b), NEW n \in Nat
  PROVE  Grows(b, Special(b, n)) /\ Grows(b, Shortcut(b, n))
<1>1. Step("press_key", {n}) \in StepType
  BY StepsAreTyped DEF Actions
<1>2. Grows(b, Special(b, n))
  <2> DEFINE c == TypingFlushed(ImeFlushed(b))
  <2>1. Built(c) /\ Size(c) = Size(b)
    BY ImeFlushedBuilt, TypingFlushedBuilt
  <2> HIDE DEF c
  <2> QED BY <1>1, <2>1, GrownGrows DEF Special, c, Grows
<1>3. Grows(b, Shortcut(b, n))
  <2> DEFINE c == TypingFlushed(b)
  <2>1. Built(c) /\ Size(c) = Size(b)
    BY TypingFlushedBuilt
  <2> HIDE DEF c
  <2> QED BY <1>1, <2>1, GrownGrows DEF Shortcut, c, Grows
<1> QED BY <1>2, <1>3

LEMMA ImeGrows ==
  ASSUME NEW b, Built(b), NEW n \in Nat
  PROVE  Grows(b, ImeKey(b, n)) /\ Grows(b, ImeShortcut(b, n))
<1>1. Grows(b, ImeKey(b, n))
  <2> DEFINE c == TypingFlushed(b)
  <2>1. Built(c) /\ Size(c) = Size(b)
    BY TypingFlushedBuilt
  <2> HIDE DEF c
  <2>2. Grows(c, [c EXCEPT !.imeActive = TRUE, !.ime = @ \cup {n}])
    BY <2>1, SessionGrows, Zenon
  <2> QED BY <2>1, <2>2 DEF ImeKey, c, Grows
<1> QED BY <1>1, ShortcutKept DEF ImeShortcut

LEMMA PressGrows ==
  ASSUME NEW b, Built(b), NEW n \in Nat
  PROVE  Grows(b, Press(b, n))
<1> DEFINE t == TypingFlushed(ImeFlushed(b))
           c == DragFlushed(t)
           g == Grown(c, Step("click", {n}))
<1>0. Built(t) /\ Size(t) = Size(b)
  BY ImeFlushedBuilt, TypingFlushedBuilt
<1> HIDE DEF t
<1>1. Built(c) /\ Size(c) = Size(b)
  BY <1>0, DragFlushedBuilt
<1> HIDE DEF c
<1>2. Built(g) /\ Size(c) <= Size(g)
  BY <1>1, GrownGrows, StepsAreTyped DEF Actions, Grows
<1> HIDE DEF g
<1>3. Built([g EXCEPT !.down = TRUE]) /\ Size(g) <= Size([g EXCEPT !.down = TRUE])
  BY <1>2, ButtonKept DEF Grows
<1>4. Size(g) \in Nat /\ Size(c) \in Nat /\ Size([g EXCEPT !.down = TRUE]) \in Nat
  BY <1>1, <1>2, <1>3, SizeIsNat
<1> QED BY <1>1, <1>2, <1>3, <1>4 DEF Press, t, c, g, Grows

\* The click at the end, if it turns into a drag, is held back instead.
LEMMA MoveGrows ==
  ASSUME NEW b, Built(b), NEW n \in Nat
  PROVE  Grows(b, Move(b, n))
<1>1. CASE b.drag # {}
  BY <1>1, DragGrows DEF Move
<1>2. CASE b.drag = {} /\ b.down /\ b.steps # <<>> /\ Last(b.steps).action = "click"
  <2> DEFINE drag == Last(b.steps).from \cup {n}
             steps == Front(b.steps)
             c == [b EXCEPT !.steps = steps, !.drag = drag]
  <2>1. Move(b, n) = c
    BY <1>2 DEF Move
  <2>2. b.steps \in Seq(StepType) /\ Len(b.steps) \in Nat \ {0}
    BY <1>2 DEF Built, BuildType
  <2>3. b.steps[Len(b.steps)] \in StepType /\ Last(b.steps) = b.steps[Len(b.steps)]
    BY <2>2 DEF Last
  <2>4. drag \in SUBSET Nat /\ drag # {}
    BY <2>3 DEF StepType
  <2>5. /\ steps \in Seq(StepType) /\ Len(steps) = Len(b.steps) - 1
        /\ \A i \in 1 .. Len(b.steps) - 1 : steps[i] = b.steps[i]
    BY <2>2 DEF Front
  <2> HIDE DEF drag, steps
  <2>6. /\ c \in BuildType /\ c.steps = steps /\ c.drag = drag /\ c.typing = b.typing
        /\ c.imeActive = b.imeActive /\ c.scroll = b.scroll
    BY <2>4, <2>5 DEF Built, BuildType
  <2> HIDE DEF c
  <2>7. b.scroll # 0 => b.scroll \in 1 .. Len(b.steps) - 1 /\ b.steps[b.scroll].action = "scroll"
    BY <1>2, <2>2, <2>3 DEF Built, BuildType
  <2>8. Built(c)
    BY <2>5, <2>6, <2>7 DEF Built
  <2>9. Size(c) = Size(b)
    <3>1. /\ Len(c.steps) = Len(b.steps) - 1 /\ Held(c.typing) = Held(b.typing)
          /\ Running(c) = Running(b) /\ Held(b.drag) = 0 /\ Held(c.drag) = 1
      BY <1>2, <2>4, <2>5, <2>6 DEF Held, Running
    <3>2. Len(b.steps) \in Nat /\ Held(b.typing) \in Nat /\ Running(b) \in Nat
      BY PartsAreNat DEF Built
    <3>3. \A l, h, r \in Nat : l + h + r + 0 = (l - 1) + h + r + 1
      OBVIOUS
    <3> QED BY <3>1, <3>2, <3>3 DEF Size
  <2> QED BY <2>1, <2>8, <2>9, SizeIsNat DEF Grows
<1>3. CASE b.drag = {} /\ ~(b.down /\ b.steps # <<>> /\ Last(b.steps).action = "click")
  BY <1>3, SizeIsNat DEF Move, Grows
<1> QED BY <1>1, <1>2, <1>3

LEMMA ReleaseGrows ==
  ASSUME NEW b, Built(b), NEW n \in Nat
  PROVE  Grows(b, Release(b, n))
<1> DEFINE c == [b EXCEPT !.down = FALSE]
           d == [c EXCEPT !.drag = @ \cup {n}]
<1>1. Grows(b, c) /\ c.drag = b.drag
  BY ButtonKept DEF Built, BuildType
<1>2. Built(c) /\ Size(b) <= Size(c)
  BY <1>1 DEF Grows
<1> HIDE DEF c
<1>3. Built(d) /\ Size(c) <= Size(d)
  BY <1>2, DragGrows DEF Grows
<1> HIDE DEF d
<1>4. Built(DragFlushed(d)) /\ Size(DragFlushed(d)) = Size(d)
  BY <1>3, DragFlushedBuilt
<1>5. Size(b) \in Nat /\ Size(c) \in Nat /\ Size(d) \in Nat
  BY <1>2, <1>3, SizeIsNat
<1>6. CASE b.drag = {}
  BY <1>1, <1>6 DEF Release, c
<1>7. CASE b.drag # {}
  <2>1. Release(b, n) = DragFlushed(d)
    BY <1>7 DEF Release, c, d
  <2> QED BY <1>2, <1>3, <1>4, <1>5, <2>1 DEF Grows
<1> QED BY <1>6, <1>7

\* A notch joins the last scroll, or is a new one that is remembered.
LEMMA WheelGrows ==
  ASSUME NEW b, Built(b), NEW n \in Nat, NEW late \in BOOLEAN
  PROVE  Grows(b, Wheel(b, n, late))
<1> DEFINE c == TypingFlushed(b)
           joined == [c EXCEPT !.steps[c.scroll].from = @ \cup {n}]
           g == Grown(c, Step("scroll", {n}))
           last == Len(c.steps) + 1
           new == [g EXCEPT !.scroll = last]
<1>1. Built(c) /\ Size(c) = Size(b) /\ Size(c) \in Nat
  BY TypingFlushedBuilt, SizeIsNat
<1>2. Wheel(b, n, late) = IF c.scroll # 0 /\ ~late /\ c.steps[c.scroll].action = "scroll"
                          THEN joined ELSE new
  BY DEF Wheel
<1> HIDE DEF c
<1>3. ASSUME c.scroll # 0 PROVE Grows(c, joined)
  <2> DEFINE step == [c.steps[c.scroll] EXCEPT !.from = @ \cup {n}]
             steps == [c.steps EXCEPT ![c.scroll] = step]
  <2>1. c.scroll \in 1 .. Len(c.steps) /\ c.steps \in Seq(StepType)
        /\ c.steps[c.scroll].action = "scroll"
    BY <1>1, <1>3 DEF Built, BuildType
  <2>2. c.steps[c.scroll] \in StepType
    BY <2>1
  <2>3. step \in StepType /\ step.action = "scroll"
    BY <2>1, <2>2 DEF StepType
  <2>4. joined = [c EXCEPT !.steps = steps]
    OBVIOUS
  <2> HIDE DEF step
  <2>5. steps \in Seq(StepType) /\ Len(steps) = Len(c.steps) /\ steps[c.scroll].action = "scroll"
    BY <2>1, <2>3
  <2> HIDE DEF steps, joined
  <2>6. /\ joined \in BuildType /\ joined.steps = steps /\ joined.scroll = c.scroll
        /\ joined.typing = c.typing /\ joined.imeActive = c.imeActive /\ joined.drag = c.drag
    BY <1>1, <2>4, <2>5 DEF Built, BuildType
  <2>7. Built(joined)
    BY <2>1, <2>5, <2>6 DEF Built
  <2>8. Len(joined.steps) = Len(c.steps) /\ Held(joined.typing) = Held(c.typing)
        /\ Running(joined) = Running(c) /\ Held(joined.drag) = Held(c.drag)
    BY <2>5, <2>6 DEF Running
  <2>9. Size(joined) = Size(c)
    BY <2>8 DEF Size
  <2> QED BY <1>1, <2>7, <2>9 DEF Grows
<1>4. Grows(c, new)
  <2>1. /\ Built(g) /\ Len(g.steps) = Len(c.steps) + 1
        /\ g.steps[Len(c.steps) + 1] = Step("scroll", {n})
        /\ Grows(c, g)
    BY <1>1, GrownBuilt, GrownGrows, StepsAreTyped DEF Actions
  <2>0. last \in Nat /\ last = Len(c.steps) + 1
    BY <1>1 DEF Built, BuildType
  <2> HIDE DEF g, last
  <2>2. /\ new \in BuildType /\ new.steps = g.steps /\ new.scroll = last
        /\ new.typing = g.typing /\ new.imeActive = g.imeActive /\ new.drag = g.drag
    BY <2>0, <2>1 DEF Built, BuildType
  <2> HIDE DEF new
  <2>3. new.scroll \in 1 .. Len(new.steps) /\ new.steps[new.scroll].action = "scroll"
    BY <1>1, <2>0, <2>1, <2>2 DEF Built, BuildType, Step
  <2>4. Built(new)
    BY <2>2, <2>3 DEF Built
  <2>5. Len(new.steps) = Len(g.steps) /\ Held(new.typing) = Held(g.typing)
        /\ Running(new) = Running(g) /\ Held(new.drag) = Held(g.drag)
    BY <2>2 DEF Running
  <2>6. Size(new) = Size(g)
    BY <2>5 DEF Size
  <2> QED BY <2>1, <2>4, <2>6 DEF Grows
<1> HIDE DEF joined, new
<1> QED BY <1>1, <1>2, <1>3, <1>4 DEF Grows

\* No event makes the list of steps shorter: what was published under a number
\* keeps it.
THEOREM EveryEventGrows ==
  ASSUME NEW b, Built(b), NEW n \in Nat, NEW kind \in Kinds
  PROVE  Built(Consume(b, n, kind)) /\ Len(Ending(b)) <= Len(Ending(Consume(b, n, kind)))
<1>1. Grows(b, Consume(b, n, kind))
  <2>1. CASE kind = "key_late"
    <3>1. Consume(b, n, kind) = Key(b, n, TRUE)
      BY <2>1 DEF Consume, IsKey, IsWheel
    <3> QED BY <3>1, KeyGrows
  <2>0. CASE kind = "key"
    <3>1. Consume(b, n, kind) = Key(b, n, FALSE)
      BY <2>0 DEF Consume, IsKey, IsWheel
    <3> QED BY <3>1, KeyGrows
  <2>2. CASE IsWheel(kind)
    BY <2>2, WheelGrows DEF Consume, IsKey, IsWheel
  <2>3. CASE kind = "press"
    BY <2>3, PressGrows DEF Consume, IsKey, IsWheel
  <2>4. CASE kind = "move"
    BY <2>4, MoveGrows DEF Consume, IsKey, IsWheel
  <2>5. CASE kind = "release"
    BY <2>5, ReleaseGrows DEF Consume, IsKey, IsWheel
  <2>6. CASE kind = "special"
    BY <2>6, SpecialGrows DEF Consume, IsKey, IsWheel
  <2>7. CASE kind = "shortcut"
    BY <2>7, SpecialGrows DEF Consume, IsKey, IsWheel
  <2>8. CASE kind = "ime_key"
    BY <2>8, ImeGrows DEF Consume, IsKey, IsWheel
  <2>9. CASE kind = "ime_shortcut"
    BY <2>9, ImeGrows DEF Consume, IsKey, IsWheel
  <2>10. CASE kind = "key_up"
    <3>1. Consume(b, n, kind) = ImeFlushed(b)
      BY <2>10 DEF Consume, IsKey, IsWheel
    <3>2. Built(ImeFlushed(b)) /\ Size(ImeFlushed(b)) = Size(b) /\ Size(b) \in Nat
      BY ImeFlushedBuilt, SizeIsNat
    <3>3. Grows(b, ImeFlushed(b))
      BY <3>2 DEF Grows
    <3> QED BY <3>1, <3>3
  <2> QED
    BY <2>0, <2>1, <2>2, <2>3, <2>4, <2>5, <2>6, <2>7, <2>8, <2>9, <2>10
    DEF Kinds, IsKey, IsWheel
<1> QED BY <1>1, EndingLength DEF Grows

-----------------------------------------------------------------------------
(* The session. *)

\* The threads' places can be read off their records.
Shapes == DOMAIN hook = {"pc", "batch"} /\ DOMAIN sampler = {"pc", "batch"}

\* A reading that is owed has its wake-up pending, or the sampler is about to read
\* or has ended: clearing the event is followed by a reading.
OwedInv == Shapes /\ (owed => wake \/ sampler.pc \in {"loop", "ended"})

LEMMA OwedKept == OwedInv /\ [Next]_vars => OwedInv'
<1> SUFFICES ASSUME OwedInv, [Next]_vars PROVE OwedInv'
  OBVIOUS
<1> USE DEF OwedInv, Shapes
<1>1. ASSUME NEW kind, Capture(kind) PROVE OwedInv'
  BY <1>1 DEF Capture
<1>2. CASE HookStarts \/ HookPublishes \/ HookPrints \/ HookEnds
  BY <1>2 DEF HookStarts, HookPublishes, HookPrints, HookEnds
<1>3. CASE HotkeyPressed \/ GapPasses
  BY <1>3 DEF HotkeyPressed, GapPasses
<1>4. CASE SamplerBegins
  BY <1>4 DEF SamplerBegins
<1>5. CASE SamplerReads
  BY <1>5 DEF SamplerReads
<1>6. CASE SamplerPublishes
  BY <1>6 DEF SamplerPublishes
<1>7. CASE SamplerPrints
  BY <1>7 DEF SamplerPrints
<1>8. CASE SamplerWakes
  BY <1>8 DEF SamplerWakes
<1>9. CASE SamplerClears
  BY <1>9 DEF SamplerClears
<1>10. CASE StopRequested \/ HookJoined \/ HookGivenUp \/ SamplerJoined \/ StopSaves
  BY <1>10 DEF StopRequested, HookJoined, HookGivenUp, SamplerJoined, StopSaves
<1>11. CASE UNCHANGED vars
  BY <1>11 DEF vars
<1> HIDE DEF OwedInv
<1> QED
  BY <1>1, <1>2, <1>3, <1>4, <1>5, <1>6, <1>7, <1>8, <1>9, <1>10, <1>11
  DEF Next, HookStep, SamplerStep, MainStep

\* An action that asked for a fresh reading is not left waiting out the
\* sampler's interval.
THEOREM WakeNotLostHolds == Spec => []WakeNotLost
<1>1. Init => OwedInv
  BY DEF Init, OwedInv, Shapes
<1>2. OwedInv => WakeNotLost
  BY DEF OwedInv, WakeNotLost
<1> QED BY <1>1, <1>2, OwedKept, PTL DEF Spec

-----------------------------------------------------------------------------

\* How often a number occurs in a list.
LEMMA OccurrencesAreNat == \A s \in Seq(Nat) : \A n \in Nat : Occurrences(n, s) \in Nat
<1> SUFFICES ASSUME NEW s \in Seq(Nat), NEW n \in Nat PROVE Occurrences(n, s) \in Nat
  OBVIOUS
<1>1. DOMAIN s = 1 .. Len(s) /\ Len(s) \in Nat
  OBVIOUS
<1>2. IsFiniteSet(1 .. Len(s))
  BY <1>1, FS_Interval
<1>3. {i \in DOMAIN s : s[i] = n} \in SUBSET (1 .. Len(s))
  BY <1>1
<1>4. IsFiniteSet({i \in DOMAIN s : s[i] = n})
  BY <1>2, <1>3, FS_Subset
<1> QED BY <1>4, FS_CardinalityType DEF Occurrences

LEMMA NothingHasNone == \A n : Occurrences(n, Nothing) = 0
<1> SUFFICES ASSUME NEW n PROVE Occurrences(n, Nothing) = 0
  OBVIOUS
<1>1. {i \in DOMAIN Nothing : Nothing[i] = n} = {}
  BY DEF Nothing
<1> QED BY <1>1, FS_EmptySet DEF Occurrences

\* What is taken as new names each position once.
LEMMA TakenOnce ==
  \A lo, hi \in Nat : lo <= hi =>
    /\ Positions(lo, hi) \in Seq(Nat)
    /\ \A n \in Nat : Occurrences(n, Positions(lo, hi)) = IF lo < n /\ n <= hi THEN 1 ELSE 0
<1> SUFFICES ASSUME NEW lo \in Nat, NEW hi \in Nat, lo <= hi
             PROVE  /\ Positions(lo, hi) \in Seq(Nat)
                    /\ \A n \in Nat : Occurrences(n, Positions(lo, hi))
                                        = IF lo < n /\ n <= hi THEN 1 ELSE 0
  OBVIOUS
<1> DEFINE s == Positions(lo, hi)
<1>1. hi - lo \in Nat
  OBVIOUS
<1>2. DOMAIN s = 1 .. (hi - lo) /\ \A i \in 1 .. (hi - lo) : s[i] = lo + i
  BY DEF Positions
<1>3. s \in Seq(Nat)
  BY <1>1 DEF Positions
<1>4. ASSUME NEW n \in Nat
      PROVE  Occurrences(n, s) = IF lo < n /\ n <= hi THEN 1 ELSE 0
  <2> DEFINE places == {i \in DOMAIN s : s[i] = n}
  <2> HIDE DEF s
  <2>1. CASE lo < n /\ n <= hi
    <3>1. n - lo \in 1 .. (hi - lo) /\ lo + (n - lo) = n
      BY <2>1
    <3>2. \A i \in 1 .. (hi - lo) : lo + i = n <=> i = n - lo
      OBVIOUS
    <3>3. places = {n - lo}
      BY <1>2, <3>1, <3>2
    <3> QED BY <2>1, <3>3, FS_Singleton DEF Occurrences
  <2>2. CASE ~(lo < n /\ n <= hi)
    <3>1. \A i \in 1 .. (hi - lo) : lo + i # n
      BY <2>2
    <3>2. places = {}
      BY <1>2, <3>1
    <3> QED BY <2>2, <3>2, FS_EmptySet DEF Occurrences
  <2> QED BY <2>1, <2>2
<1> QED BY <1>3, <1>4

Places == {"loop", "publish", "print", "reading", "wait", "clear", "ended",
           "starting"}
ThreadType == [pc : Places, batch : Seq(Nat)]

\* A thread has something to print only between taking it and printing it; and
\* nothing was published under a number the list does not reach any more.
LiveTypes ==
  /\ events \in Seq(Kinds)
  /\ Built(pass)
  /\ hook \in ThreadType /\ (hook.pc # "print" => hook.batch = Nothing)
  /\ sampler \in ThreadType /\ (sampler.pc # "print" => sampler.batch = Nothing)
  /\ published \in Nat /\ published <= Len(Ending(pass))
  /\ screen \in [1 .. MaxEvents -> Nat]

LiveInv == LiveTypes /\ LiveExactlyOnce

LEMMA PassGrows ==
  \A b, n, kind : (Built(b) /\ n \in Nat /\ kind \in Kinds) =>
    /\ Built(Consume(b, n, kind))
    /\ Len(Ending(b)) \in Nat /\ Len(Ending(Consume(b, n, kind))) \in Nat
    /\ Len(Ending(b)) <= Len(Ending(Consume(b, n, kind)))
<1> SUFFICES ASSUME NEW b, NEW n, NEW kind, Built(b), n \in Nat, kind \in Kinds
             PROVE  /\ Built(Consume(b, n, kind))
                    /\ Len(Ending(b)) \in Nat /\ Len(Ending(Consume(b, n, kind))) \in Nat
                    /\ Len(Ending(b)) <= Len(Ending(Consume(b, n, kind)))
  OBVIOUS
<1> DEFINE c == Consume(b, n, kind)
<1>1. Built(c) /\ Len(Ending(b)) <= Len(Ending(c))
  BY EveryEventGrows
<1> HIDE DEF c
<1>2. Len(Ending(b)) \in Nat /\ Len(Ending(c)) \in Nat
  BY <1>1, EndingLength, SizeIsNat
<1> QED BY <1>1, <1>2 DEF c

LEMMA EndingIsNat == \A b : Built(b) => Len(Ending(b)) \in Nat
BY EndingLength, SizeIsNat

LEMMA LiveInit == Init => LiveInv
<1> SUFFICES ASSUME Init PROVE LiveInv
  OBVIOUS
<1>1. Built(pass) /\ Len(Ending(pass)) = 0
  BY NoStepsBuilt, EndingLength DEF Init
<1>2. Nothing \in Seq(Nat)
  BY DEF Nothing
<1>3. hook \in ThreadType /\ sampler \in ThreadType /\ hook.batch = Nothing
      /\ sampler.batch = Nothing /\ published = 0 /\ events \in Seq(Kinds)
  BY <1>2 DEF Init, ThreadType, Places
<1>4. screen \in [1 .. MaxEvents -> Nat] /\ \A n \in 1 .. MaxEvents : screen[n] = 0
  BY DEF Init
<1>5. LiveExactlyOnce
  <2> SUFFICES ASSUME NEW n \in 1 .. MaxEvents
               PROVE  screen[n] + Occurrences(n, hook.batch) + Occurrences(n, sampler.batch)
                        = IF n <= published THEN 1 ELSE 0
    BY DEF LiveExactlyOnce
  <2>1. n \in Nat /\ ~(n <= published)
    BY <1>3, RecordingAssumption
  <2>2. Occurrences(n, hook.batch) = 0 /\ Occurrences(n, sampler.batch) = 0
    BY <1>3, NothingHasNone
  <2> QED BY <1>4, <2>1, <2>2
<1> QED BY <1>1, <1>3, <1>4, <1>5 DEF LiveInv, LiveTypes

\* A step that leaves the printed, the published and the batches alone, and does
\* not shorten the list.
LEMMA LiveUntouched ==
  ASSUME LiveInv, LiveTypes', UNCHANGED <<published, screen>>,
         hook'.batch = hook.batch, sampler'.batch = sampler.batch
  PROVE  LiveInv'
BY DEF LiveInv, LiveExactlyOnce

\* Taking the new positions moves them from nowhere into one thread's hands.
LEMMA LiveTaken ==
  \A n \in 1 .. MaxEvents : \A old, new \in Nat :
    (old <= new) =>
      (IF n <= old THEN 1 ELSE 0) + Occurrences(n, Positions(old, new))
        = IF n <= new THEN 1 ELSE 0
<1> SUFFICES ASSUME NEW n \in 1 .. MaxEvents, NEW old \in Nat, NEW new \in Nat, old <= new
             PROVE  (IF n <= old THEN 1 ELSE 0) + Occurrences(n, Positions(old, new))
                      = IF n <= new THEN 1 ELSE 0
  OBVIOUS
<1>1. n \in Nat
  BY RecordingAssumption
<1>2. Occurrences(n, Positions(old, new)) = IF old < n /\ n <= new THEN 1 ELSE 0
  BY <1>1, TakenOnce
<1> QED BY <1>1, <1>2

LEMMA LiveKept == LiveInv /\ [Next]_vars => LiveInv'
<1> SUFFICES ASSUME LiveInv, [Next]_vars PROVE LiveInv'
  OBVIOUS
<1>0. LiveTypes /\ LiveExactlyOnce
  BY DEF LiveInv
<1>a. DOMAIN hook = {"pc", "batch"} /\ DOMAIN sampler = {"pc", "batch"}
  BY <1>0 DEF LiveTypes, ThreadType
<1>b. Len(Ending(pass)) \in Nat
  BY <1>0, EndingIsNat DEF LiveTypes
<1>c. \A n \in 1 .. MaxEvents :
        /\ n \in Nat
        /\ Occurrences(n, hook.batch) \in Nat /\ Occurrences(n, sampler.batch) \in Nat
        /\ Occurrences(n, Nothing) = 0
        /\ screen[n] \in Nat
  <2>1. \A n \in 1 .. MaxEvents : n \in Nat
    BY RecordingAssumption
  <2>2. hook.batch \in Seq(Nat) /\ sampler.batch \in Seq(Nat)
        /\ screen \in [1 .. MaxEvents -> Nat]
    BY <1>0 DEF LiveTypes, ThreadType
  <2> QED BY <2>1, <2>2, OccurrencesAreNat, NothingHasNone
<1>d. Nothing \in Seq(Nat)
  BY DEF Nothing
<1>1. ASSUME NEW kind \in Kinds, Capture(kind) PROVE LiveInv'
  <2>1. Len(events) + 1 \in Nat /\ events' \in Seq(Kinds)
    BY <1>0, <1>1 DEF Capture, LiveTypes
  <2>2. pass' = Consume(pass, Len(events) + 1, kind)
    BY <1>1 DEF Capture
  <2>3. Built(pass') /\ Len(Ending(pass)) <= Len(Ending(pass')) /\ Len(Ending(pass')) \in Nat
    BY <1>0, <2>1, <2>2, PassGrows DEF LiveTypes
  <2>4. /\ hook' \in ThreadType /\ hook'.batch = hook.batch /\ hook.batch = Nothing
        /\ UNCHANGED <<sampler, published, screen>>
    BY <1>0, <1>1 DEF Capture, LiveTypes, ThreadType, Places
  <2>5. published' <= Len(Ending(pass'))
    BY <1>0, <1>b, <2>3, <2>4 DEF LiveTypes
  <2>6. LiveTypes'
    BY <1>0, <2>1, <2>3, <2>4, <2>5 DEF LiveTypes
  <2> QED BY <2>4, <2>6, LiveUntouched
<1>2. CASE HookPublishes
  <2>1. /\ hook' = [pc |-> "print", batch |-> Positions(published, Len(Ending(pass)))]
        /\ published' = Len(Ending(pass)) /\ hook.batch = Nothing
        /\ UNCHANGED <<events, pass, sampler, screen>>
    BY <1>0, <1>2 DEF HookPublishes, Publish, LiveTypes
  <2>2. Positions(published, Len(Ending(pass))) \in Seq(Nat)
    BY <1>0, <1>b, TakenOnce DEF LiveTypes
  <2>3. hook' \in ThreadType /\ hook'.pc = "print"
    BY <2>1, <2>2 DEF ThreadType, Places
  <2>4. LiveTypes'
    BY <1>0, <1>b, <2>1, <2>3 DEF LiveTypes
  <2>5. ASSUME NEW n \in 1 .. MaxEvents
        PROVE  (screen[n] + Occurrences(n, hook.batch) + Occurrences(n, sampler.batch)
                  = IF n <= published THEN 1 ELSE 0)'
    <3>1. screen[n] + Occurrences(n, sampler.batch) = IF n <= published THEN 1 ELSE 0
      BY <1>0, <1>c, <2>1 DEF LiveExactlyOnce
    <3>2. (IF n <= published THEN 1 ELSE 0) + Occurrences(n, hook'.batch)
            = IF n <= published' THEN 1 ELSE 0
      BY <1>0, <1>b, <2>1, LiveTaken DEF LiveTypes
    <3>3. Occurrences(n, hook'.batch) \in Nat
      BY <1>c, <2>3, OccurrencesAreNat DEF ThreadType
    <3>4. screen' = screen /\ sampler' = sampler
      BY <2>1
    <3> QED BY <1>c, <3>1, <3>2, <3>3, <3>4
  <2> QED BY <2>4, <2>5 DEF LiveInv, LiveExactlyOnce
<1>3. CASE SamplerPublishes
  <2>1. /\ sampler' = [pc |-> "print", batch |-> Positions(published, Len(Ending(pass)))]
        /\ published' = Len(Ending(pass)) /\ sampler.batch = Nothing
        /\ UNCHANGED <<events, pass, hook, screen>>
    BY <1>0, <1>3 DEF SamplerPublishes, Publish, LiveTypes
  <2>2. Positions(published, Len(Ending(pass))) \in Seq(Nat)
    BY <1>0, <1>b, TakenOnce DEF LiveTypes
  <2>3. sampler' \in ThreadType /\ sampler'.pc = "print"
    BY <2>1, <2>2 DEF ThreadType, Places
  <2>4. LiveTypes'
    BY <1>0, <1>b, <2>1, <2>3 DEF LiveTypes
  <2>5. ASSUME NEW n \in 1 .. MaxEvents
        PROVE  (screen[n] + Occurrences(n, hook.batch) + Occurrences(n, sampler.batch)
                  = IF n <= published THEN 1 ELSE 0)'
    <3>1. screen[n] + Occurrences(n, hook.batch) = IF n <= published THEN 1 ELSE 0
      BY <1>0, <1>c, <2>1 DEF LiveExactlyOnce
    <3>2. (IF n <= published THEN 1 ELSE 0) + Occurrences(n, sampler'.batch)
            = IF n <= published' THEN 1 ELSE 0
      BY <1>0, <1>b, <2>1, LiveTaken DEF LiveTypes
    <3>3. Occurrences(n, sampler'.batch) \in Nat
      BY <1>c, <2>3, OccurrencesAreNat DEF ThreadType
    <3>4. screen' = screen /\ hook' = hook
      BY <2>1
    <3> QED BY <1>c, <3>1, <3>2, <3>3, <3>4
  <2> QED BY <2>4, <2>5 DEF LiveInv, LiveExactlyOnce
<1>4. CASE HookPrints
  <2>1. /\ hook' = [pc |-> "loop", batch |-> Nothing]
        /\ screen' = Printed(hook.batch)
        /\ UNCHANGED <<events, pass, published, sampler>>
    BY <1>4 DEF HookPrints
  <2>2. \A n \in 1 .. MaxEvents : screen'[n] = screen[n] + Occurrences(n, hook.batch)
    BY <1>0, <2>1 DEF Printed, LiveTypes
  <2>3. screen' \in [1 .. MaxEvents -> Nat]
    BY <1>0, <1>c, <2>1 DEF Printed, LiveTypes
  <2>4. LiveTypes'
    BY <1>0, <1>d, <2>1, <2>3 DEF LiveTypes, ThreadType, Places
  <2>5. LiveExactlyOnce'
    BY <1>0, <1>c, <2>1, <2>2 DEF LiveExactlyOnce
  <2> QED BY <2>4, <2>5 DEF LiveInv
<1>5. CASE SamplerPrints
  <2>1. /\ sampler' = [pc |-> "wait", batch |-> Nothing]
        /\ screen' = Printed(sampler.batch)
        /\ UNCHANGED <<events, pass, published, hook>>
    BY <1>5 DEF SamplerPrints
  <2>2. \A n \in 1 .. MaxEvents : screen'[n] = screen[n] + Occurrences(n, sampler.batch)
    BY <1>0, <2>1 DEF Printed, LiveTypes
  <2>3. screen' \in [1 .. MaxEvents -> Nat]
    BY <1>0, <1>c, <2>1 DEF Printed, LiveTypes
  <2>4. LiveTypes'
    BY <1>0, <1>d, <2>1, <2>3 DEF LiveTypes, ThreadType, Places
  <2>5. LiveExactlyOnce'
    BY <1>0, <1>c, <2>1, <2>2 DEF LiveExactlyOnce
  <2> QED BY <2>4, <2>5 DEF LiveInv
<1>6. CASE HookStarts \/ HookEnds
  <2>1. hook' \in ThreadType /\ hook'.batch = hook.batch /\ hook.batch = Nothing
        /\ UNCHANGED <<events, pass, published, sampler, screen>>
    BY <1>0, <1>6 DEF HookStarts, HookEnds, LiveTypes, ThreadType, Places
  <2>2. LiveTypes'
    BY <1>0, <2>1 DEF LiveTypes
  <2> QED BY <2>1, <2>2, LiveUntouched
<1>7. CASE SamplerBegins \/ SamplerReads \/ SamplerWakes \/ SamplerClears
  <2>1. sampler' \in ThreadType /\ sampler'.batch = sampler.batch /\ sampler.batch = Nothing
        /\ UNCHANGED <<events, pass, published, hook, screen>>
    BY <1>0, <1>7 DEF SamplerBegins, SamplerReads, SamplerWakes, SamplerClears, LiveTypes,
                      ThreadType, Places
  <2>2. LiveTypes'
    BY <1>0, <2>1 DEF LiveTypes
  <2> QED BY <2>1, <2>2, LiveUntouched
<1>8. CASE HotkeyPressed \/ GapPasses \/ StopRequested \/ HookJoined \/ HookGivenUp
             \/ SamplerJoined \/ StopSaves \/ UNCHANGED vars
  <2>1. UNCHANGED <<events, pass, published, hook, sampler, screen>>
    BY <1>8 DEF HotkeyPressed, GapPasses, StopRequested, HookJoined, HookGivenUp,
                SamplerJoined, StopSaves, vars
  <2>2. LiveTypes'
    BY <1>0, <2>1 DEF LiveTypes
  <2> QED BY <2>1, <2>2, LiveUntouched
<1> QED
  BY <1>1, <1>2, <1>3, <1>4, <1>5, <1>6, <1>7, <1>8 DEF Next, HookStep, SamplerStep, MainStep

\* Live feedback prints every step exactly once, whichever thread takes it and
\* whatever later events turn earlier steps into.
THEOREM LiveExactlyOnceHolds == Spec => []LiveExactlyOnce
<1>1. LiveInv => LiveExactlyOnce
  BY DEF LiveInv
<1> QED BY <1>1, LiveInit, LiveKept, PTL DEF Spec

-----------------------------------------------------------------------------
(* Where an event went: into a step, or into something held back. *)

InSteps(s, n) == \E i \in DOMAIN s : n \in s[i].from
Single(s, n) == \A i, j \in DOMAIN s : n \in s[i].from /\ n \in s[j].from => i = j

\* The event is in a step, or in what becomes one when the events end here.
Used(b, n) ==
  InSteps(b.steps, n) \/ n \in b.typing \/ n \in b.drag \/ (b.imeActive /\ n \in b.ime)
\* It is that, or kept for an input method's session that may come.
Seen(b, n) == Used(b, n) \/ n \in b.ime

Once(b, n) ==
  /\ Single(b.steps, n)
  /\ ~(InSteps(b.steps, n) /\ n \in b.typing) /\ ~(InSteps(b.steps, n) /\ n \in b.ime)
  /\ ~(InSteps(b.steps, n) /\ n \in b.drag)
  /\ ~(n \in b.typing /\ n \in b.ime) /\ ~(n \in b.typing /\ n \in b.drag)
  /\ ~(n \in b.ime /\ n \in b.drag)

\* Nothing got lost or doubled on the way from b to c ...
Same(b, c) ==
  \A n \in Nat : /\ Once(b, n) => Once(c, n)
                 /\ Used(b, n) <=> Used(c, n)
                 /\ Seen(b, n) <=> Seen(c, n)
\* ... to which the event m may have been added.
Takes(b, c, m) ==
  \A n \in Nat : /\ Once(b, n) /\ (n = m => ~Seen(b, n)) => Once(c, n)
                 /\ Used(b, n) => Used(c, n)
                 /\ Seen(c, n) => Seen(b, n) \/ n = m

\* A step at the end of the list adds its events to those in the list.
LEMMA AppendFrom ==
  ASSUME NEW s \in Seq(StepType), NEW step \in StepType, NEW n
  PROVE  /\ InSteps(Append(s, step), n) <=> InSteps(s, n) \/ n \in step.from
         /\ Single(s, n) /\ ~(InSteps(s, n) /\ n \in step.from) => Single(Append(s, step), n)
<1> DEFINE t == Append(s, step)
           last == Len(s) + 1
<1>1. /\ t[last] = step /\ \A i \in 1 .. Len(s) : t[i] = s[i]
  OBVIOUS
<1>2. /\ DOMAIN s = 1 .. Len(s) /\ DOMAIN t = 1 .. Len(s) + 1 /\ Len(s) \in Nat
  OBVIOUS
<1>3. DOMAIN t = DOMAIN s \cup {last} /\ last \notin DOMAIN s
  BY <1>2
<1>4. \A i \in DOMAIN s : t[i] = s[i]
  BY <1>1, <1>2
<1> HIDE DEF t, last
<1>5. InSteps(t, n) <=> InSteps(s, n) \/ n \in step.from
  BY <1>1, <1>3, <1>4 DEF InSteps
<1>6. Single(s, n) /\ ~(InSteps(s, n) /\ n \in step.from) => Single(t, n)
  BY <1>1, <1>3, <1>4 DEF InSteps, Single
<1>7. QED
  BY <1>5, <1>6 DEF t

\* Taking the last step away takes its events away.
LEMMA FrontFrom ==
  ASSUME NEW s \in Seq(StepType), s # <<>>, NEW n
  PROVE  /\ InSteps(s, n) <=> InSteps(Front(s), n) \/ n \in Last(s).from
         /\ Single(s, n) => Single(Front(s), n) /\ ~(InSteps(Front(s), n) /\ n \in Last(s).from)
<1> DEFINE t == Front(s)
           last == Len(s)
<1>1. last \in Nat \ {0} /\ DOMAIN s = 1 .. last
  OBVIOUS
<1>2. /\ t \in Seq(StepType) /\ Len(t) = last - 1
      /\ \A i \in 1 .. last - 1 : t[i] = s[i]
  BY <1>1 DEF Front
<1>3. Last(s) = s[last]
  BY DEF Last
<1> HIDE DEF t, last
<1>4. DOMAIN t = 1 .. last - 1
  BY <1>1, <1>2
<1>5. DOMAIN s = DOMAIN t \cup {last} /\ last \notin DOMAIN t
  BY <1>1, <1>4
<1>6. \A i \in DOMAIN t : t[i] = s[i]
  BY <1>2, <1>4
<1>7. InSteps(s, n) <=> InSteps(t, n) \/ n \in s[last].from
  BY <1>5, <1>6 DEF InSteps
<1>8. Single(s, n) => Single(t, n) /\ ~(InSteps(t, n) /\ n \in s[last].from)
  BY <1>5, <1>6 DEF InSteps, Single
<1>9. QED
  BY <1>3, <1>7, <1>8 DEF t

\* A step that takes an event.
LEMMA GrownFrom ==
  ASSUME NEW s \in Seq(StepType), NEW k \in DOMAIN s, NEW t, DOMAIN t = DOMAIN s,
         NEW m, t[k].from = s[k].from \cup {m}, \A i \in DOMAIN s : i # k => t[i] = s[i], NEW n
  PROVE  /\ InSteps(t, n) <=> InSteps(s, n) \/ n = m
         /\ Single(s, n) /\ (n = m => ~InSteps(s, n)) => Single(t, n)
<1>1. InSteps(t, n) <=> InSteps(s, n) \/ n = m
  BY DEF InSteps
<1>2. Single(s, n) /\ (n = m => ~InSteps(s, n)) => Single(t, n)
  BY DEF InSteps, Single
<1>3. QED
  BY <1>1, <1>2

\* Ending a text puts its events into one step.
LEMMA TypingFlushedSame ==
  ASSUME NEW b, Built(b)
  PROVE  Same(b, TypingFlushed(b))
<1> DEFINE c == TypingFlushed(b)
           step == Step("type_text", b.typing)
<1>1. CASE b.typing = {}
  BY <1>1 DEF TypingFlushed, Same
<1>2. CASE b.typing # {}
  <2>1. /\ c.steps = Append(b.steps, step) /\ c.typing = {} /\ c.drag = b.drag
        /\ c.imeActive = b.imeActive /\ c.ime = b.ime
    BY <1>2 DEF TypingFlushed, Grown, Built, BuildType
  <2>2. b.steps \in Seq(StepType) /\ step \in StepType /\ step.from = b.typing
    BY DEF Step, StepType, Actions, Built, BuildType
  <2> HIDE DEF c, step
  <2>3. ASSUME NEW n \in Nat
        PROVE  /\ Once(b, n) => Once(c, n)
               /\ Used(b, n) <=> Used(c, n)
               /\ Seen(b, n) <=> Seen(c, n)
    <3>1. /\ InSteps(c.steps, n) <=> InSteps(b.steps, n) \/ n \in b.typing
          /\ Single(b.steps, n) /\ ~(InSteps(b.steps, n) /\ n \in b.typing) => Single(c.steps, n)
      BY <2>1, <2>2, AppendFrom
    <3>2. QED
      BY <2>1, <3>1 DEF Once, Used, Seen
  <2>4. QED
    BY <2>3 DEF Same, c
<1>3. QED
  BY <1>1, <1>2

\* So does ending a drag ...
LEMMA DragFlushedSame ==
  ASSUME NEW b, Built(b)
  PROVE  Same(b, DragFlushed(b))
<1> DEFINE c == DragFlushed(b)
           step == Step("drag", b.drag)
<1>1. CASE b.drag = {}
  BY <1>1 DEF DragFlushed, Same
<1>2. CASE b.drag # {}
  <2>1. /\ c.steps = Append(b.steps, step) /\ c.drag = {} /\ c.typing = b.typing
        /\ c.imeActive = b.imeActive /\ c.ime = b.ime
    BY <1>2 DEF DragFlushed, Grown, Built, BuildType
  <2>2. b.steps \in Seq(StepType) /\ step \in StepType /\ step.from = b.drag
    BY DEF Step, StepType, Actions, Built, BuildType
  <2> HIDE DEF c, step
  <2>3. ASSUME NEW n \in Nat
        PROVE  /\ Once(b, n) => Once(c, n)
               /\ Used(b, n) <=> Used(c, n)
               /\ Seen(b, n) <=> Seen(c, n)
    <3>1. /\ InSteps(c.steps, n) <=> InSteps(b.steps, n) \/ n \in b.drag
          /\ Single(b.steps, n) /\ ~(InSteps(b.steps, n) /\ n \in b.drag) => Single(c.steps, n)
      BY <2>1, <2>2, AppendFrom
    <3>2. QED
      BY <2>1, <3>1 DEF Once, Used, Seen
  <2>4. QED
    BY <2>3 DEF Same, c
<1>3. QED
  BY <1>1, <1>2

\* ... and ending an input method's session; without one its keys stay.
LEMMA ImeFlushedSame ==
  ASSUME NEW b, Built(b)
  PROVE  Same(b, ImeFlushed(b))
<1> DEFINE c == ImeFlushed(b)
           step == Step("type_text", b.ime)
<1>0. b.imeActive \in BOOLEAN
  BY DEF Built, BuildType
<1>1. CASE b.imeActive = FALSE
  BY <1>1 DEF ImeFlushed, Same
<1>2. CASE b.imeActive = TRUE
  <2>1. /\ c.steps = Append(b.steps, step) /\ c.typing = b.typing /\ c.drag = b.drag
        /\ c.imeActive = FALSE /\ c.ime = {}
    BY <1>2 DEF ImeFlushed, Grown, Built, BuildType
  <2>2. b.steps \in Seq(StepType) /\ step \in StepType /\ step.from = b.ime
    BY DEF Step, StepType, Actions, Built, BuildType
  <2> HIDE DEF c, step
  <2>3. ASSUME NEW n \in Nat
        PROVE  /\ Once(b, n) => Once(c, n)
               /\ Used(b, n) <=> Used(c, n)
               /\ Seen(b, n) <=> Seen(c, n)
    <3>1. /\ InSteps(c.steps, n) <=> InSteps(b.steps, n) \/ n \in b.ime
          /\ Single(b.steps, n) /\ ~(InSteps(b.steps, n) /\ n \in b.ime) => Single(c.steps, n)
      BY <2>1, <2>2, AppendFrom
    <3>2. QED
      BY <1>2, <2>1, <3>1 DEF Once, Used, Seen
  <2>4. QED
    BY <2>3 DEF Same, c
<1>3. QED
  BY <1>0, <1>1, <1>2

\* The relations compose.
LEMMA SameThenTakes ==
  ASSUME NEW a, NEW b, NEW c, NEW m, Same(a, b), Takes(b, c, m)
  PROVE  Takes(a, c, m)
BY DEF Same, Takes

\* They do, without an event between them.
LEMMA SameThenSame ==
  ASSUME NEW a, NEW b, NEW c, Same(a, b), Same(b, c)
  PROVE  Same(a, c)
BY DEF Same

\* A new step for one event.
LEMMA GrownTakes ==
  ASSUME NEW b, Built(b), NEW m \in Nat, NEW action \in Actions
  PROVE  Takes(b, Grown(b, Step(action, {m})), m) /\ Used(Grown(b, Step(action, {m})), m)
<1> DEFINE step == Step(action, {m})
           c == Grown(b, step)
<1>1. /\ c.steps = Append(b.steps, step) /\ c.typing = b.typing /\ c.drag = b.drag
      /\ c.imeActive = b.imeActive /\ c.ime = b.ime
  BY DEF Grown, Built, BuildType
<1>2. b.steps \in Seq(StepType) /\ step \in StepType /\ step.from = {m}
  BY DEF Step, StepType, Built, BuildType
<1> HIDE DEF c, step
<1>3. \A n : /\ InSteps(c.steps, n) <=> InSteps(b.steps, n) \/ n \in {m}
             /\ Single(b.steps, n) /\ ~(InSteps(b.steps, n) /\ n \in {m}) => Single(c.steps, n)
  BY <1>1, <1>2, AppendFrom
<1>4. ASSUME NEW n \in Nat
      PROVE  /\ Once(b, n) /\ (n = m => ~Seen(b, n)) => Once(c, n)
             /\ Used(b, n) => Used(c, n)
             /\ Seen(c, n) => Seen(b, n) \/ n = m
  BY <1>1, <1>3 DEF Once, Used, Seen
<1>5. Used(c, m)
  BY <1>3 DEF Used
<1>6. QED
  BY <1>4, <1>5 DEF Takes, c, step

\* The events held back, of one kind, take one more.
LEMMA HeldTakes ==
  ASSUME NEW b, NEW c, NEW m \in Nat, c.steps = b.steps, b.imeActive => c.imeActive,
         \/ c.typing = b.typing \cup {m} /\ c.drag = b.drag /\ c.ime = b.ime
         \/ c.typing = b.typing /\ c.drag = b.drag \cup {m} /\ c.ime = b.ime
         \/ c.typing = b.typing /\ c.drag = b.drag /\ c.ime = b.ime \cup {m},
         c.imeActive => b.imeActive \/ c.ime = b.ime \cup {m}
  PROVE  Takes(b, c, m)
<1> SUFFICES ASSUME NEW n \in Nat
             PROVE  /\ Once(b, n) /\ (n = m => ~Seen(b, n)) => Once(c, n)
                    /\ Used(b, n) => Used(c, n)
                    /\ Seen(c, n) => Seen(b, n) \/ n = m
  BY DEF Takes
<1>1. CASE c.typing = b.typing \cup {m} /\ c.drag = b.drag /\ c.ime = b.ime
  BY <1>1 DEF Once, Used, Seen
<1>2. CASE c.typing = b.typing /\ c.drag = b.drag \cup {m} /\ c.ime = b.ime
  BY <1>2 DEF Once, Used, Seen
<1>3. CASE c.typing = b.typing /\ c.drag = b.drag /\ c.ime = b.ime \cup {m}
  BY <1>3 DEF Once, Used, Seen
<1>4. QED
  BY <1>1, <1>2, <1>3

\* A printable key joins the text, or begins one.
LEMMA KeyTakes ==
  ASSUME NEW b, Built(b), NEW m \in Nat, NEW late \in BOOLEAN
  PROVE  Takes(b, Key(b, m, late), m) /\ Used(Key(b, m, late), m)
<1> DEFINE i == ImeFlushed(b)
           c == IF late THEN TypingFlushed(i) ELSE i
           d == [c EXCEPT !.typing = @ \cup {m}]
<1>1. Built(i) /\ Same(b, i)
  BY ImeFlushedBuilt, ImeFlushedSame
<1> HIDE DEF i
<1>2. Built(c) /\ Same(b, c)
  BY <1>1, TypingFlushedBuilt, TypingFlushedSame, SameThenSame
<1> HIDE DEF c
<1>3. /\ d.steps = c.steps /\ d.typing = c.typing \cup {m} /\ d.drag = c.drag
      /\ d.imeActive = c.imeActive /\ d.ime = c.ime
  BY <1>2 DEF Built, BuildType
<1>4. Key(b, m, late) = d
  BY DEF Key, c, i
<1> HIDE DEF d
<1>5. Takes(c, d, m)
  BY <1>3, HeldTakes
<1>6. Used(d, m)
  BY <1>3 DEF Used
<1>7. QED
  BY <1>2, <1>4, <1>5, <1>6, SameThenTakes

\* Enter and its like are a step of their own.
LEMMA SpecialTakes ==
  ASSUME NEW b, Built(b), NEW m \in Nat
  PROVE  Takes(b, Special(b, m), m) /\ Used(Special(b, m), m)
<1> DEFINE i == ImeFlushed(b)
           c == TypingFlushed(i)
<1>1. Built(i) /\ Same(b, i)
  BY ImeFlushedBuilt, ImeFlushedSame
<1> HIDE DEF i
<1>2. Built(c) /\ Same(b, c)
  BY <1>1, TypingFlushedBuilt, TypingFlushedSame, SameThenSame
<1> HIDE DEF c
<1>3. /\ Takes(c, Grown(c, Step("press_key", {m})), m)
      /\ Used(Grown(c, Step("press_key", {m})), m)
  BY <1>2, GrownTakes DEF Actions
<1>4. Special(b, m) = Grown(c, Step("press_key", {m}))
  BY DEF Special, c, i
<1>5. QED
  BY <1>2, <1>3, <1>4, SameThenTakes

\* A shortcut is one, too.
LEMMA ShortcutTakes ==
  ASSUME NEW b, Built(b), NEW m \in Nat
  PROVE  Takes(b, Shortcut(b, m), m) /\ Used(Shortcut(b, m), m)
<1> DEFINE c == TypingFlushed(b)
<1>1. Built(c) /\ Same(b, c)
  BY TypingFlushedBuilt, TypingFlushedSame
<1> HIDE DEF c
<1>2. /\ Takes(c, Grown(c, Step("press_key", {m})), m)
      /\ Used(Grown(c, Step("press_key", {m})), m)
  BY <1>1, GrownTakes DEF Actions
<1>3. Shortcut(b, m) = Grown(c, Step("press_key", {m}))
  BY DEF Shortcut, c
<1>4. QED
  BY <1>1, <1>2, <1>3, SameThenTakes

\* A key under an input method joins its session.
LEMMA ImeKeyTakes ==
  ASSUME NEW b, Built(b), NEW m \in Nat
  PROVE  Takes(b, ImeKey(b, m), m) /\ Used(ImeKey(b, m), m)
<1> DEFINE c == TypingFlushed(b)
           d == [c EXCEPT !.imeActive = TRUE, !.ime = @ \cup {m}]
<1>1. Built(c) /\ Same(b, c)
  BY TypingFlushedBuilt, TypingFlushedSame
<1> HIDE DEF c
<1>2. /\ d.steps = c.steps /\ d.typing = c.typing /\ d.drag = c.drag
      /\ d.imeActive = TRUE /\ d.ime = c.ime \cup {m}
  BY <1>1 DEF Built, BuildType
<1>3. ImeKey(b, m) = d
  BY Zenon DEF ImeKey, c
<1> HIDE DEF d
<1>4. Takes(c, d, m)
  BY <1>2, HeldTakes
<1>5. Used(d, m)
  BY <1>2 DEF Used
<1>6. QED
  BY <1>1, <1>3, <1>4, <1>5, SameThenTakes

\* A shortcut under an input method is kept for a session.
LEMMA ImeShortcutTakes ==
  ASSUME NEW b, Built(b), NEW m \in Nat
  PROVE  Takes(b, ImeShortcut(b, m), m)
<1> DEFINE d == [b EXCEPT !.ime = @ \cup {m}]
<1>1. /\ d.steps = b.steps /\ d.typing = b.typing /\ d.drag = b.drag
      /\ d.imeActive = b.imeActive /\ d.ime = b.ime \cup {m}
  BY DEF Built, BuildType
<1>2. ImeShortcut(b, m) = d
  BY DEF ImeShortcut
<1> HIDE DEF d
<1>3. QED
  BY <1>1, <1>2, HeldTakes

\* A press is a click.
LEMMA PressTakes ==
  ASSUME NEW b, Built(b), NEW m \in Nat
  PROVE  Takes(b, Press(b, m), m) /\ Used(Press(b, m), m)
<1> DEFINE i == ImeFlushed(b)
           t == TypingFlushed(i)
           c == DragFlushed(t)
           g == Grown(c, Step("click", {m}))
           d == [g EXCEPT !.down = TRUE]
<1>1. Built(i) /\ Same(b, i)
  BY ImeFlushedBuilt, ImeFlushedSame
<1> HIDE DEF i
<1>2. Built(t) /\ Same(b, t)
  BY <1>1, TypingFlushedBuilt, TypingFlushedSame, SameThenSame
<1> HIDE DEF t
<1>3. Built(c) /\ Same(b, c)
  BY <1>2, DragFlushedBuilt, DragFlushedSame, SameThenSame
<1> HIDE DEF c
<1>4. Takes(c, g, m) /\ Used(g, m) /\ Built(g)
  BY <1>3, GrownTakes, GrownBuilt, StepsAreTyped DEF Actions
<1> HIDE DEF g
<1>5. /\ d.steps = g.steps /\ d.typing = g.typing /\ d.drag = g.drag
      /\ d.imeActive = g.imeActive /\ d.ime = g.ime
  BY <1>4 DEF Built, BuildType
<1>6. Press(b, m) = d
  BY DEF Press, g, c, t, i
<1> HIDE DEF d
<1>7. Takes(c, d, m) /\ Used(d, m)
  BY <1>4, <1>5 DEF Takes, Once, Used, Seen
<1>8. QED
  BY <1>3, <1>6, <1>7, SameThenTakes

\* A move joins the drag, turns the click into one with its press, or is dropped.
LEMMA MoveTakes ==
  ASSUME NEW b, Built(b), NEW m \in Nat
  PROVE  Takes(b, Move(b, m), m)
<1>1. CASE b.drag # {}
  <2> DEFINE d == [b EXCEPT !.drag = @ \cup {m}]
  <2>1. /\ d.steps = b.steps /\ d.typing = b.typing /\ d.drag = b.drag \cup {m}
        /\ d.imeActive = b.imeActive /\ d.ime = b.ime
    BY DEF Built, BuildType
  <2>2. Move(b, m) = d
    BY <1>1 DEF Move
  <2> HIDE DEF d
  <2>3. QED
    BY <2>1, <2>2, HeldTakes
<1>2. CASE b.drag = {} /\ b.down /\ b.steps # <<>> /\ Last(b.steps).action = "click"
  <2> DEFINE drag == Last(b.steps).from \cup {m}
             steps == Front(b.steps)
             c == [b EXCEPT !.steps = steps, !.drag = drag]
  <2>1. Move(b, m) = c
    BY <1>2 DEF Move
  <2>2. /\ c.steps = steps /\ c.drag = drag /\ c.typing = b.typing
        /\ c.imeActive = b.imeActive /\ c.ime = b.ime
    BY DEF Built, BuildType
  <2>3. b.steps \in Seq(StepType) /\ b.steps # <<>>
    BY <1>2 DEF Built, BuildType
  <2>4. \A n : /\ InSteps(b.steps, n) <=> InSteps(steps, n) \/ n \in Last(b.steps).from
               /\ Single(b.steps, n) =>
                    Single(steps, n) /\ ~(InSteps(steps, n) /\ n \in Last(b.steps).from)
    BY <2>3, FrontFrom
  <2>5. \A n : n \in drag <=> n \in Last(b.steps).from \/ n = m
    OBVIOUS
  <2> HIDE DEF c, steps, drag
  <2>6. ASSUME NEW n \in Nat
        PROVE  /\ Once(b, n) /\ (n = m => ~Seen(b, n)) => Once(c, n)
               /\ Used(b, n) => Used(c, n)
               /\ Seen(c, n) => Seen(b, n) \/ n = m
    BY <1>2, <2>2, <2>4, <2>5 DEF Once, Used, Seen
  <2>7. QED
    BY <2>1, <2>6 DEF Takes
<1>3. CASE b.drag = {} /\ ~(b.down /\ b.steps # <<>> /\ Last(b.steps).action = "click")
  <2>1. Move(b, m) = b
    BY <1>3 DEF Move
  <2>2. QED
    BY <2>1 DEF Takes
<1>4. QED
  BY <1>1, <1>2, <1>3

\* A release ends the drag it is part of, or is dropped.
LEMMA ReleaseTakes ==
  ASSUME NEW b, Built(b), NEW m \in Nat
  PROVE  Takes(b, Release(b, m), m)
<1> DEFINE c == [b EXCEPT !.down = FALSE]
           d == [c EXCEPT !.drag = @ \cup {m}]
<1>1. /\ c.steps = b.steps /\ c.typing = b.typing /\ c.drag = b.drag
      /\ c.imeActive = b.imeActive /\ c.ime = b.ime
  BY DEF Built, BuildType
<1>2. Built(c)
  BY ButtonKept DEF Grows
<1> HIDE DEF c
<1>3. /\ d.steps = c.steps /\ d.typing = c.typing /\ d.drag = c.drag \cup {m}
      /\ d.imeActive = c.imeActive /\ d.ime = c.ime
  BY <1>2 DEF Built, BuildType
<1>4. Built(d)
  BY <1>2, DragGrows DEF Grows
<1>5. Release(b, m) = IF b.drag = {} THEN c ELSE DragFlushed(d)
  BY DEF Release, c
<1> HIDE DEF d
<1>6. CASE b.drag = {}
  BY <1>1, <1>5, <1>6 DEF Takes, Once, Used, Seen
<1>7. CASE b.drag # {}
  <2>1. Takes(b, d, m)
    BY <1>1, <1>3, HeldTakes
  <2>2. Same(d, DragFlushed(d))
    BY <1>4, DragFlushedSame
  <2>3. Takes(b, DragFlushed(d), m)
    BY <2>1, <2>2 DEF Same, Takes
  <2>4. QED
    BY <1>5, <1>7, <2>3
<1>8. QED
  BY <1>6, <1>7

\* A notch joins the last scroll, or is a new one.
LEMMA WheelTakes ==
  ASSUME NEW b, Built(b), NEW m \in Nat, NEW late \in BOOLEAN
  PROVE  Takes(b, Wheel(b, m, late), m) /\ Used(Wheel(b, m, late), m)
<1> DEFINE c == TypingFlushed(b)
           joined == [c EXCEPT !.steps[c.scroll].from = @ \cup {m}]
           g == Grown(c, Step("scroll", {m}))
           last == Len(c.steps) + 1
           new == [g EXCEPT !.scroll = last]
<1>1. Built(c) /\ Same(b, c)
  BY TypingFlushedBuilt, TypingFlushedSame
<1>2. Wheel(b, m, late) = IF c.scroll # 0 /\ ~late /\ c.steps[c.scroll].action = "scroll"
                          THEN joined ELSE new
  BY DEF Wheel
<1> HIDE DEF c
<1>3. ASSUME c.scroll # 0 PROVE Takes(c, joined, m) /\ Used(joined, m)
  <2> DEFINE step == [c.steps[c.scroll] EXCEPT !.from = @ \cup {m}]
             steps == [c.steps EXCEPT ![c.scroll] = step]
  <2>1. c.scroll \in DOMAIN c.steps /\ c.steps \in Seq(StepType)
    BY <1>1, <1>3 DEF Built, BuildType
  <2>2. c.steps[c.scroll] \in StepType
    BY <2>1
  <2>3. step.from = c.steps[c.scroll].from \cup {m}
    BY <2>2 DEF StepType
  <2>4. joined = [c EXCEPT !.steps = steps]
    OBVIOUS
  <2> HIDE DEF step
  <2>5. /\ DOMAIN steps = DOMAIN c.steps /\ steps[c.scroll].from = c.steps[c.scroll].from \cup {m}
        /\ \A i \in DOMAIN c.steps : i # c.scroll => steps[i] = c.steps[i]
    BY <2>1, <2>3
  <2> HIDE DEF steps, joined
  <2>6. /\ joined.steps = steps /\ joined.typing = c.typing /\ joined.drag = c.drag
        /\ joined.imeActive = c.imeActive /\ joined.ime = c.ime
    BY <1>1, <2>4 DEF Built, BuildType
  <2>7. ASSUME NEW n
        PROVE  /\ InSteps(steps, n) <=> InSteps(c.steps, n) \/ n = m
               /\ Single(c.steps, n) /\ (n = m => ~InSteps(c.steps, n)) => Single(steps, n)
    <3> DEFINE s == c.steps
               k == c.scroll
    <3>1. /\ s \in Seq(StepType) /\ k \in DOMAIN s /\ DOMAIN steps = DOMAIN s
          /\ steps[k].from = s[k].from \cup {m} /\ \A i \in DOMAIN s : i # k => steps[i] = s[i]
      BY <2>1, <2>5
    <3> HIDE DEF s, k
    <3>2. /\ InSteps(steps, n) <=> InSteps(s, n) \/ n = m
          /\ Single(s, n) /\ (n = m => ~InSteps(s, n)) => Single(steps, n)
      BY <3>1, GrownFrom
    <3>3. QED
      BY <3>2 DEF s
  <2>8. ASSUME NEW n \in Nat
        PROVE  /\ Once(c, n) /\ (n = m => ~Seen(c, n)) => Once(joined, n)
               /\ Used(c, n) => Used(joined, n)
               /\ Seen(joined, n) => Seen(c, n) \/ n = m
    BY <2>6, <2>7 DEF Once, Used, Seen
  <2>9. Used(joined, m)
    BY <2>6, <2>7 DEF Used
  <2>10. QED
    BY <2>8, <2>9 DEF Takes
<1>4. Takes(c, new, m) /\ Used(new, m)
  <2>1. Takes(c, g, m) /\ Used(g, m) /\ Built(g)
    BY <1>1, GrownTakes, GrownBuilt, StepsAreTyped DEF Actions
  <2> HIDE DEF g
  <2>2. /\ new.steps = g.steps /\ new.typing = g.typing /\ new.drag = g.drag
        /\ new.imeActive = g.imeActive /\ new.ime = g.ime
    BY <2>1 DEF Built, BuildType
  <2> HIDE DEF new
  <2>3. QED
    BY <2>1, <2>2 DEF Takes, Once, Used, Seen
<1> HIDE DEF joined, new
<1>5. QED
  BY <1>1, <1>2, <1>3, <1>4, SameThenTakes

\* What any event does: nothing that was used goes, nothing is doubled, and an
\* action of its own is used.
LEMMA ConsumeTakes ==
  ASSUME NEW b, Built(b), NEW m \in Nat, NEW kind \in Kinds
  PROVE  /\ Takes(b, Consume(b, m, kind), m)
         /\ IsAction(kind) => Used(Consume(b, m, kind), m)
<1>1. CASE kind = "key_late"
  <2>1. Consume(b, m, kind) = Key(b, m, TRUE)
    BY <1>1 DEF Consume, IsKey, IsWheel
  <2>2. QED
    BY <2>1, KeyTakes
<1>2. CASE kind = "key"
  <2>1. Consume(b, m, kind) = Key(b, m, FALSE)
    BY <1>2 DEF Consume, IsKey, IsWheel
  <2>2. QED
    BY <2>1, KeyTakes
<1>3. CASE IsWheel(kind)
  <2>1. Consume(b, m, kind) = Wheel(b, m, kind = "wheel_late") /\ (kind = "wheel_late") \in BOOLEAN
    BY <1>3 DEF Consume, IsKey, IsWheel
  <2>2. QED
    BY <2>1, WheelTakes
<1>4. CASE kind = "press"
  BY <1>4, PressTakes DEF Consume, IsKey, IsWheel
<1>5. CASE kind = "move"
  BY <1>5, MoveTakes DEF Consume, IsAction, IsKey, IsWheel
<1>6. CASE kind = "release"
  BY <1>6, ReleaseTakes DEF Consume, IsAction, IsKey, IsWheel
<1>7. CASE kind = "special"
  BY <1>7, SpecialTakes DEF Consume, IsKey, IsWheel
<1>8. CASE kind = "shortcut"
  BY <1>8, ShortcutTakes DEF Consume, IsKey, IsWheel
<1>9. CASE kind = "ime_key"
  BY <1>9, ImeKeyTakes DEF Consume, IsKey, IsWheel
<1>10. CASE kind = "ime_shortcut"
  BY <1>10, ImeShortcutTakes DEF Consume, IsAction, IsKey, IsWheel
<1>11. CASE kind = "key_up"
  <2>1. Consume(b, m, kind) = ImeFlushed(b) /\ ~IsAction(kind)
    BY <1>11 DEF Consume, IsAction, IsKey, IsWheel
  <2>2. Same(b, ImeFlushed(b))
    BY ImeFlushedSame
  <2>3. QED
    BY <2>1, <2>2 DEF Same, Takes
<1>12. QED
  BY <1>1, <1>2, <1>3, <1>4, <1>5, <1>6, <1>7, <1>8, <1>9, <1>10, <1>11
  DEF Kinds, IsAction, IsKey, IsWheel

\* Ending the events leaves each used one in exactly one step.
LEMMA EndingHasOnce ==
  ASSUME NEW b, Built(b), NEW n \in Nat, Once(b, n)
  PROVE  /\ Ending(b) \in Seq(StepType)
         /\ Single(Ending(b), n)
         /\ Used(b, n) => InSteps(Ending(b), n)
<1> DEFINE i == ImeFlushed(b)
           t == TypingFlushed(i)
           d == DragFlushed(t)
<1>1. Built(i) /\ Same(b, i) /\ i.imeActive = FALSE
  BY ImeFlushedBuilt, ImeFlushedSame
<1> HIDE DEF i
<1>2. Built(t) /\ Same(b, t) /\ t.imeActive = FALSE /\ t.typing = {}
  BY <1>1, TypingFlushedBuilt, TypingFlushedSame, SameThenSame
<1> HIDE DEF t
<1>3. Built(d) /\ Same(b, d) /\ d.imeActive = FALSE /\ d.typing = {} /\ d.drag = {}
  BY <1>2, DragFlushedBuilt, DragFlushedSame, SameThenSame
<1>4. Ending(b) = d.steps
  BY DEF Ending, d, t, i
<1> HIDE DEF d
<1>5. d.steps \in Seq(StepType)
  BY <1>3 DEF Built, BuildType
<1>6. Single(d.steps, n)
  BY <1>3 DEF Same, Once
<1>7. Used(b, n) => InSteps(d.steps, n)
  BY <1>3 DEF Same, Used
<1>8. QED
  BY <1>4, <1>5, <1>6, <1>7

\* An event that is in one step at most is counted so.
LEMMA SingleCounted ==
  ASSUME NEW s, NEW n, Single(s, n)
  PROVE  Uses(n, s) <= 1 /\ (InSteps(s, n) => Uses(n, s) = 1)
<1> DEFINE In == {k \in DOMAIN s : n \in s[k].from}
<1>1. In = {} \/ \E k : In = {k}
  BY DEF Single
<1>2. InSteps(s, n) => In # {}
  BY DEF InSteps
<1>3. Uses(n, s) = Cardinality(In)
  BY DEF Uses
<1> HIDE DEF In
<1>4. CASE In = {}
  BY <1>2, <1>3, <1>4, FS_EmptySet
<1>5. CASE In # {}
  <2>1. PICK k : In = {k}
    BY <1>1, <1>5
  <2>2. Cardinality({k}) = 1
    BY FS_Singleton
  <2>3. QED
    BY <1>3, <2>1, <2>2
<1>6. QED
  BY <1>4, <1>5

\* The focus step in front of the file uses no event.
LEMMA FocusInFront ==
  ASSUME NEW s \in Seq(StepType), NEW n, Single(s, n), InSteps(s, n)
  PROVE  Uses(n, <<Step("focus", {})>> \o s) = 1
<1> DEFINE f == <<Step("focus", {})>> \o s
<1>1. /\ Step("focus", {}) \in StepType /\ n \notin Step("focus", {}).from
  BY DEF Step, StepType, Actions
<1>2. /\ DOMAIN f = 1 .. Len(s) + 1 /\ f[1] = Step("focus", {}) /\ Len(s) \in Nat
      /\ DOMAIN s = 1 .. Len(s)
      /\ \A i \in 1 .. Len(s) : f[i + 1] = s[i]
  BY <1>1
<1> HIDE DEF f
<1>3. \A i \in DOMAIN f : n \in f[i].from => /\ i - 1 \in DOMAIN s /\ f[i] = s[i - 1]
  <2> SUFFICES ASSUME NEW i \in DOMAIN f, n \in f[i].from
               PROVE  i - 1 \in DOMAIN s /\ f[i] = s[i - 1]
    OBVIOUS
  <2>1. i # 1
    BY <1>1, <1>2
  <2>2. i - 1 \in 1 .. Len(s) /\ (i - 1) + 1 = i
    BY <1>2, <2>1
  <2>3. QED
    BY <1>2, <2>2
<1>4. Single(f, n)
  <2> SUFFICES ASSUME NEW i \in DOMAIN f, NEW j \in DOMAIN f, n \in f[i].from, n \in f[j].from
               PROVE  i = j
    BY DEF Single
  <2>1. i - 1 = j - 1
    BY <1>3 DEF Single
  <2>2. QED
    BY <1>2, <2>1
<1>5. InSteps(f, n)
  <2>1. PICK i \in DOMAIN s : n \in s[i].from
    BY DEF InSteps
  <2>2. i + 1 \in DOMAIN f /\ f[i + 1] = s[i]
    BY <1>2, <2>1
  <2>3. QED
    BY <2>1, <2>2 DEF InSteps
<1>6. QED
  BY <1>4, <1>5, SingleCounted DEF f

\* What was captured is used, each of it once, and nothing else is.
UsedInv ==
  /\ events \in Seq(Kinds) /\ Built(pass)
  /\ \A n \in Nat : Once(pass, n)
  /\ \A n \in Nat : Seen(pass, n) => n \in DOMAIN events
  /\ \A n \in DOMAIN events :
       IsAction(events[n]) => Used(pass, n)

\* Nothing captured, nothing used.
LEMMA UsedInit == Init => UsedInv
<1> SUFFICES ASSUME Init PROVE UsedInv
  OBVIOUS
<1>1. events = <<>> /\ pass = NoSteps /\ Built(pass)
  BY NoStepsBuilt DEF Init
<1>2. events \in Seq(Kinds) /\ DOMAIN events = {}
  BY <1>1
<1>3. /\ DOMAIN pass.steps = {} /\ pass.typing = {} /\ pass.ime = {} /\ pass.drag = {}
  BY <1>1 DEF NoSteps
<1>4. \A n \in Nat : Once(pass, n) /\ ~Seen(pass, n)
  BY <1>3 DEF Once, Seen, Used, InSteps, Single
<1>5. QED
  BY <1>1, <1>2, <1>4 DEF UsedInv

\* Every step of the three threads keeps it; only a capture moves anything.
LEMMA UsedKept == UsedInv /\ [Next]_vars => UsedInv'
<1> SUFFICES ASSUME UsedInv, [Next]_vars PROVE UsedInv'
  OBVIOUS
<1>1. ASSUME NEW kind \in Kinds, Capture(kind) PROVE UsedInv'
  <2> DEFINE m == Len(events) + 1
  <2>1. events' = Append(events, kind) /\ pass' = Consume(pass, m, kind)
    BY <1>1 DEF Capture
  <2>2. events \in Seq(Kinds) /\ m \in Nat /\ m \notin DOMAIN events
    BY DEF UsedInv
  <2>3. /\ events' \in Seq(Kinds) /\ DOMAIN events' = DOMAIN events \cup {m} /\ events'[m] = kind
        /\ \A n \in DOMAIN events : events'[n] = events[n]
    BY <2>1, <2>2
  <2> HIDE DEF m
  <2>4. /\ Built(pass) /\ \A n \in Nat : Once(pass, n)
        /\ \A n \in Nat : Seen(pass, n) => n \in DOMAIN events
        /\ \A n \in DOMAIN events :
             IsAction(events[n]) => Used(pass, n)
    BY DEF UsedInv
  <2>5. Built(pass')
    BY <2>1, <2>2, <2>4, EveryEventGrows
  <2>6. /\ Takes(pass, pass', m)
        /\ IsAction(kind) => Used(pass', m)
    BY <2>1, <2>2, <2>4, ConsumeTakes
  <2>7. ASSUME NEW n \in Nat
        PROVE  /\ Once(pass, n) /\ (n = m => ~Seen(pass, n)) => Once(pass', n)
               /\ Used(pass, n) => Used(pass', n)
               /\ Seen(pass', n) => Seen(pass, n) \/ n = m
    BY <2>6 DEF Takes
  <2>8. \A n \in Nat : Once(pass', n)
    BY <2>2, <2>4, <2>7
  <2>9. \A n \in Nat : Seen(pass', n) => n \in DOMAIN events'
    BY <2>3, <2>4, <2>7
  <2>10. \A n \in DOMAIN events : n \in Nat
    BY <2>2
  <2>11. \A n \in DOMAIN events' :
           IsAction(events'[n]) => Used(pass', n)
    BY <2>3, <2>4, <2>6, <2>7, <2>10
  <2>12. QED
    BY <2>3, <2>5, <2>8, <2>9, <2>11 DEF UsedInv
<1>2. CASE UNCHANGED <<events, pass>>
  BY <1>2 DEF UsedInv
<1>3. CASE HookStep \/ HotkeyPressed \/ GapPasses \/ SamplerStep \/ SamplerReads
             \/ StopRequested \/ MainStep \/ UNCHANGED vars
  BY <1>2, <1>3
     DEF HookStep, HookStarts, HookPublishes, HookPrints, HookEnds, HotkeyPressed, GapPasses,
         SamplerStep,
         SamplerBegins, SamplerPublishes, SamplerPrints, SamplerWakes, SamplerClears,
         SamplerReads, StopRequested, MainStep, HookJoined, HookGivenUp, SamplerJoined, StopSaves,
         vars
<1>4. QED
  BY <1>1, <1>3 DEF Next

\* If the events ended here, each action would be in one step.
LEMMA UsedOnce ==
  ASSUME UsedInv, NEW n \in DOMAIN events
  PROVE  /\ Ending(pass) \in Seq(StepType) /\ Single(Ending(pass), n)
         /\ IsAction(events[n]) => InSteps(Ending(pass), n)
<1>1. n \in Nat /\ Built(pass) /\ Once(pass, n) /\ (IsAction(events[n]) => Used(pass, n))
  BY DEF UsedInv
<1>2. QED
  BY <1>1, EndingHasOnce

\* Every press, notch and key goes into exactly one step, wherever the recording
\* is stopped (steps.py, build_steps).
THEOREM EveryActionIsOneStepHolds == Spec => []EveryActionIsOneStep
<1>1. UsedInv => EveryActionIsOneStep
  <2> SUFFICES ASSUME UsedInv, NEW n \in DOMAIN events
               PROVE  /\ Uses(n, Ending(pass)) <= 1
                      /\ IsAction(events[n]) => Uses(n, Ending(pass)) = 1
    BY DEF EveryActionIsOneStep
  <2>1. QED
    BY UsedOnce, SingleCounted
<1>2. QED
  BY <1>1, UsedInit, UsedKept, PTL DEF Spec

-----------------------------------------------------------------------------
(* What is in the file. *)

\* The hook thread has ended, or will without a look at its queue.
Silent == hook.pc = "ended" \/ (hook.pc = "starting" /\ stopping)

\* Past the join nothing more is captured, or what is captured was not due.
SavedInv ==
  /\ Shapes
  /\ due \in Nat
  /\ main \in {"waiting", "join_hook", "join_sampler", "build", "saved"}
  /\ main # "waiting" => stopping
  /\ main \in {"join_sampler", "build", "saved"} => Silent \/ due <= Len(events)
  /\ NothingMissed

LEMMA SavedKept == UsedInv /\ SavedInv /\ [Next]_vars => SavedInv'
<1> SUFFICES ASSUME UsedInv, SavedInv, [Next]_vars PROVE SavedInv'
  OBVIOUS
<1>0. events \in Seq(Kinds) /\ Len(events) \in Nat /\ DOMAIN events = 1 .. Len(events)
  BY DEF UsedInv
<1>1. ASSUME NEW kind \in Kinds, Capture(kind) PROVE SavedInv'
  <2>1. /\ events' = Append(events, kind) /\ hook.pc = "loop" /\ hook'.pc = "publish"
        /\ DOMAIN hook' = {"pc", "batch"}
        /\ UNCHANGED <<stopping, sampler, main, saved, due>>
    BY <1>1 DEF Capture, SavedInv, Shapes
  <2>2. /\ Len(events') = Len(events) + 1 /\ DOMAIN events' = 1 .. Len(events) + 1
        /\ \A n \in DOMAIN events : events'[n] = events[n]
    BY <1>0, <2>1
  <2>3. main \in {"join_sampler", "build", "saved"} => due <= Len(events)
    BY <2>1 DEF SavedInv, Silent
  <2>4. due \in Nat
    BY DEF SavedInv
  <2>5. main \in {"join_sampler", "build", "saved"} => due <= Len(events')
    BY <1>0, <2>2, <2>3, <2>4
  <2>6. NothingMissed'
    <3> SUFFICES ASSUME main = "saved"
                 PROVE  /\ ~(Len(events') <= due)
                        /\ \A n \in DOMAIN events' :
                             n <= due /\ IsAction(events'[n]) => Uses(n, saved) = 1
      BY <2>1 DEF NothingMissed, Uses
    <3>1. ~(Len(events') <= due)
      BY <1>0, <2>2, <2>3, <2>4
    <3>2. ASSUME NEW n \in DOMAIN events', n <= due, IsAction(events'[n])
          PROVE  Uses(n, saved) = 1
      <4>1. n \in DOMAIN events /\ events'[n] = events[n]
        BY <1>0, <2>2, <2>3, <2>4, <3>2
      <4>2. QED
        BY <3>2, <4>1 DEF SavedInv, NothingMissed
    <3>3. QED
      BY <3>1, <3>2
  <2>7. QED
    BY <2>1, <2>4, <2>5, <2>6 DEF SavedInv, Shapes
<1>2. CASE HookStarts \/ HookPublishes \/ HookPrints \/ HookEnds
  BY <1>2 DEF HookStarts, HookPublishes, HookPrints, HookEnds, SavedInv, Shapes, Silent,
              NothingMissed, Uses
<1>3. CASE HotkeyPressed \/ GapPasses
  BY <1>3 DEF HotkeyPressed, GapPasses, SavedInv, Shapes, Silent, NothingMissed, Uses
<1>4. CASE SamplerBegins \/ SamplerReads \/ SamplerPublishes \/ SamplerPrints
             \/ SamplerWakes \/ SamplerClears
  BY <1>4 DEF SamplerBegins, SamplerReads, SamplerPublishes, SamplerPrints, SamplerWakes,
              SamplerClears, SavedInv, Shapes, Silent, NothingMissed, Uses
<1>5. CASE StopRequested \/ HookJoined \/ SamplerJoined
  BY <1>5 DEF StopRequested, HookJoined, SamplerJoined, SavedInv, Shapes, Silent, NothingMissed
<1>6. CASE HookGivenUp
  <2>1. /\ due' = Len(events) /\ main' = "join_sampler" /\ main = "join_hook"
        /\ UNCHANGED <<events, hook, sampler, stopping>>
    BY <1>6 DEF HookGivenUp
  <2>2. due' <= Len(events') /\ due' \in Nat
    BY <1>0, <2>1
  <2>3. QED
    BY <2>1, <2>2 DEF SavedInv, Shapes, Silent, NothingMissed
<1>7. CASE StopSaves
  <2>1. /\ saved' = <<Step("focus", {})>> \o Ending(pass) /\ main' = "saved" /\ main = "build"
        /\ UNCHANGED <<events, pass, hook, sampler, stopping, due>>
    BY <1>7 DEF StopSaves, MayBuild
  <2>2. ASSUME NEW n \in DOMAIN events, IsAction(events[n])
        PROVE  Uses(n, <<Step("focus", {})>> \o Ending(pass)) = 1
    BY <2>2, UsedOnce, FocusInFront
  <2>3. NothingMissed'
    BY <2>1, <2>2 DEF NothingMissed
  <2>4. QED
    BY <2>1, <2>3 DEF SavedInv, Shapes, Silent
<1>8. CASE UNCHANGED vars
  BY <1>8 DEF vars, SavedInv, Shapes, Silent, NothingMissed, Uses
<1>9. QED
  BY <1>1, <1>2, <1>3, <1>4, <1>5, <1>6, <1>7, <1>8 DEF Next, HookStep, SamplerStep, MainStep

\* The file has the steps of everything that was captured; of a thread that was
\* given up, everything up to then (recorder.py, Recorder.stop; win_hooks.py,
\* WinInputHook.stop).
THEOREM NothingMissedHolds == Spec => []NothingMissed
<1>1. Init => SavedInv
  BY RecordingAssumption DEF Init, SavedInv, Shapes, NothingMissed
<1>2. SavedInv => NothingMissed
  BY DEF SavedInv
<1>3. QED
  BY <1>1, <1>2, UsedInit, UsedKept, SavedKept, PTL DEF Spec
=============================================================================
