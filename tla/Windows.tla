-------------------------------- MODULE Windows --------------------------------
(***************************************************************************)
(* The windows of a Windows desktop and the two rules by which the program *)
(* finds those of an app: win_input.py reads the desktop through Win32,    *)
(* cua_client.py reads the lists of the cua-driver.  All windows here are  *)
(* visible ones; a minimized window is visible to Win32, parked outside    *)
(* the screen.  Texts are compared without regard to case, so they stand   *)
(* for their lower-case forms.                                             *)
(***************************************************************************)
EXTENDS Integers, Sequences, FiniteSets, SequencesExt

CONSTANTS
  WindowIds, Pids,
  Texts, NoText,       \* names, titles and queries; no title
  Within,              \* pairs <<s, t>>: s is a substring of t
  NameOf,              \* process -> its executable, without ".exe"
  PidOf, TitleOf,      \* window -> its process, its title
  ListedPids,          \* the processes in the order list_apps gives them
  Places, Layouts,     \* rectangles a window may have, and where windows are at first
  MaxMoves             \* bound: what the user and the apps do to the desktop

ASSUME WindowsAssumption ==
  /\ NoText \notin Texts
  /\ IsFiniteSet(WindowIds)
  /\ NameOf \in [Pids -> Texts]
  /\ PidOf \in [WindowIds -> Pids] /\ TitleOf \in [WindowIds -> Texts \cup {NoText}]
  /\ Within \subseteq Texts \X Texts
  /\ \A s \in Texts : <<s, s>> \in Within
  /\ \A r, s, t \in Texts : (<<r, s>> \in Within /\ <<s, t>> \in Within) => <<r, t>> \in Within
  /\ ToSet(ListedPids) \subseteq Pids
  /\ Places \subseteq [x : Int, y : Int, w : Nat, h : Nat]
  /\ Layouts \subseteq [WindowIds -> Places]
  /\ MaxMoves \in Nat

VARIABLES
  stack,    \* the open windows, topmost first
  place,    \* where a window is when it is neither minimized nor maximized
  shape,    \* "normal", "minimized" or "maximized"
  moves     \* how often the desktop was changed from outside

desktop == <<stack, place, shape>>
windowVars == <<desktop, moves>>

Open == ToSet(stack)
Titled == {w \in Open : TitleOf[w] # NoText}
Index(w) == CHOOSE i \in DOMAIN stack : stack[i] = w

-----------------------------------------------------------------------------
(* Rectangles, in pixels of a small screen. *)

Screen == [x |-> 0, y |-> 0, w |-> 3, h |-> 2]
Parked == [x |-> -9, y |-> -9, w |-> 1, h |-> 1]

Rect(w) == CASE shape[w] = "minimized" -> Parked
             [] shape[w] = "maximized" -> Screen
             [] OTHER                  -> place[w]
Area(w) == Rect(w).w * Rect(w).h
Pixels(r) == (r.x .. r.x + r.w - 1) \X (r.y .. r.y + r.h - 1)

\* Faulty variant of CoversAll: the right and lower edges are not compared.
CoversCorner(r, s) == r.x <= s.x /\ r.y <= s.y
\* A window covers another whose rectangle lies within its own.
CoversAll(r, s) ==
  r.x <= s.x /\ r.y <= s.y /\ r.x + r.w >= s.x + s.w /\ r.y + r.h >= s.y + s.h

InBounds(r, dx, dy) == dx >= 0 /\ dy >= 0 /\ dx < r.w /\ dy < r.h

\* The offsets are those of the picture the agent saw.
ScreenPoint(r, dx, dy) == <<r.x + dx, r.y + dy>>

\* SetCursorPos keeps the cursor on the screen.
Clamp(n, size) == IF n < 0 THEN 0 ELSE IF n >= size THEN size - 1 ELSE n
CursorAt(point) == <<Clamp(point[1], Screen.w), Clamp(point[2], Screen.h)>>

-----------------------------------------------------------------------------
(* The rule of win_input.py.                                               *)

\* The names of the processes are not known when the snapshot of them fails.
ExeName(p, known) == IF known THEN NameOf[p] ELSE NoText

MatchesApp(exe, title, app) == exe = app \/ <<app, title>> \in Within

\* find_windows and the candidates of window_status.
Candidates(app, known) ==
  {w \in Titled : MatchesApp(ExeName(PidOf[w], known), TitleOf[w], app)}

\* The first of a list sorted by falling area, the topmost of equals.
Largest(S) ==
  CHOOSE w \in S : \A v \in S \ {w} :
    Area(w) > Area(v) \/ (Area(w) = Area(v) /\ Index(w) < Index(v))

CoveredBy(w) == {v \in Titled : Index(v) < Index(w) /\ CoversAll(Rect(v), Rect(w))}
Occluded(w) == CoveredBy(w) # {}

Narrowed(S, title) ==
  IF title = NoText THEN S ELSE {w \in S : <<title, TitleOf[w]>> \in Within}

\* _resolve: the one window of exactly this title, or else the only one left;
\* empty if there is no such window.
Picked(S, title) ==
  LET exact == {w \in S : TitleOf[w] = title}
      left  == Narrowed(S, title)
  IN  IF title # NoText /\ Cardinality(exact) = 1 THEN exact
      ELSE IF Cardinality(left) = 1 THEN left ELSE {}

-----------------------------------------------------------------------------
(* The rule of cua_client.py.  The driver lists windows from the topmost   *)
(* down, as Win32 does.                                                    *)

MatchesName(p, app) == <<app, NameOf[p]>> \in Within
AppPids(app) == SelectSeq(ListedPids, LAMBDA p : MatchesName(p, app))
WindowsOf(app) == {w \in Open : PidOf[w] \in ToSet(AppPids(app))}

\* Windows on the screen first, any other failing those; the largest.
MainWindow(app) ==
  LET onScreen == {w \in WindowsOf(app) : shape[w] # "minimized"}
  IN  Largest(IF onScreen # {} THEN onScreen ELSE WindowsOf(app))

-----------------------------------------------------------------------------
(* What happens to the desktop. *)

Without(w) == IF w \in Open THEN RemoveAt(stack, Index(w)) ELSE stack
OnTop(w) == <<w>> \o Without(w)

\* ShowWindow and SetForegroundWindow; Windows may refuse the foreground, and
\* nothing happens to a window that is gone.
ShowAndForeground(w, to) ==
  /\ \/ w \in Open /\ stack' \in {stack, OnTop(w)} /\ shape' = [shape EXCEPT ![w] = to]
     \/ w \notin Open /\ UNCHANGED <<stack, shape>>
  /\ UNCHANGED place

\* The user and the apps open, close, raise, minimize and drag windows.
WindowOpens(w) ==
  w \notin Open /\ stack' = OnTop(w) /\ shape' = [shape EXCEPT ![w] = "normal"] /\ UNCHANGED place
WindowCloses(w) ==
  w \in Open /\ stack' = Without(w) /\ UNCHANGED <<place, shape>>
WindowComesUp(w) ==
  w \in Open /\ stack' = OnTop(w) /\ shape' = [shape EXCEPT ![w] = "normal"]
  /\ <<stack, shape>>' # <<stack, shape>> /\ UNCHANGED place
WindowIsMinimized(w) ==
  w \in Open /\ shape' = [shape EXCEPT ![w] = "minimized"] /\ shape' # shape
  /\ UNCHANGED <<stack, place>>
WindowIsDragged(w, r) ==
  w \in Open /\ shape[w] = "normal" /\ r # place[w]
  /\ place' = [place EXCEPT ![w] = r] /\ UNCHANGED <<stack, shape>>

DesktopStep ==
  /\ moves < MaxMoves /\ moves' = moves + 1
  /\ \/ \E w \in WindowIds : WindowOpens(w) \/ WindowCloses(w) \/ WindowComesUp(w) \/ WindowIsMinimized(w)
     \/ \E w \in WindowIds, r \in Places : WindowIsDragged(w, r)

\* Any windows in any order, none of them minimized yet.
WindowsInit ==
  /\ stack \in SetToAllKPermutations(WindowIds)
  /\ place \in Layouts
  /\ shape = [w \in WindowIds |-> "normal"]
  /\ moves = 0
=============================================================================
