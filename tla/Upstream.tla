-------------------------------- MODULE Upstream --------------------------------
(***************************************************************************)
(* One call of a tool at a time, carried out on real windows: cu_observe   *)
(* and cu_act through the cua-driver and its daemon (cua_client.py) or     *)
(* with the real cursor (win_input.py), and cu_window (server.py).  The    *)
(* desktop changes between any two steps, the daemon may die, and every    *)
(* call of it may be refused or time out.                                  *)
(***************************************************************************)
EXTENDS Windows

CONSTANTS
  App, Titles,      \* the app asked for, and window titles passed to cu_window
  Tools,            \* the tools called
  Offsets,          \* where in a window real clicks are aimed
  MaxDeaths         \* bound: deaths of the daemon

ASSUME UpstreamAssumption ==
  /\ App \in Texts /\ Titles \subseteq Texts \cup {NoText}
  /\ Offsets \subseteq Nat \X Nat /\ MaxDeaths \in Nat

VARIABLES
  daemon,    \* "down", "starting" or "up"
  checked,   \* _daemon_checked
  deaths,
  call       \* the call in progress

vars == <<windowVars, daemon, checked, deaths, call>>

NoWindow == NoText
NoSpot == <<>>
NoCall ==
  [pc |-> "idle", tool |-> NoText, title |-> NoText, offset |-> NoSpot,
   stage |-> "gate", again |-> FALSE, window |-> NoWindow, pid |-> NoText,
   read |-> NoWindow, target |-> NoWindow, rect |-> Parked, spot |-> NoSpot,
   known |-> TRUE, code |-> "none", moved |-> FALSE]

WindowTools == {"list", "activate", "maximize"}

Goes(pc) == call' = [call EXCEPT !.pc = pc]
Answers(code) == call' = [call EXCEPT !.pc = "done", !.code = code]
Fails == Answers("UPSTREAM_ERROR")
Alone == UNCHANGED <<windowVars, daemon, checked, deaths>>

Begin(tool, title, offset) ==
  /\ call.pc = "idle"
  /\ call' = [NoCall EXCEPT !.pc = IF tool \in WindowTools THEN "status" ELSE "probe",
                            !.tool = tool, !.title = title, !.offset = offset]
  /\ Alone

Return == call.pc = "done" /\ call' = NoCall /\ Alone

-----------------------------------------------------------------------------
(* _ensure_daemon: before every reading and every action. *)

\* The status command may time out, which counts as "not running"; a client
\* that has seen the daemon before asks twice.
Probe ==
  /\ call.pc = "probe"
  /\ UNCHANGED <<windowVars, daemon, deaths>>
  /\ \/ /\ daemon = "up"
        /\ checked' = TRUE
        /\ call' = [call EXCEPT !.pc = "resolve", !.again = FALSE]
     \/ /\ UNCHANGED checked
        /\ call' = IF checked /\ ~call.again THEN [call EXCEPT !.again = TRUE]
                   ELSE [call EXCEPT !.pc = "start", !.again = FALSE]

\* Only one daemon serves; where none may be started the call fails.
StartDaemon ==
  /\ call.pc = "start"
  /\ UNCHANGED <<windowVars, checked, deaths>>
  /\ \/ /\ daemon' = IF daemon = "down" THEN "starting" ELSE daemon
        /\ Goes("poll")
     \/ Fails /\ UNCHANGED daemon

\* Faulty variant of Poll: nothing ends the polling but the daemon.
PollForever ==
  /\ call.pc = "poll"
  /\ daemon = "up"
  /\ checked' = TRUE /\ Goes("resolve")
  /\ UNCHANGED <<windowVars, daemon, deaths>>

\* Until it answers, or for fifteen seconds.
Poll ==
  /\ call.pc = "poll"
  /\ \/ daemon = "up" /\ checked' = TRUE /\ Goes("resolve")
     \/ Fails /\ UNCHANGED checked
  /\ UNCHANGED <<windowVars, daemon, deaths>>

-----------------------------------------------------------------------------
(* Reading and acting through the driver. *)

\* Faulty variant of ResolveWindow: an action is not bound to a window of its own.
ResolveAny ==
  /\ call.pc = "resolve"
  /\ daemon = "up" /\ WindowsOf(App) # {}
  /\ \E w \in WindowsOf(App) :
       call' = [call EXCEPT !.pc = IF call.stage = "act" THEN "send" ELSE "read",
                  !.window = w, !.pid = Head(AppPids(App)),
                  !.moved = @ /\ call.stage # "gate"]
  /\ Alone

\* list_apps and list_windows; the process is the first that matches, the
\* window the main one of all that match.
ResolveWindow ==
  /\ call.pc = "resolve"
  /\ \/ /\ daemon = "up" /\ WindowsOf(App) # {}
        /\ call' = [call EXCEPT !.pc = IF call.stage = "act" THEN "send" ELSE "read",
                      !.window = MainWindow(App), !.pid = Head(AppPids(App)),
                      !.moved = @ /\ call.stage # "gate"]
     \/ Answers(IF daemon = "up" /\ WindowsOf(App) = {} THEN "APP_NOT_FOUND" ELSE "UPSTREAM_ERROR")
  /\ Alone

\* What comes after the reading the gate compares (a changed window ends the
\* call; that is module Facade's business).
AfterGate ==
  CASE call.tool = "observe" -> [call EXCEPT !.pc = "done", !.code = "ok"]
    [] call.tool = "real"    -> [call EXCEPT !.pc = "find"]
    [] OTHER                 -> [call EXCEPT !.pc = "probe", !.stage = "act"]

\* get_window_state of the window found; one that is gone is refused.
ReadWindow ==
  /\ call.pc = "read"
  /\ \/ /\ daemon = "up" /\ call.window \in Open
        /\ call' = IF call.stage = "gate" THEN [AfterGate EXCEPT !.read = call.window]
                   ELSE [call EXCEPT !.pc = "done", !.code = "ok"]
     \/ Fails
  /\ Alone

\* What _build_action_args passes on, ...
Fields(tool) ==
  CASE tool = "click"            -> {"app", "element_index"}
    [] tool = "click_at"         -> {"app", "x", "y"}
    [] tool = "drag"             -> {"app", "from_x", "from_y", "to_x", "to_y"}
    [] tool = "set_value"        -> {"app", "element_index", "value"}
    [] tool = "scroll"           -> {"app", "element_index", "direction", "pages"}
    [] tool = "type_text"        -> {"app", "text"}
    [] tool = "press_key"        -> {"app", "key"}
    [] tool = "secondary_action" -> {"app", "element_index", "action"}

\* ... the driver's name of it, ...
CuaTool(tool) ==
  CASE tool = "secondary_action" -> "right_click"
    [] tool = "click_at"         -> "click"
    [] OTHER                     -> tool

\* ... and what _build_call_args indexes without asking.
Needed(tool) ==
  CASE tool = "click_at"               -> {"x", "y"}
    [] CuaTool(tool) = "right_click"   -> {"x", "y"}
    [] tool = "drag"                   -> {"from_x", "from_y", "to_x", "to_y"}
    [] tool \in {"set_value", "type_text"} -> {"value"}
    [] tool = "press_key"              -> {"key"}
    [] OTHER                           -> {}

\* A refusal, or a time-out of a call that was carried out, ends the call; a
\* missing argument raises before anything is sent.
SendAction ==
  /\ call.pc = "send"
  /\ \/ /\ ~(Needed(call.tool) \subseteq Fields(call.tool))
        /\ Answers("EXCEPTION")
     \/ /\ Needed(call.tool) \subseteq Fields(call.tool)
        /\ \/ /\ daemon = "up"
              /\ call' = [call EXCEPT !.pc = "read", !.target = call.window]
           \/ Fails
  /\ Alone

-----------------------------------------------------------------------------
(* Real clicks: the client's own try, then the facade's. *)

ClickFails ==
  IF call.stage = "gate" THEN [call EXCEPT !.pc = "find", !.stage = "fallback"]
  ELSE [call EXCEPT !.pc = "done", !.code = "REAL_INPUT_FAILED"]

FindWindow(known) ==
  /\ call.pc = "find"
  /\ call' = IF Candidates(App, known) = {} THEN ClickFails
             ELSE LET w == Largest(Candidates(App, known))
                  IN  [call EXCEPT !.pc = "press", !.target = w, !.rect = Rect(w), !.known = known]
  /\ Alone

\* The window may have moved since: the point is where it was.
ClickReal ==
  /\ call.pc = "press"
  /\ \/ /\ InBounds(call.rect, call.offset[1], call.offset[2])
        /\ call' = [call EXCEPT !.pc = "probe", !.stage = "after",
                      !.spot = CursorAt(ScreenPoint(call.rect, call.offset[1], call.offset[2]))]
     \/ call' = ClickFails
  /\ Alone

-----------------------------------------------------------------------------
(* cu_window. *)

\* Several windows, or none, of this title are the caller's to tell apart.
Status(known) ==
  LET found == Candidates(App, known)
      left  == Narrowed(found, call.title)
  IN  /\ call.pc = "status"
      /\ CASE found = {}               -> Answers("APP_NOT_FOUND")
           [] found # {} /\ call.tool = "list" -> Answers("ok")
           [] OTHER ->
                IF Cardinality(left) # 1 THEN Answers("AMBIGUOUS_TARGET")
                ELSE call' = [call EXCEPT !.pc = "choose", !.window = Largest(left), !.moved = FALSE]
      /\ Alone

\* Faulty variant of Choose: the title is not passed on.
ChooseMain(known) ==
  /\ call.pc = "choose"
  /\ IF Candidates(App, known) = {} THEN Answers("APP_NOT_FOUND")
     ELSE call' = [call EXCEPT !.pc = "show", !.target = Largest(Candidates(App, known)), !.known = known]
  /\ Alone

\* activate_window and maximize_window look for it again, by its full title.
Choose(known) ==
  LET found == Candidates(App, known)
      picked == Picked(found, TitleOf[call.window])
  IN  /\ call.pc = "choose"
      /\ CASE found = {}                  -> Answers("APP_NOT_FOUND")
           [] found # {} /\ picked = {}   -> Answers("AMBIGUOUS_TARGET")
           [] OTHER -> call' = [call EXCEPT !.pc = "show", !.target = Largest(picked), !.known = known]
      /\ Alone

ShowChosen ==
  /\ call.pc = "show"
  /\ \/ /\ ShowAndForeground(call.target, IF call.tool = "activate" THEN "normal" ELSE "maximized")
        /\ Goes("again")
     \/ Answers("REAL_INPUT_FAILED") /\ UNCHANGED desktop
  /\ UNCHANGED <<moves, daemon, checked, deaths>>

\* The answer names the largest window that goes by the chosen one's title,
\* or failing that the largest of the app.
StatusAgain(known) ==
  LET found == Candidates(App, known)
      left  == Narrowed(found, TitleOf[call.window])
  IN  /\ call.pc = "again"
      /\ call' = IF found = {} THEN [call EXCEPT !.pc = "done", !.code = "APP_NOT_FOUND"]
                 ELSE [call EXCEPT !.pc = "done", !.code = "ok", !.known = @ /\ known,
                         !.read = Largest(IF left # {} THEN left ELSE found)]
      /\ Alone

-----------------------------------------------------------------------------

Outside ==
  /\ DesktopStep
  /\ call' = [call EXCEPT !.moved = call.pc # "idle"]
  /\ UNCHANGED <<daemon, checked, deaths>>

DaemonComesUp ==
  daemon = "starting" /\ daemon' = "up" /\ UNCHANGED <<windowVars, checked, deaths, call>>

DaemonDies ==
  /\ daemon # "down" /\ deaths < MaxDeaths
  /\ daemon' = "down" /\ deaths' = deaths + 1
  /\ UNCHANGED <<windowVars, checked, call>>

Init ==
  /\ WindowsInit
  /\ daemon \in {"down", "up"} /\ checked = FALSE /\ deaths = 0
  /\ call = NoCall

ClientStep ==
  \/ Probe \/ StartDaemon \/ Poll
  \/ ResolveWindow \/ ReadWindow \/ SendAction
  \/ ClickReal
  \/ \E known \in BOOLEAN : FindWindow(known) \/ Status(known) \/ Choose(known) \/ StatusAgain(known)
  \/ ShowChosen
  \/ Return

Next ==
  \/ \E tool \in Tools, title \in Titles, offset \in Offsets :
       /\ tool \notin WindowTools => title = NoText
       /\ tool # "real" => offset = CHOOSE o \in Offsets : TRUE
       /\ Begin(tool, title, offset)
  \/ ClientStep
  \/ Outside \/ DaemonComesUp \/ DaemonDies

\* The program's own steps happen; every call of the driver has a time-out.
Spec == Init /\ [][Next]_vars /\ WF_vars(ClientStep)

-----------------------------------------------------------------------------
(* Properties. *)

\* The two rules see the same windows, by name and by title, and one of them
\* is really on the screen and larger than a minimized one.
RulesAgree ==
  /\ call.known /\ Candidates(App, TRUE) = WindowsOf(App)
  /\ \E w \in WindowsOf(App) : shape[w] # "minimized" /\ Area(w) > Parked.w * Parked.h

\* An action reaches the window its gate read, as long as nobody changes the
\* desktop after that: the driver's actions always; a real click, if the rule
\* for clicks sees what the rule for readings does, and then within the
\* window's own pixels (of which a window beyond the screen shows none).
ActsOnReadWindow ==
  (call.target # NoWindow /\ call.tool \notin WindowTools /\ ~call.moved) =>
    IF call.tool # "real" THEN call.target = call.read
    ELSE RulesAgree => /\ call.target = call.read
                       /\ (call.spot # NoSpot /\ Pixels(Rect(call.read)) \cap Pixels(Screen) # {}) =>
                            call.spot \in Pixels(Rect(call.read))

\* cu_window never guesses: whatever happens to the desktop, the window it
\* shows goes by the title it was given; and if nothing happens, and the names
\* of the processes could be read, the window it found is the one it shows and the one it answers with.
ShowsTheChosen ==
  (call.tool \in {"activate", "maximize"} /\ call.target # NoWindow) =>
    /\ call.target \in Narrowed(WindowIds, call.title)
    /\ (call.code = "ok" /\ ~call.moved /\ call.known) =>
         /\ call.target = call.window /\ call.read = call.window
         /\ shape[call.window] = IF call.tool = "activate" THEN "normal" ELSE "maximized"

\* A window that is reported as covered cannot be seen: each of its pixels
\* belongs to a window above it.
OccludedIsHidden ==
  \A w \in Titled : Occluded(w) =>
    \A pixel \in Pixels(Rect(w)) :
      \E v \in Open : Index(v) < Index(w) /\ pixel \in Pixels(Rect(v))

\* Every call is answered, also while the daemon dies or never comes up.
CallsEnd == (call.pc # "idle") ~> (call.pc = "idle")
=============================================================================
