---------------------------------- MODULE Desk ----------------------------------
(***************************************************************************)
(* Who shows the glow: the acts of a serving facade (server.py), and the   *)
(* recording sessions of the record command (cli.py), begun at once or, in *)
(* standby, by a global hotkey (record/standby.py).  One process runs one  *)
(* of these commands.                                                      *)
(*                                                                         *)
(* Windows posts the message of a hotkey to the queue of the thread that   *)
(* registered it; a message posted to a thread that has no queue yet is    *)
(* lost, and a thread has one from its first GetMessage on.                *)
(***************************************************************************)
EXTENDS Overlay

CONSTANT MaxPresses   \* bound: presses of the hotkey

ASSUME DeskAssumption == MaxPresses \in Nat

VARIABLES
  command,   \* "serve", "record", "standby" or "fake" (standby with --fake)
  main,      \* where the main thread is
  loop,      \* the listener's thread
  pressed,   \* _pressed
  inbox,     \* messages posted to the main thread and to the listener's
  presses    \* how often the hotkey was pressed

standbyVars == <<loop, pressed, inbox, presses>>
vars == <<overlayVars, command, main, standbyVars>>

Commands == {"serve", "record", "standby", "fake"}

MainGoes(pc) == main' = pc /\ UNCHANGED <<command, standbyVars>>

-----------------------------------------------------------------------------
(* Acts and sessions. *)

\* Where a show that raised leaves its caller: a session goes on without the
\* glow; an act raises.
AfterRaise == IF command = "serve" THEN "idle" ELSE "busy"
\* After hide, an act answers; a session saves, and standby waits again.  (The
\* next session would have an overlay of its own; see PressRecords.)
AfterHide ==
  CASE command = "serve"   -> "idle"
    [] command = "standby" -> "waiting"
    [] OTHER               -> "over"

Show ==
  /\ main = "idle"
  /\ \/ ShowReturnsAtOnce /\ MainGoes("busy")
     \/ ShowStarts /\ MainGoes("showing")

Showing ==
  /\ main = "showing"
  /\ \/ ShowReturns /\ MainGoes("busy")
     \/ ShowRaises /\ MainGoes(AfterRaise)

\* The action is over, or the session was stopped.
Hide ==
  /\ main = "busy" /\ command # "fake"
  /\ \/ HideReturnsAtOnce /\ MainGoes(AfterHide)
     \/ HidePosts /\ MainGoes("hiding")

Hiding ==
  /\ main = "hiding"
  /\ (HideReturns \/ HideGivesUp) /\ MainGoes(AfterHide)

\* The last line of the command; or Ctrl+C where it is not caught: between
\* the acts of a server, and while a session shows the glow.
End ==
  /\ \/ main = "over"
     \/ main = "idle" /\ command = "serve"
     \/ main = "showing"
     \/ main = "busy" /\ command = "fake"
  /\ Gone /\ MainGoes("ended")

-----------------------------------------------------------------------------
(* Standby. *)

NoLoop == [pc |-> "none", tid |-> FALSE]

\* register: the key is registered by the main thread, and the listener's
\* thread started; a key that is taken ends the command.
Register ==
  /\ main = "register"
  /\ \/ /\ loop' = [pc |-> "starting", tid |-> FALSE] /\ main' = "waiting"
        /\ UNCHANGED <<overlayVars, command, pressed, inbox, presses>>
     \/ MainGoes("ended") /\ UNCHANGED overlayVars

\* The key is pressed while it is registered.
Press ==
  /\ main = "waiting" /\ command = "standby" /\ presses < MaxPresses
  /\ presses' = presses + 1
  /\ inbox' = [inbox EXCEPT !.main = Append(@, "hotkey")]
  /\ UNCHANGED <<overlayVars, command, main, loop, pressed>>

\* wait returned, or there is no listener: the foreground window is recorded
\* (or, having no title, skipped).
StandbyRecords ==
  /\ main = "waiting" /\ (command = "fake" \/ pressed)
  /\ UNCHANGED overlayVars
  /\ \/ MainGoes(IF command = "fake" THEN "busy" ELSE "idle")
     \/ MainGoes(IF command = "fake" THEN "over" ELSE "waiting")

\* Ctrl+C: stop wakes whoever waits, gives the key back, and asks the thread
\* to quit if it can be reached.
Stop ==
  /\ main = "waiting" /\ command = "standby"
  /\ pressed' = TRUE
  /\ main' = IF loop.pc # "ended" /\ loop.tid THEN "stopping" ELSE "over"
  /\ inbox' = IF loop.pc = "getting" /\ loop.tid
              THEN [inbox EXCEPT !.loop = Append(@, "quit")] ELSE inbox
  /\ UNCHANGED <<overlayVars, command, loop, presses>>

\* Faulty variant of Joined: the join has no time limit.
JoinedInFull == loop.pc = "ended"
\* join(timeout=5) returns in any case.
Joined == TRUE
Stopped ==
  /\ main = "stopping" /\ Joined
  /\ MainGoes("over") /\ UNCHANGED overlayVars

\* The listener's thread: it makes itself known, looks at _pressed and calls
\* GetMessage, ...
LoopStarts ==
  /\ \/ /\ loop.pc = "starting" /\ ~loop.tid
        /\ loop' = [loop EXCEPT !.tid = TRUE]
     \/ /\ loop.pc = "starting" /\ loop.tid
        /\ loop' = [loop EXCEPT !.pc = IF pressed THEN "ended" ELSE "checked"]
     \/ /\ loop.pc = "checked"
        /\ loop' = [loop EXCEPT !.pc = "getting"]
  /\ UNCHANGED <<overlayVars, command, main, pressed, inbox, presses>>

\* ... which ends it with "quit" as well as with "hotkey".
LoopTakes ==
  /\ loop.pc = "getting" /\ inbox.loop # <<>>
  /\ pressed' = (pressed \/ Head(inbox.loop) = "hotkey")
  /\ inbox' = [inbox EXCEPT !.loop = Tail(@)]
  /\ loop' = [loop EXCEPT !.pc = "ended"]
  /\ UNCHANGED <<overlayVars, command, main, presses>>

-----------------------------------------------------------------------------

Init ==
  /\ OverlayInit
  /\ command \in Commands
  /\ main = CASE command = "standby" -> "register"
              [] command = "fake"    -> "waiting"
              [] OTHER               -> "idle"
  /\ loop = NoLoop /\ pressed = FALSE
  /\ inbox = [main |-> <<>>, loop |-> <<>>] /\ presses = 0

OverlayThread(t) == main # "ended" /\ ThreadStep(t) /\ UNCHANGED <<command, main, standbyVars>>
MainStep == Showing \/ Hide \/ Hiding \/ StandbyRecords \/ Stopped
ListenerStep == main # "ended" /\ (LoopStarts \/ LoopTakes)

Next ==
  \/ Show \/ MainStep \/ End \/ Register \/ Press \/ Stop
  \/ ListenerStep
  \/ \E t \in Started : OverlayThread(t)

\* Threads are scheduled, and every wait and action of the main thread ends.
\* Nobody needs to act, to press the key or to quit.
Spec ==
  /\ Init /\ [][Next]_vars
  /\ WF_vars(MainStep) /\ WF_vars(ListenerStep)
  /\ \A t \in 1 .. MaxShows : WF_vars(t \in Started /\ OverlayThread(t))

-----------------------------------------------------------------------------
(* Properties. *)

\* Once hide has returned nothing glows, so that no snapshot is taken of the
\* glow between acts and none is left on the screen, unless a wait ran out.
DarkWhenHidden ==
  (main \in {"idle", "over", "ended"} /\ "late" \notin trouble) => lit = {}

\* If nothing went wrong, an act finds no thread and no window of the one
\* before: otherwise show would return at once and the act go on unseen.
NextShowIsFresh ==
  (main = "idle" /\ trouble = {}) => hwnds = {} /\ \A t \in Started : Ended(t)

\* Whatever went wrong before, a thread that was told to hide ends, in the
\* middle of an animation, too, and takes its windows with it.
ToldThreadsEnd ==
  \A t \in 1 .. MaxShows :
    (t \in Started /\ Contains(threads[t].queue, "hide"))
      ~> (t \in Started /\ Ended(t) /\ Of(t) = {})

\* Ctrl+C ends a standby, also when it comes before the listener's thread has
\* a queue, so that the message to quit is lost.
StandbyStops == (main = "stopping") ~> (main \in {"over", "ended"})

\* RECORDING.md lines 52-54: in standby, "Press it to record the current
\* foreground window".
PressRecords ==
  (main = "waiting" /\ presses > 0) ~> (main # "waiting")
=============================================================================
