------------------------------- MODULE Recording -------------------------------
(***************************************************************************)
(* One recording session (record/recorder.py, record/win_hooks.py and      *)
(* cli._run_recorder_session): the hook thread captures input events and   *)
(* publishes the steps they make, the sampler thread reads the app's tree  *)
(* every few seconds or right after an action and publishes too, and the   *)
(* main thread waits for the stop, joins both and saves.                   *)
(***************************************************************************)
EXTENDS StepBuilder, FiniteSets

CONSTANT MaxEvents      \* bound: events captured in the session

ASSUME RecordingAssumption == MaxEvents \in Nat

VARIABLES
  events,      \* hook.events: the kinds of what was captured
  pass,        \* where build_steps stands after these events
  published,   \* _published
  wake,        \* _wake
  stopping,    \* stop_event
  throttled,   \* _last_action_snapshot_at is less than the gap ago
  hook,        \* the hook thread: where it is, and the steps it has to print
  sampler,     \* the sampler thread, likewise
  main,        \* the main thread
  saved,       \* the steps of the recording in the file
  screen,      \* history: how often each position was printed as [live]
  owed,        \* history: an action asked for a reading that has not begun
  due          \* history: the first so many events must be in the file

vars == <<events, pass, published, wake, stopping, throttled, hook, sampler, main,
          saved, screen, owed, due>>

Nothing == <<>>
Positions(lo, hi) == [i \in 1 .. (hi - lo) |-> lo + i]

-----------------------------------------------------------------------------
(* _publish_live_steps: under the lock the steps are built and the new ones *)
(* taken; the lock is given up before on_steps prints them.                 *)

\* Faulty variant of Publish: what is published is not remembered.
PublishForgotten(steps) ==
  [batch |-> Positions(published, Len(steps)), published |-> published]
Publish(steps) ==
  [batch |-> Positions(published, Len(steps)), published |-> Len(steps)]

Occurrences(n, s) == Cardinality({i \in DOMAIN s : s[i] = n})
Printed(batch) == [n \in DOMAIN screen |-> screen[n] + Occurrences(n, batch)]

-----------------------------------------------------------------------------
(* The hook thread. *)

\* Its first line gives it an id; a stop before that finds nothing to join, and
\* the loop, entered late, ends without a look at its queue.
HookStarts ==
  /\ hook.pc = "starting"
  /\ hook' = [hook EXCEPT !.pc = IF stopping THEN "ended" ELSE "loop"]
  /\ UNCHANGED <<events, pass, published, wake, stopping, throttled, sampler, main,
                 saved, screen, owed, due>>

\* _on_mouse, _on_keyboard: append the event; a press or a notch outside the
\* gap wakes the sampler.  Windows calls them until the loop has ended, also
\* after the stop.
Capture(kind) ==
  /\ hook.pc = "loop"
  /\ Len(events) < MaxEvents
  /\ events' = Append(events, kind)
  /\ pass' = Consume(pass, Len(events) + 1, kind)
  /\ hook' = [hook EXCEPT !.pc = "publish"]
  /\ IF (kind = "press" \/ IsWheel(kind)) /\ ~throttled
     THEN wake' = TRUE /\ throttled' = TRUE /\ owed' = TRUE
     ELSE UNCHANGED <<wake, throttled, owed>>
  /\ UNCHANGED <<published, stopping, sampler, main, saved, screen, due>>

\* A physical mouse and keyboard: the hook reports moves only while a press it
\* saw lasts, a notch or key is late after an earlier one, and a key is let go
\* that went down.  (A button or key already down when the session starts is
\* left out: letting it go makes no step.)
Buttons == {i \in DOMAIN events : events[i] \in {"press", "release"}}
Down == Buttons # {} /\ events[Max(Buttons)] = "press"
Earlier(kinds) == \E i \in DOMAIN events : events[i] \in kinds
Possible(kind) ==
  /\ kind \in {"move", "release"} => Down
  /\ kind = "press" => ~Down
  /\ kind = "wheel_late" => Earlier({"wheel"})
  /\ kind = "key_late" => Earlier({"key"})
  /\ kind = "key_up" => Earlier({"key", "special", "shortcut", "ime_key", "ime_shortcut"})

HookPublishes ==
  /\ hook.pc = "publish"
  /\ LET p == Publish(Ending(pass))
     IN  hook' = [pc |-> "print", batch |-> p.batch] /\ published' = p.published
  /\ UNCHANGED <<events, pass, wake, stopping, throttled, sampler, main, saved,
                 screen, owed, due>>

HookPrints ==
  /\ hook.pc = "print"
  /\ screen' = Printed(hook.batch)
  /\ hook' = [pc |-> "loop", batch |-> Nothing]
  /\ UNCHANGED <<events, pass, published, wake, stopping, throttled, sampler, main,
                 saved, owed, due>>

\* WM_HOTKEY of the stop combination: the event is set here, and the main thread
\* sees it later.
HotkeyPressed ==
  /\ hook.pc = "loop"
  /\ ~stopping
  /\ stopping' = TRUE
  /\ UNCHANGED <<events, pass, published, wake, throttled, hook, sampler, main, saved,
                 screen, owed, due>>

\* The message loop ends with the event or WM_QUIT; the finally unhooks.
HookEnds ==
  /\ hook.pc = "loop" /\ stopping
  /\ hook' = [hook EXCEPT !.pc = "ended"]
  /\ UNCHANGED <<events, pass, published, wake, stopping, throttled, sampler, main,
                 saved, screen, owed, due>>

HookStep == HookStarts \/ HookPublishes \/ HookPrints \/ HookEnds

GapPasses ==
  /\ throttled
  /\ throttled' = FALSE
  /\ UNCHANGED <<events, pass, published, wake, stopping, hook, sampler, main, saved,
                 screen, owed, due>>

-----------------------------------------------------------------------------
(* The sampler thread. *)

\* The loop's condition; then the upstream is asked for the tree.
SamplerBegins ==
  /\ sampler.pc = "loop"
  /\ IF stopping
     THEN sampler' = [sampler EXCEPT !.pc = "ended"] /\ UNCHANGED owed
     ELSE sampler' = [sampler EXCEPT !.pc = "reading"] /\ owed' = FALSE
  /\ UNCHANGED <<events, pass, published, wake, stopping, throttled, hook, main, saved,
                 screen, due>>

\* The reading comes back and is appended under the lock, or fails and is only
\* counted; what the tables hold decides no step's place, only its target.
SamplerReads ==
  /\ sampler.pc = "reading"
  /\ sampler' = [sampler EXCEPT !.pc = "publish"]
  /\ UNCHANGED <<events, pass, published, wake, stopping, throttled, hook, main, saved, screen,
                 owed, due>>

SamplerPublishes ==
  /\ sampler.pc = "publish"
  /\ LET p == Publish(Ending(pass))
     IN  sampler' = [pc |-> "print", batch |-> p.batch] /\ published' = p.published
  /\ UNCHANGED <<events, pass, wake, stopping, throttled, hook, main, saved, screen,
                 owed, due>>

\* Faulty variant of SamplerPrints: the event is cleared before the wait.
SamplerPrintsAndClears ==
  /\ sampler.pc = "print"
  /\ screen' = Printed(sampler.batch)
  /\ sampler' = [pc |-> "wait", batch |-> Nothing]
  /\ wake' = FALSE
  /\ UNCHANGED <<events, pass, published, stopping, throttled, hook, main, saved, owed, due>>
SamplerPrints ==
  /\ sampler.pc = "print"
  /\ screen' = Printed(sampler.batch)
  /\ sampler' = [pc |-> "wait", batch |-> Nothing]
  /\ UNCHANGED <<events, pass, published, wake, stopping, throttled, hook, main, saved,
                 owed, due>>

\* _wake.wait(remaining) returns: an action happened, or the interval is over.
SamplerWakes ==
  /\ sampler.pc = "wait"
  /\ sampler' = [sampler EXCEPT !.pc = IF wake THEN "clear" ELSE "loop"]
  /\ UNCHANGED <<events, pass, published, wake, stopping, throttled, hook, main, saved,
                 screen, owed, due>>

SamplerClears ==
  /\ sampler.pc = "clear"
  /\ wake' = FALSE
  /\ sampler' = [sampler EXCEPT !.pc = "loop"]
  /\ UNCHANGED <<events, pass, published, stopping, throttled, hook, main, saved,
                 screen, owed, due>>

\* What the sampler does without the upstream.
SamplerStep ==
  \/ SamplerBegins \/ SamplerPublishes \/ SamplerPrints
  \/ SamplerWakes \/ SamplerClears

-----------------------------------------------------------------------------
(* The main thread. *)

\* The deadline or Ctrl+C ends the wait, or the event was seen; hook.stop sets
\* it and posts WM_QUIT.
StopRequested ==
  /\ main = "waiting"
  /\ stopping' = TRUE
  /\ main' = "join_hook"
  /\ UNCHANGED <<events, pass, published, wake, throttled, hook, sampler, saved, screen,
                 owed, due>>

\* The hook thread has ended, or has no id yet and is not waited for.
HookJoined ==
  /\ main = "join_hook" /\ hook.pc \in {"ended", "starting"}
  /\ main' = "join_sampler"
  /\ UNCHANGED <<events, pass, published, wake, stopping, throttled, hook, sampler,
                 saved, screen, owed, due>>

\* Or five seconds pass, with the thread still in a callback or behind a full
\* queue: the stop goes on, and what comes now may be in the file or not.
HookGivenUp ==
  /\ main = "join_hook" /\ hook.pc \notin {"ended", "starting"}
  /\ main' = "join_sampler"
  /\ due' = Len(events)
  /\ UNCHANGED <<events, pass, published, wake, stopping, throttled, hook, sampler,
                 saved, screen, owed>>

\* Faulty variant of SamplerJoined: a join without a timeout.
SamplerJoinedAtEnd ==
  /\ main = "join_sampler" /\ sampler.pc = "ended"
  /\ main' = "build"
  /\ UNCHANGED <<events, pass, published, wake, stopping, throttled, hook, sampler, saved,
                 screen, owed, due>>

\* The sampler is waited for at most five seconds: it may sit in a slow
\* reading, or in a wait that stop does not end.
SamplerJoined ==
  /\ main = "join_sampler"
  /\ main' = "build"
  /\ UNCHANGED <<events, pass, published, wake, stopping, throttled, hook, sampler,
                 saved, screen, owed, due>>

\* Faulty variant of MayBuild: the hook thread may still append.
BuildAnyTime == main \in {"join_hook", "build"}
MayBuild == main = "build"

\* The steps, the focus step in front, and the file.
StopSaves ==
  /\ MayBuild
  /\ saved' = <<Step("focus", {})>> \o Ending(pass)
  /\ main' = "saved"
  /\ UNCHANGED <<events, pass, published, wake, stopping, throttled, hook, sampler, screen,
                 owed, due>>

MainStep ==
  \/ stopping /\ StopRequested
  \/ HookJoined \/ HookGivenUp
  \/ SamplerJoined \/ StopSaves

-----------------------------------------------------------------------------

Init ==
  /\ events = <<>> /\ pass = NoSteps /\ published = 0
  /\ wake = FALSE /\ stopping = FALSE /\ throttled = FALSE
  /\ hook = [pc |-> "starting", batch |-> Nothing]
  /\ sampler = [pc |-> "loop", batch |-> Nothing]
  /\ main = "waiting"
  /\ saved = Nothing
  /\ screen = [n \in 1 .. MaxEvents |-> 0] /\ owed = FALSE /\ due = MaxEvents

Next ==
  \/ \E kind \in Kinds : Possible(kind) /\ Capture(kind)
  \/ HookStep \/ HotkeyPressed \/ GapPasses
  \/ SamplerStep \/ SamplerReads
  \/ StopRequested \/ MainStep

\* Threads run; no reading of the upstream needs to come back.
Spec ==
  /\ Init /\ [][Next]_vars
  /\ WF_vars(HookStep) /\ WF_vars(SamplerStep) /\ WF_vars(MainStep)

-----------------------------------------------------------------------------
(* Properties. *)

\* Live feedback neither repeats nor skips a position of the step list, with
\* two threads publishing and whatever the events turn earlier steps into:
\* what was taken as new is printed, or in one thread's hands, exactly once.
LiveExactlyOnce ==
  \A n \in 1 .. MaxEvents :
    screen[n] + Occurrences(n, hook.batch) + Occurrences(n, sampler.batch)
      = IF n <= published THEN 1 ELSE 0

\* How many steps an event is in.
Uses(n, steps) == Cardinality({i \in DOMAIN steps : n \in steps[i].from})

\* Every press, notch and key went into exactly one step, wherever the
\* recording is stopped: in the middle of a drag, of a text, between two.  A
\* shortcut while an input method is open goes into the text it is part of,
\* if there is one; nothing goes into two.
EveryActionIsOneStep ==
  \A n \in DOMAIN events :
    /\ Uses(n, Ending(pass)) <= 1
    /\ IsAction(events[n]) => Uses(n, Ending(pass)) = 1

\* The file has the steps of all the input that was captured, also when the
\* recording is stopped before its hook thread runs.  If the stop gives up on
\* that thread, the file has every press, notch and key captured by then,
\* once; and is still the whole recording if nothing was captured since.
NothingMissed ==
  main = "saved" =>
    /\ Len(events) <= due => saved = <<Step("focus", {})>> \o Ending(pass)
    /\ \A n \in DOMAIN events : n <= due /\ IsAction(events[n]) => Uses(n, saved) = 1

\* An action that asked for a fresh reading gets one at once: the sampler
\* never settles down to wait out its interval while one is owed.
WakeNotLost == (sampler.pc = "wait" /\ owed) => wake

\* Once it is asked to stop, a session is saved, even if the upstream hangs.
StopSavesTheSession == stopping ~> (main = "saved")
=============================================================================
