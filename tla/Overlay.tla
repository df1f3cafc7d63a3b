-------------------------------- MODULE Overlay --------------------------------
(***************************************************************************)
(* The glow around the screen (record/overlay.py, WinGlowOverlay).  show   *)
(* starts a thread that makes one window per edge and waits until the      *)
(* thread says it is ready; hide posts the thread a message and waits for  *)
(* its end.  Both waits are bounded, and the threads share the fields of   *)
(* the one overlay object: a thread that outlived its wait meets the next  *)
(* one.  A window is dark until it is first drawn.                         *)
(***************************************************************************)
EXTENDS Naturals, Sequences, SequencesExt

CONSTANTS
  Edges,        \* how many windows a thread makes
  MaxShows      \* bound: calls of show

ASSUME OverlayAssumption == Edges \in Nat \ {0} /\ MaxShows \in Nat

VARIABLES
  hwnds,     \* _hwnds: windows <<thread, edge>>
  thread,    \* _thread: the thread last started, or 0
  tid,       \* _thread_id: the thread that announced itself last, or 0
  ready,     \* _ready
  threads,   \* the threads: where each is, its next window, its messages
  windows,   \* the windows there are
  lit,       \* those that have been drawn
  shows,     \* how often show was called
  trouble    \* history: "late" once a wait ran out, "failed" once show found no windows

overlayVars == <<hwnds, thread, tid, ready, threads, windows, lit, shows, trouble>>

Started == 1 .. Len(threads)
Of(t) == {w \in windows : w[1] = t}
Ended(t) == t \in Started /\ threads[t].pc = "ended"

-----------------------------------------------------------------------------
(* show and hide, as their callers see them; a result is a state of main.  *)

\* PostThreadMessage: a thread that is not there (any more) gets nothing.
Posted(t, message) ==
  IF t = 0 \/ Ended(t) THEN threads
  ELSE [threads EXCEPT ![t].queue = Append(@, message)]

NewThread == [pc |-> "start", edge |-> 1, queue |-> <<>>]

\* A second show finds the windows of the first and leaves it at that.
ShowReturnsAtOnce ==
  /\ hwnds # {} /\ shows < MaxShows
  /\ shows' = shows + 1
  /\ UNCHANGED <<hwnds, thread, tid, ready, threads, windows, lit, trouble>>

ShowStarts ==
  /\ hwnds = {} /\ shows < MaxShows
  /\ shows' = shows + 1
  /\ ready' = FALSE
  /\ threads' = Append(threads, NewThread)
  /\ thread' = Len(threads')
  /\ UNCHANGED <<hwnds, tid, windows, lit, trouble>>

\* There are windows: whoever announced itself last is told to draw them.
ShowReturns ==
  /\ ready /\ hwnds # {}
  /\ threads' = Posted(tid, "update")
  /\ UNCHANGED <<hwnds, thread, tid, ready, windows, lit, shows, trouble>>

ShowRaises ==
  \/ ready /\ hwnds = {} /\ trouble' = trouble \cup {"failed"}
     /\ UNCHANGED <<hwnds, thread, tid, ready, threads, windows, lit, shows>>
  \/ ~ready /\ trouble' = trouble \cup {"late"}
     /\ UNCHANGED <<hwnds, thread, tid, ready, threads, windows, lit, shows>>

\* There is no thread, or it has ended.
HideReturnsAtOnce ==
  /\ (thread = 0 \/ Ended(thread))
  /\ hwnds' = {}
  /\ UNCHANGED <<thread, tid, ready, threads, windows, lit, shows, trouble>>

HidePosts ==
  /\ thread # 0 /\ ~Ended(thread)
  /\ threads' = Posted(tid, "hide")
  /\ UNCHANGED <<hwnds, thread, tid, ready, windows, lit, shows, trouble>>

\* Faulty variant of HideReturns: hide does not wait for the thread.
HideReturnsEarly ==
  /\ thread' = 0
  /\ UNCHANGED <<hwnds, tid, ready, threads, windows, lit, shows, trouble>>
HideReturns ==
  /\ Ended(thread)
  /\ thread' = 0
  /\ UNCHANGED <<hwnds, tid, ready, threads, windows, lit, shows, trouble>>

HideGivesUp ==
  /\ ~Ended(thread)
  /\ thread' = 0 /\ trouble' = trouble \cup {"late"}
  /\ UNCHANGED <<hwnds, tid, ready, threads, windows, lit, shows>>

-----------------------------------------------------------------------------
(* The threads. *)

Goes(t, pc) == threads' = [threads EXCEPT ![t].pc = pc]

\* The window class is registered, or the thread gives up.
RegisterClass(t) ==
  /\ threads[t].pc = "start"
  /\ \/ Goes(t, "make") /\ UNCHANGED ready
     \/ Goes(t, "ended") /\ ready' = TRUE
  /\ UNCHANGED <<hwnds, thread, tid, windows, lit, shows, trouble>>

\* There is an edge left to make a window for.
Unmade(t) == threads[t].edge <= Edges

\* One window; one that cannot be made is left out.
MakeWindow(t) ==
  /\ threads[t].pc = "make" /\ Unmade(t)
  /\ threads' = [threads EXCEPT ![t].edge = @ + 1]
  /\ LET new == <<t, threads[t].edge>>
     IN  \/ windows' = windows \cup {new} /\ hwnds' = hwnds \cup {new}
         \/ UNCHANGED <<windows, hwnds>>
  /\ UNCHANGED <<thread, tid, ready, lit, shows, trouble>>

Announce(t) ==
  /\ threads[t].pc = "make" /\ ~Unmade(t)
  /\ tid' = t /\ ready' = TRUE
  /\ Goes(t, "pump")
  /\ UNCHANGED <<hwnds, thread, windows, lit, shows, trouble>>

\* A thread can destroy its own windows only, of those in the common list.
Destroyed(t) == hwnds \cap Of(t)

\* Faulty variant of Obeys: an animation takes every message and heeds none.
ObeysInPump(t) == threads[t].pc = "pump"
\* Where a thread heeds "hide": in the pump and between two frames.
Obeys(t) == threads[t].pc \in {"pump", "animate"}

\* The next message, in the pump or between two frames.
Take(t) ==
  LET message == Head(threads[t].queue)
      pc == CASE message = "hide" /\ Obeys(t)      -> "quit"
              [] message = "update" /\ hwnds # {} -> "animate"
              [] OTHER                             -> threads[t].pc
  IN  /\ threads[t].pc \in {"pump", "animate"} /\ threads[t].queue # <<>>
      /\ threads' = [threads EXCEPT ![t].queue = Tail(@), ![t].pc = pc]
      /\ windows' = IF pc = "quit" THEN windows \ Destroyed(t) ELSE windows
      /\ lit' = lit \cap windows'
      /\ UNCHANGED <<hwnds, thread, tid, ready, shows, trouble>>

\* One frame draws every window of the list, whoever made it.
Frame(t) ==
  /\ threads[t].pc = "animate"
  /\ lit' = lit \cup (hwnds \cap windows)
  /\ UNCHANGED <<hwnds, thread, tid, ready, threads, windows, shows, trouble>>

\* Faulty variant of Cleared: the thread leaves the list as it is.
Uncleared == hwnds
Cleared == {}

\* The thread empties the list and ends; Windows destroys what it still owns.
EndThread(t) ==
  /\ threads[t].pc = "quit"
  /\ hwnds' = Cleared
  /\ Goes(t, "ended")
  /\ windows' = windows \ Of(t) /\ lit' = lit \ Of(t)
  /\ UNCHANGED <<thread, tid, ready, shows, trouble>>

ThreadStep(t) ==
  RegisterClass(t) \/ MakeWindow(t) \/ Announce(t) \/ Take(t) \/ Frame(t) \/ EndThread(t)

-----------------------------------------------------------------------------

OverlayInit ==
  /\ hwnds = {} /\ thread = 0 /\ tid = 0 /\ ready = FALSE
  /\ threads = <<>> /\ windows = {} /\ lit = {} /\ shows = 0 /\ trouble = {}

\* The process ends, and its threads and windows with it.
Gone ==
  /\ threads' = [t \in Started |-> [threads[t] EXCEPT !.pc = "ended", !.queue = <<>>]]
  /\ windows' = {} /\ lit' = {}
  /\ UNCHANGED <<hwnds, thread, tid, ready, shows, trouble>>
=============================================================================
