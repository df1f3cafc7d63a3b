-------------------------------- MODULE Replay --------------------------------
(***************************************************************************)
(* Replaying a recording (record/replay.py): each step observes the app,   *)
(* finds its target, acts through the facade and feeds the memory.  A step *)
(* refused as stale is tried again from its observation, a capped number   *)
(* of times; so is each key of a text that is typed as raw keys.           *)
(*                                                                         *)
(* The facade answers as module ActPromise allows (which module Facade     *)
(* implements); the memory is a session of module Library, next to the     *)
(* sessions of other processes.                                            *)
(***************************************************************************)
EXTENDS Library, ActOutcomes

CONSTANTS
  Runner,           \* the process that replays
  Demonstrations,   \* recordings replayed: sequences of steps
  Libraries,        \* what the memory file may hold at the start
  Views,            \* live elements: sequences of scores against a target, in percent
  MaxStaleRetries   \* max_stale_retries

VARIABLES
  run,       \* the run: where it is, and the step in progress
  outcomes,  \* per step that is over: whether it went well, and what the memory was told
  typed,     \* history: keys of the step that got past the gate, in order
  acts       \* history: acts of the step that were not refused

replayVars == <<run, outcomes, typed, acts>>
vars == <<libraryVars, replayVars>>

\* A recorded step: its action and component, its target, coordinates and raw
\* keys if there are any, and the commit flag.
StepTypes ==
  [action : {"focus", "click", "scroll", "drag", "type_text", "press_key"},
   id : Ids, target : BOOLEAN, coords : BOOLEAN, keys : Nat, commit : BOOLEAN]

ASSUME ReplayAssumption ==
  /\ Runner \in Processes /\ MaxStaleRetries \in Nat
  /\ Demonstrations \subseteq Seq(StepTypes) /\ Views \subseteq Seq(0 .. 100)
  /\ \A lib \in Libraries :
       /\ LibraryType(lib) /\ Resolves(lib)
       /\ IsFiniteSet(DOMAIN lib.comp) /\ IsFiniteSet(DOMAIN lib.tmpl)

NoRun == [pc |-> "idle", steps |-> <<>>, at |-> 0, retries |-> 0,
          key |-> 0, keyRetries |-> 0, code |-> "none", by |-> "none", remember |-> FALSE,
          told |-> <<>>]

ThisStep == run.steps[run.at]

-----------------------------------------------------------------------------
(* match_target. *)

Threshold == 75

\* Live elements as their sources and scores, controls before vision.
Candidates(controls, vision) ==
  [i \in DOMAIN controls |-> [source |-> "element", score |-> controls[i]]]
    \o [i \in DOMAIN vision |-> [source |-> "vision", score |-> vision[i]]]

\* The first of the best, if it is good enough.
MatchTarget(controls, vision) ==
  LET all  == Candidates(controls, vision)
      best == {i \in DOMAIN all : /\ all[i].score >= Threshold
                                  /\ \A j \in DOMAIN all : all[j].score <= all[i].score}
  IN  IF best = {} THEN "none" ELSE all[Min(best)].source

\* How a step is carried out, given what its target matched.
Resolution(step, match) ==
  CASE step.action = "drag" /\ step.coords -> "coords"
    [] match # "none" -> match
    [] step.action = "click" /\ step.coords -> "coords"
    [] step.action = "type_text" /\ step.keys > 0 -> "keys"
    [] step.action \in {"type_text", "press_key"} -> "focus"
    [] OTHER -> "error"

-----------------------------------------------------------------------------
(* The run and its steps. *)

\* With --library the memory is read first; if it cannot be, nothing runs.
StartReplay(steps, remember) ==
  /\ run.pc = "idle"
  /\ IF remember THEN Open(Runner, <<>>) ELSE UNCHANGED libraryVars
  /\ run' = [NoRun EXCEPT !.pc = IF remember /\ ~Opened.readable THEN "raised" ELSE "next",
                          !.steps = steps, !.at = 1, !.remember = remember]
  /\ UNCHANGED <<outcomes, typed, acts>>

\* The runner goes on with its own state only.
Goes(next) == run' = next /\ UNCHANGED <<libraryVars, outcomes, typed, acts>>

\* An exception that nothing in the runner catches ends the whole run, and
\* with it the command.
Broken ==
  /\ run' = [NoRun EXCEPT !.pc = "raised"] /\ typed' = <<>> /\ acts' = 0
  /\ session' = [session EXCEPT ![Runner] = NoSession]
Raise == Broken /\ UNCHANGED <<disk, commands, whole, swallowed, outcomes>>

\* The step is over; the next one begins whatever its outcome was.
Conclude(ok) ==
  /\ run' = [NoRun EXCEPT !.pc = "next", !.steps = run.steps, !.at = run.at + 1,
                          !.remember = run.remember]
  /\ outcomes' = Append(outcomes, [ok |-> ok, told |-> run.told])
  /\ typed' = <<>> /\ acts' = 0
  /\ UNCHANGED libraryVars

\* focus_window, without asking; what it raises is not caught.
Focus ==
  /\ run.pc = "next" /\ run.at <= Len(run.steps) /\ ThisStep.action = "focus"
  /\ \/ Goes([run EXCEPT !.pc = "record", !.code = "ok", !.by = "window"])
     \/ Raise

\* A content step is confirmed (or --yes was given) or declined.
Confirm ==
  /\ run.pc = "next" /\ run.at <= Len(run.steps) /\ ThisStep.action # "focus"
  /\ \/ Goes([run EXCEPT !.pc = "observe"])
     \/ Conclude(FALSE)

\* cu_observe, at the beginning of each attempt.  One that fails is not tried
\* again, and the memory is told nothing of it.
Observe ==
  /\ run.pc = "observe"
  /\ \/ Goes([run EXCEPT !.pc = "resolve"])
     \/ Conclude(FALSE)
     \/ Raise

\* focus_window comes before coordinates, and may raise.
Resolve(controls, vision) ==
  LET match == IF ThisStep.target THEN MatchTarget(controls, vision) ELSE "none"
      by    == Resolution(ThisStep, match)
      found == [run EXCEPT !.by = by, !.key = 1, !.keyRetries = 0]
  IN  /\ run.pc = "resolve"
      /\ \/ by = "keys" /\ Goes([found EXCEPT !.pc = "keys"])
         \/ by = "error" /\ Goes([found EXCEPT !.pc = "record", !.code = "ELEMENT_NOT_FOUND"])
         \/ by \notin {"keys", "error"} /\ Goes([found EXCEPT !.pc = "act"])
         \/ by = "coords" /\ Raise

\* A call that is refused before anything is sent, as stale or for its arguments.
Refused(code) == code \in {"STALE_STATE", "INVALID"}

\* The one cu_act of a step that is not a sequence of keys.
ActOnce ==
  /\ run.pc = "act"
  /\ \E o \in Outcomes(ThisStep.commit) :
       IF o.code = "EXCEPTION" THEN Raise
       ELSE /\ run' = [run EXCEPT !.pc = "record", !.code = o.code]
            /\ acts' = IF Refused(o.code) THEN acts ELSE acts + 1
            /\ UNCHANGED <<libraryVars, outcomes, typed>>

\* Faulty variant of Recovers: a key that failed is pressed again, too.
RecoversAny(code) == code # "ok" /\ run.keyRetries < MaxStaleRetries
\* _press_key_with_recovery: only a refused key is pressed again.
Recovers(code) == code = "STALE_STATE" /\ run.keyRetries < MaxStaleRetries

PressKey ==
  /\ run.pc = "keys"
  /\ \E o \in Outcomes(ThisStep.commit) :
       IF o.code = "EXCEPTION" THEN Raise
       ELSE /\ run' =
                 CASE Recovers(o.code) ->
                        [run EXCEPT !.pc = "reobserve", !.keyRetries = @ + 1]
                   [] o.code = "ok" /\ run.key < ThisStep.keys ->
                        [run EXCEPT !.key = @ + 1, !.keyRetries = 0]
                   [] OTHER -> [run EXCEPT !.pc = "record", !.code = o.code]
            /\ typed' = IF Refused(o.code) THEN typed ELSE Append(typed, run.key)
            /\ UNCHANGED <<libraryVars, outcomes, acts>>

\* An observation that fails leaves the key refused.
Reobserve ==
  /\ run.pc = "reobserve"
  /\ \/ Goes([run EXCEPT !.pc = "keys"])
     \/ Goes([run EXCEPT !.pc = "record", !.code = "STALE_STATE"])
     \/ Raise

\* Faulty variant of Feeds: every attempt tells the memory.
FeedsAlways == run.remember
\* Only the first attempt of a step does.
Feeds == run.remember /\ run.retries = 0

\* record_use, up to its save.
Record ==
  /\ run.pc = "record"
  /\ run' = [run EXCEPT !.pc = "judge",
               !.told = IF Feeds THEN Append(@, run.code = "ok") ELSE @]
  /\ session' = IF Feeds
                THEN [session EXCEPT ![Runner].pc = "save",
                        ![Runner].lib = Used(@, ThisStep.id, run.code = "ok")]
                ELSE session
  /\ UNCHANGED <<disk, commands, whole, swallowed, outcomes, typed, acts>>

Save == (Truncate(Runner) \/ WriteOut(Runner)) /\ UNCHANGED replayVars

\* Faulty variants of Again: retries are not counted; any failure is retried.
AgainForever == [run EXCEPT !.pc = "observe", !.code = "none"]
Again == [run EXCEPT !.pc = "observe", !.code = "none", !.retries = @ + 1]

RetriesAny == run.code # "ok" /\ run.retries < MaxStaleRetries
Retries == run.code = "STALE_STATE" /\ run.retries < MaxStaleRetries

\* A step that is still stale is tried again from its observation.
Judge ==
  /\ run.pc = "judge" /\ (run.remember => At(Runner, "ready"))
  /\ IF Retries THEN Goes(Again) ELSE Conclude(run.code = "ok")

FinishReplay ==
  /\ run.pc = "next" /\ run.at > Len(run.steps)
  /\ run' = [NoRun EXCEPT !.pc = "done"]
  /\ session' = [session EXCEPT ![Runner] = NoSession]
  /\ UNCHANGED <<disk, commands, whole, swallowed, outcomes, typed, acts>>

\* The process dies, or a write of the memory fails.
RunnerDies ==
  /\ Working(Runner)
  /\ Raise

-----------------------------------------------------------------------------

Init ==
  /\ whole \in Libraries /\ LibraryInit
  /\ run = NoRun /\ outcomes = <<>> /\ typed = <<>> /\ acts = 0

RunnerStep ==
  \/ Focus \/ Confirm \/ Observe
  \/ \E controls, vision \in Views : Resolve(controls, vision)
  \/ ActOnce \/ PressKey \/ Reobserve \/ Record \/ Save \/ Judge \/ FinishReplay

\* Another process works on the library.
OtherStep(p) ==
  /\ (\E todo \in Todos : Open(p, todo)) \/ SessionStep(p) \/ Die(p)
  /\ UNCHANGED replayVars

Next ==
  \/ \E steps \in Demonstrations, remember \in BOOLEAN : StartReplay(steps, remember)
  \/ RunnerStep \/ RunnerDies
  \/ \E p \in Processes \ {Runner} : OtherStep(p)

\* The facade and the upstream answer every call (CallsReturn of module
\* Facade), and who is asked to confirm does or declines.
Spec == Init /\ [][Next]_vars /\ WF_vars(RunnerStep)

-----------------------------------------------------------------------------
(* Properties. *)

\* The types of the run's state, and of the memory's.
ReplayTypeOK ==
  /\ LibraryTypeOK
  /\ run.pc \in {"idle", "next", "observe", "resolve", "act", "keys", "reobserve",
                 "record", "judge", "done", "raised"}
  /\ run.at \in 0 .. Len(run.steps) + 1
  /\ run.retries \in 0 .. MaxStaleRetries /\ run.keyRetries \in 0 .. MaxStaleRetries
  /\ run.pc \in {"observe", "resolve", "act", "keys", "reobserve", "record", "judge"}
       => run.at \in DOMAIN run.steps
  /\ run.steps \in Seq(StepTypes) /\ acts \in Nat /\ typed \in Seq(Nat)

\* However often a step is tried again, at most one act of it is ever let
\* through to the desktop: it is retried only after refusals, and a refusal
\* means that nothing was sent.
ActedOncePerStep == acts <= 1

\* The raw keys of a text are pressed in their order, each once, as long as
\* the step itself was not begun again; and a text that is reported as typed
\* was typed to its end by the last attempt.
KeysInOrder ==
  /\ run.retries = 0 => typed = [i \in DOMAIN typed |-> i]
  /\ (run.pc = "record" /\ run.by = "keys" /\ run.code = "ok") =>
        IsSuffix([i \in 1 .. ThisStep.keys |-> i], typed)

\* The memory hears of a step at most once, and of every step that got as far
\* as acting or looking for its target; what it hears is how the first attempt
\* went, so a step is never counted as a hit that failed.
FeedbackOnce ==
  /\ Len(run.told) <= 1
  /\ run.pc = "judge" /\ run.remember => Len(run.told) = 1
  /\ \A i \in DOMAIN outcomes :
       /\ Len(outcomes[i].told) <= 1
       /\ outcomes[i].told = <<TRUE>> => outcomes[i].ok

\* A run that was begun ends, however often the app refuses.
RunEnds == (run.pc # "idle") ~> (run.pc \in {"done", "raised"})

\* RECORDING.md lines 75-78: when there is no text, "replay presses the
\* original keys in order, which is semantically equivalent".
KeysPressedOnce == typed = [i \in DOMAIN typed |-> i]
=============================================================================
