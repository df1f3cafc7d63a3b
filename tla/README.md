# A verification of lean-computer-use-mcp

TLA+ models of the program under `src/src/lean_computer_use_mcp`, the TLC runs
that check them on small instances, and proofs that TLAPS checks for every
value of the constants. File names below are relative to that directory.
`PROJECT.json` names the source lines of every definition, the hazards each
property is about and the mutants that show it can fail.

    tlc -workers 2 -config Facade.cfg MCFacade     # one run
    tlapm FacadeProofs.tla                         # one proof

## 1. The system

An agent drives desktop applications through an MCP server. The server gives
it compact *snapshots* of a window and lets it act only on a snapshot that is
still the newest and still true. Around this are a recorder of demonstrations,
a replayer, a library of what was learnt, vision models that read windows
without a control tree, and a shared file of model endpoints.

| Part | State it keeps | Operations | Talks to |
|---|---|---|---|
| Snapshot store `state/store.py` | snapshots by id, current id per app | put, get (three refusals), invalidate, purge | the facade |
| Facade `server.py` | store, overlay, vision engines and their latches | observe, act, batch, window, find_app | upstream (subprocess), overlay thread, vision |
| Upstreams `upstream/` | whether the daemon was seen | ensure the daemon, resolve a window, read, act, real click | the cua-driver's daemon, Win32, the desktop |
| Real input `upstream/win_input.py` | none | find and choose windows, coverage, show, click | Win32; called by the facade's real clicks and by `cu_window` |
| Overlay `record/overlay.py` | window handles, thread, ready event | show, hide | its window thread, by messages |
| Failover pool `vision/pool.py` | cooldown per provider | candidates, mark_success, mark_failure | clients in `vision/llm.py`, `memory/llm_client.py` |
| Escalation `server.py:808-875` | upgrade engine, cooldown, unavailable latch | `_escalate_vision` | the pool's clients |
| Configuration `config_store.py`, `config_ui.py`, `cli.py` | one JSON file, one lock file, the pages in browsers | add, remove, reorder, page load, page save | other processes, through the file |
| Recorder `record/recorder.py`, `win_hooks.py`, `steps.py` | events, readings, published count, wake and stop events | capture, publish, sample, stop | three threads and the upstream |
| Standby `record/standby.py` | hotkey, pressed event, loop thread | register, wait, stop | the recorder session |
| Replay `record/replay.py` | the outcomes so far | run, attempt, stale retries | the facade, the library |
| Library `memory/` | components and templates, one JSON file | learn, record_use, add_alias, curate (`refine.py`) | replay and the command line, other processes through the file |

Everything else is a function of its arguments or plain input and output
(fingerprints, parsing, diffs, prompts, ranking, settings, diagnostics).

### What is hard, and what makes each part correct

* **Freshness (store, facade).** The desktop changes between any two calls the
  agent makes, and during them. A plan must be the newest snapshot of its own
  app, not too old, and shown again by the live window before input is sent;
  it is good for one success. A self-drawn window has a constant tree, so the
  picture decides.
* **What an answer means (facade, replay).** Replay retries on `STALE_STATE`,
  so that code must mean that nothing was sent, whatever the upstream did
  before it raised. `ActPromise` says what may be relied on; the facade is
  shown to keep it and the runner relies on nothing else.
* **Partial failure (facade).** A picture may be missing; a full disk raises
  after the store has moved on; no way out of an act may leave the glow where
  the next gate takes its picture; and hiding it may itself give up.
* **Which window (upstreams).** Each reading, action, click and `cu_window`
  finds its window anew, by two different rules, while windows open, close,
  move and are minimized; the daemon may die in between.
* **Several processes on one file (configuration, library).** Locks time out,
  writers die, pages hold old content for hours, modification times are coarse;
  the library has no lock at all.
* **Cooldowns (pool, escalation).** The order of attempts is fixed when a
  request begins and time goes on during it; what a failure teaches must
  outlive the request, and must be forgotten in the end.
* **Threads (recorder, overlay, standby).** Two threads publish from one
  growing list whose earlier steps may still change; a wake-up meets a clear;
  a stop meets a reading that hangs; a window thread outlives the wait for it
  and meets the next one; a message is posted to a thread without a queue.
* **Retries (replay).** A step is retried as a whole, a key by itself; the
  memory must hear of a step once.

`PROJECT.json` lists these as hazards, each at its line.

## 2. The modules

| Module | Models | Variables and actions |
|---|---|---|
| `StateStore` | `state/store.py` | `snapshots`, `current` as the two dicts; `Put` is put with its trailing `_purge`, `Get` splits into served, superseded and lost (with `invalidate`); `SetClock` moves the wall clock either way |
| `FreshPlan` | what the store promises | one plan per app: observed, accepted, refused; abstract, implemented by `StateStore` (`PlanSpec`) |
| `Facade` (extends `StateStore`) | observe, act, batch | `call` is the act in progress, its `pc` the calls to the outside: gate read, overlay, send, fallback click, reading after the action, finish or fail; between any two, `DesktopChange` and `TimePasses` |
| `ActOutcomes`, `ActPromise` | what an act promises its caller | call, at most two inputs, answer; abstract, implemented by `Facade` (`KeepsPromise`) |
| `Replay` (extends `Library`, `ActOutcomes`) | `record/replay.py` | `run` is the step in progress: confirm, observe, resolve, act or press keys, record, judge; acts end as `Outcomes` allows |
| `Components` | `memory/model.py`, `extract.py`, `apply_suggestions` | functions from a library to the next: learn, use, alias, merge, generalize |
| `Library` (extends it) | the memory file and its commands | a command opens (reads) the file, operates on its copy, truncates, writes, closes; or dies |
| `Overlay` | `record/overlay.py` | `show` and `hide` in the steps their callers see; per thread its place and message queue: class, windows, announcement, pump, frames, end |
| `Desk` (extends it) | who shows the glow; `record/standby.py` | the main thread of `serve`, `record` or `standby`; the listener's thread; `inbox` is what Windows posted to either |
| `Windows` | the desktop; choosing windows in `win_input.py` and `cua_client.py` | `stack`, `place`, `shape` of the windows; both matching rules, coverage, click points |
| `Upstream` (extends it) | one tool call on real windows | ensure the daemon (probe, start, poll), resolve, read, send; real clicks; `cu_window` in its three looks |
| `ConfigMutators` | the four mutators | functions from the endpoint list to the new one: add, remove, reorder, the panel's save with its merge |
| `ConfigStore` (extends it) | lock, file, writers, pages | a writer waits, holds the lock, has loaded, has written or failed; a page loads the content and then the time, in two steps; `Crash` anywhere |
| `Vision` | pool, request loop, escalation | `failed` is the pool's deadlines as time left; a request takes `cooling` when it starts, then one `Attempt` per provider; `ObserveThin` is `_escalate_vision` |
| `StepBuilder` | `build_steps` | what the one pass over the events holds after each event (`Consume`), and what it returns there (`Ending`); with sessions of an input method |
| `Recording` (extends it) | one recording session | hook thread (capture, publish, print, end), sampler thread (begin, read, publish, print, wait, clear), main thread (stop, two joins, save) |
| `MC*` | | the constants of the runs |
| `*Proofs` | | theorems about `Facade` with `StateStore`, `ConfigStore` with its mutators, `Vision`, `Recording` with `StepBuilder`, `Replay` with `Library`, `Desk` with `Overlay`, `Upstream` with `Windows` |
| `FoldLemmas` | | what the proofs share: induction over numbers and finite sets, folds and sums |

How they compose: `Facade` uses the store's own actions and adds none to the
store's variables (`StoreBehaviour`, which is proved and has no run), so what is
proved of the store holds of the facade. `Facade` implements `ActPromise`, and `Replay` draws each act's end
from the same `Outcomes`: the runner is checked against every facade that keeps
the promise. `Replay` runs over `Library`, whose file other processes use at
the same time. `Desk` takes the overlay's two operations through the life of a
server, a recording and a standby; `Facade` keeps of it whether it is off, lit
or adrift: once a wait for the overlay's thread has run out, a capture may find
its glow or not (how that goes on is what `Overlay` models).
`Upstream` refines what `Facade` takes as one reading or one input: which window
it reaches, and what the daemon does meanwhile.

### Abstractions

* A tree, a picture, a budget, an endpoint's URL or key is a model value. Two
  readings are equal when tree and budget are; a tree is trivial or not
  (`_tree_is_trivial`, at most two controls).
* Random ids are counted (`1, 2, 3, ...`): no collisions. Of several
  snapshots the order of the ids is the insertion order of the dict.
* In `Facade` the desktop answers truthfully and changes at will. An upstream
  call is a few steps: input delivered or not, then success or an error.
* Deadlines of the pool are kept as time left, since only differences count;
  that leaves the state finite without a bound on time.
* The pool's `_current` is kept because the code keeps it, although nothing
  reads it: `PreferredReturns` would notice if the candidates began to.
* A component is its fingerprint, counts and aliases; a template is a list of
  fingerprints and a count. A match against a target is its score.
* A history variable (`acts`, `typed`, `owed`, `due`, `screen`, `spent`, `whole`,
  `swallowed` with the sessions' `gone`, `trouble`) is read by no action of the
  program.
* A library file that is open for writing cannot be parsed until it is
  written; two processes writing at once may leave one that never can.
* Texts stand for their lower-case forms, `Within` says which is part of
  which; a rectangle is a few pixels; a restored window takes the shape it is
  asked to have, where `SW_RESTORE` may give a maximized one back.
* Windows posts `WM_HOTKEY` to the thread that registered the key, and drops
  what is posted to a thread that has no message queue yet.
* A recording has one window, one button and no modifiers; keys are distinct
  characters; "late" marks an event after the coalescing window.
* Both of the recorder's threads may outlast the five seconds that `stop` waits
  for each (`HookGivenUp`, `SamplerJoined`), and the hook thread is not waited
  for at all while it has no id (`HookStarts` has not come yet).
* In `Desk` a session of the standby goes back to waiting for the next press
  (`AfterHide`); as no press is ever seen (`standby_press`), none begins.

### Bounds

`MaxIssued`, `MaxClock`, `MaxChanges` (store, facade), `MaxCommands`, `MaxTime`
(configuration, library), `MaxEvents` (recorder), `MaxShows`, `MaxPresses`
(desk), `MaxMoves`, `MaxDeaths` (upstream) cap what would grow for ever.
`MaxStaleRetries` is a setting of the runner, not a bound. `Vision` needs none.

## 3. The runs

| Run | Bounds | Shows |
|---|---|---|
| `store` | 3 apps, room for 2, 4 snapshots, TTL 1, clock 0..3 | `AnswersNameLatest`, `NewestSurvives`; `PlanSpec`: it implements `FreshPlan` |
| `facade` | 1 app, room for 1, 3 snapshots, trees x pictures x budgets, one desktop change, batches of 3 with `max_actions` -1, an overlay whose waits may run out and whose glow captures show | `KeepsPromise`: it implements `ActPromise`; `OneSuccessPerPlan`, `SentOnPlannedScreen`, `RefusedOnlyIfChanged`, `BatchStopsActing`, `CallsReturn` |
| `replay` | 4 demonstrations, a retry cap of 1, a second process, 2 commands, 2 components, 2 templates, 4 reviews (one merges a component into itself) | `ActedOncePerStep`, `KeysInOrder`, `FeedbackOnce`, `TemplatesResolve`, `CountsFolded`, `NothingForgotten`, `RunEnds`, `ReplayTypeOK` |
| `desk` | 2 windows, 3 calls of show, one press | `DarkWhenHidden`, `NextShowIsFresh`, `ToldThreadsEnd`, `StandbyStops` |
| `upstream` | an app with two windows and a browser, two processes of the app's name, one change of the desktop, one death of the daemon | `ActsOnReadWindow`, `ShowsTheChosen`, `OccludedIsHidden`, `CallsEnd` |
| `config` | 2 commands and a panel, 2 URLs, 2 keys, 2 commands begun, coarse clock | `UpdatesAreAtomic`, `OthersSurviveCleanPages`, `KeysKept`, `NeverEmptiedSilently`, `CommandsEnd` |
| `vision` | 3 providers, cooldowns 2 and 1, upgrade cooldown 2, both kinds of pool | `SharedPoolFailsOver`, `GivesUpAfterAll`, `UpgradesKeepApart`, `PreferredReturns` |
| `recording` | 3 events of 12 kinds | `LiveExactlyOnce`, `EveryActionIsOneStep`, `NothingMissed`, `WakeNotLost`, `StopSavesTheSession` |

Why the bounds are enough for the interesting cases: with three apps and room
for two the capacity evicts a snapshot that is some app's current one, and
four snapshots let an evicted app come back; a TTL of 1 in a clock of 0..3 is
met exactly, passed, and met again after the clock was set back. Three
snapshots in the facade are an observation, an act, and an act or a refusal
on the new plan; `Ttl = 0` lets a plan expire between any two steps. The
demonstrations of `replay` hold every way a step can be carried out, and two
commands let one process write past the other. Three calls of show are what a
third thread needs to meet two that were late; two windows are one that was
made and one that was not. One change of the desktop between two looks for a
window is what a wrong look needs; the second window's title contains the
first's, and a helper process has the app's name within its own. Two commands
are what a race on the configuration needs, and the panel's page makes a third
reader. Two providers show failover, the third that equal cooldowns keep their
order. Three events make a drag with something inside it, a text broken by a
click, an input-method session broken by a shortcut.

Each property has a mutant in `PROJECT.json`: a definition of the model with a
plausible bug in that code (an operator just above the definition, marked
"Faulty variant"), under which the property fails.

`recording`, `replay` and `desk` may end (a saved session, a finished run, a
process that is gone), so their runs do not check for deadlock; the other
passing runs do.

### Where code and documentation disagree

| Run | Property | What the run shows |
|---|---|---|
| `facade_glow` | `FingerprintsUnpolluted` | the reading after an action is taken while the overlay is lit, and becomes the snapshot later gates compare with; `RECORDING.md` says the overlay is hidden around every snapshot |
| `replay_keys` | `KeysPressedOnce` | a text typed as raw keys that stays stale in the middle is typed again from its first key; `RECORDING.md` calls replaying the keys semantically equivalent |
| `standby_press` | `PressRecords` | the hotkey is registered on the main thread, which reads no messages; a press never records |
| `replay_selfmerge` | `MergesFoldCounts` | a reviewed merge of a component into itself passes every check and deletes it with its counts and names; `MEMORY.md` says merges fold them into the surviving component |

More was met while modelling and has no run of its own. The models behave as
the code does in each of these:

* A commit-like real click whose first attempt clicked and then failed is
  clicked again (`server.py:692-704`; `DESIGN.md:103` says commits are
  one-shot). `ActPromise` therefore allows two inputs.
* `max_actions = -1` with five steps carries out four (`server.py:433`;
  `SECURITY.md:29` says three at most). `Steps` slices as Python does.
* The panel reads content, then time; an endpoint added in between is deleted
  by the page's save (`config_ui.py:88-91`). `OthersSurviveCleanPages` is the
  weaker statement that holds: a page that loaded its file in one piece and
  was not written past within one tick deletes nothing it did not show.
* Without `~/.lean-cu` the lock file cannot be opened, so the first command
  fails (`config_store.py:125`, `DirAtStart`).
* A pool lives for one request, so no cooldown outlives it
  (`vision/llm.py:183`); `SharedPoolFailsOver` is what holds of the pool
  itself. One failed upgrade request switches escalation off for the life of
  the process (`server.py:867`).
* The two rules that find an app's windows differ: the cua client matches
  process names, `matches_app` also any window whose title contains the app's
  name. A real click may land on another app's larger window with such a
  title (`win_input.py:134-146`; `PROTOCOL.md:19-20,139`). `ActsOnReadWindow`
  says of real clicks only what holds when both rules agree (`RulesAgree`).
* A minimized window keeps its parked rectangle for coverage and clicks; the
  click is clamped to the edge of the screen.
* When the process names cannot be read for one of `cu_window`'s three looks,
  the window it answers with may differ from the one it showed; hence `known`
  in `ShowsTheChosen`. That Windows refuses the foreground is not noticed.
* `type_text` through the cua-driver always raises: the facade passes `text`
  (`server.py:771-772`), the client indexes `value` (`cua_client.py:511`), and
  `PROTOCOL.md:116` lists it among the actions of `cu_act`. `secondary_action`
  raises in the same way (`cua_client.py:468-474`). Both end in `EXCEPTION`
  (`Fields`, `Needed`). Window resolution hands on the first process of
  the app even if the window is another's (`cua_client.py:353`).
* Outside a session a shortcut with an open input method is kept and never
  becomes a step (`record/steps.py:261-265`).
* A component merged into itself (`replay_selfmerge`) also stays named in the
  templates (`memory/refine.py:307-311`): `TemplatesResolve` excepts exactly
  those (`swallowed`), and `NothingForgotten` the session that did it. A
  template named twice in one generalization raises half way.
* When all providers are cooling, a request tries every one of them, the
  soonest to expire first (`vision/pool.py:85-102`, `vision/llm.py:186-207`);
  `VISION.md:202-204` says the soonest is attempted once and then the engine is
  reported unavailable. `GivesUpAfterAll` is what the code does.
* The library has no lock: a command that wrote past another's copy loses what
  that one learnt, and a death while writing leaves a file that ends every
  later command. `NothingForgotten` is about a session nobody wrote past.
* Batches of live steps are printed after the lock is given up, so lines of
  two threads may reach the terminal in the other order
  (`record/recorder.py:198`).
* Ctrl+C while the overlay is being shown, before the session's `try`
  (`cli.py:550-556`), ends the command without saving: `End` at "showing".

## 4. Fairness

* `Facade`: `WF_vars(FacadeStep)`. A tool runs to its end once it is called,
  and every upstream call has a timeout (`upstream/cli_client.py:111`). The
  agent, the desktop and the clock are under no obligation.
* `Replay`: `WF_vars(RunnerStep)`. The runner's calls come back (`CallsReturn`),
  a prompt is answered; nobody need start a run, other processes owe nothing.
* `Desk`: each thread is scheduled, and so are the waits of the main thread,
  which are all bounded but the one for a press. Nobody need act, press the
  key or quit.
* `Upstream`: `WF_vars(ClientStep)`: every call of the driver has a timeout.
  The daemon need not come up, which is why polling ends by itself.
* `ConfigStore`: weak fairness of each writer's own steps; users owe nothing,
  and a crash is a step that may, and need not, come.
* `Vision` (`FairSpec`): time passes, a post ends (it has a timeout), the
  session goes on asking. Observations of a thin window get strong fairness,
  because they are not possible while a request runs.
* `Recording`: the three threads run, the hook thread some time after it was
  started, and a wait of `stop` ends by itself (`HookGivenUp`); a reading of the
  upstream need never come back (`SamplerReads` has no fairness), and nobody need stop the session
  before a key, a deadline or Ctrl+C does.

## 5. The proofs

For any sets of apps, screens, providers, writers or processes, any recordings
and any value of the bounds:

* `FacadeProofs`, first of the store: `StoreTypeCorrect`, `AnswersCorrect`,
  `NewestSurvivesHolds` and `StoreImplementsFreshPlan`. That an answer names the
  newest snapshot is not inductive: it rests on `current` naming the newest put
  of the app it is filed under (`CurrentIsOwn`), which eviction leaves true only
  because ids are never issued twice. That what was just put survives `_purge`
  rests on no snapshot being of a later time than the clock, as long as the
  clock was never set back (`TimesPast`). The refinement follows because `Put`
  can only forget the other apps' plans and `Get` touches none but the one it
  refuses. Then of the facade:
  `FacadeTypesHold`; `StoreBehaviourHolds`, every step of the facade is a step
  of the store or leaves it alone, from which `FacadeAnswersCorrect`,
  `FacadeNewestSurvives` and `FacadeImplementsFreshPlan` follow;
  `RefusedOnlyIfChangedHolds`: the overlay is lit only between the first input and
  the end of an act (`GlowsOnlyWhileActing`), so a gate's picture shows the glow
  only if a wait ran out (`RefusalSeesChange`);
  `OneSuccessPerPlanHolds`, from `PlanIsLatest`: the plan of the act in progress
  is its app's newest snapshot, and no newest snapshot is spent, because a
  success puts a newer one;
  `KeepsPromiseHolds`, the refinement of `ActPromise`: each step of the facade is
  a call, an input, an answer, a leaving or a stutter, given that between two
  acts nothing is counted as sent (`Between`) and that only a real click can
  fall back, once;
  `SentOnPlannedScreenHolds`, from `OnPlannedScreen`: from the gate read to the
  first input the window shows the plan's tree and, where the pictures speak,
  its picture, or it moved since;
  `BatchStopsActingHolds`, from `BatchInv`: a batch that was spoilt works on a
  plan that is no longer current (or has stopped), and no operation of the
  store makes an older plan current again (`NeverCurrentAgain`).
* `UpstreamProofs`: `ActsOnReadWindowHolds`, `ShowsTheChosenHolds` and
  `OccludedIsHiddenHolds`, for any windows, titles, rectangles and rules of
  containment. A call never compares two looks at the desktop, so
  `UpstreamInv` says of every field of the call what it still stands for as
  long as nobody moved anything: the window read and the one acted on are the
  app's main window (`DriverInv`), a click's target is the largest candidate
  and its spot lies in that one's rectangle (`ClickInv`), and what `cu_window`
  found is the only window its own title finds, so that its second and third
  look find it again (`ShowInv`, `FoundAlone`). The lemmas are about the
  choosing: the main window is one of the candidates, the largest is unique,
  covering needs something in front.
* `ReplayProofs`, of the runner: `ActedOncePerStepHolds` and
  `FeedbackOnceHolds`, from `RunInv`. An act that was let through is the last of
  its step (`Acts`), since a retry follows only `STALE_STATE`; the memory was
  told nothing before the first attempt was recorded, then how that went, and a
  second attempt follows only one that went badly (`Told`, `Reported`).
  `KeysInOrderHolds`, from `KeysInv`: what was pressed ends with the text up to
  the key in hand, and is nothing but that before the first retry of the step.
* `ReplayProofs`, of the library: `ReplayTypesHold`, `TemplatesResolveHolds`,
  `CountsFoldedHolds`, `NothingForgottenHolds`, from `LibInv`. A readable file
  is what was last written in full; every library, in the file or in a
  command's memory, has the right types and names only components it has; a
  copy that nobody wrote past holds at least what the file does (`Grown`). Under
  it lies what each operation makes of a library, for every library: learning,
  counting and naming only add; a merge moves the counts of one component to
  another and puts the one for the other in every template, so that the sums
  over all components stay (`Folds`). Merged into itself, a component is deleted
  and counted as swallowed: templates name only what is there or was swallowed,
  and `Grown` and the components' sum are claimed of sessions that swallowed
  nothing.
* `RecordingProofs`, of the step builder: `EveryEventGrows`. Flushing a text, a
  drag or a session turns one thing that is pending into one step, so the
  measure `Size` (steps and pending things) is what `Ending` would return; no
  event lowers it, a first move included, which takes back a click and makes a
  drag pending. `EveryActionIsOneStepHolds`, from `UsedInv`: every event captured
  is in one place at most (`Once`), a step or one of the things held back, and
  every press, notch and key in one that becomes a step (`Used`). Each branch of
  `build_steps` only moves events between the places or adds the new one.
* `RecordingProofs`, of the session: `LiveExactlyOnceHolds` needs the first of
  these, that what was published
  never exceeds the list (`LiveTypes`), what is taken names each new position
  once (`TakenOnce`), and a thread's hands are empty except between taking and
  printing. `NothingMissedHolds`: from when the stop
  gives up on the hook thread the list may go on growing, so the invariant keeps
  how many events there were (`due`); if it did not give up, the thread has ended
  or never captured, and the list grows no more (`Silent`, `SavedInv`). What was
  due lies in one step each by `UsedInv`, which later events do not undo.
  `WakeNotLostHolds`: the event is set, or the sampler is about
  to read, while a reading is owed (`OwedInv`).
* `DeskProofs`: `DarkWhenHiddenHolds` and `NextShowIsFreshHolds`. That hide
  returned says nothing by itself about the threads; `DeskInv` says, unless a
  wait ran out, that every thread but the newest is quiet and the windows in
  the list are the newest thread's (`Owned`), and where the main thread waits
  tells how far that one is: it comes up (`Coming`), glows (`Glowing`), could
  make no window (`Failed`), was told to hide (`Going`), or nothing is left
  (`Dark`). One lemma each for the overlay's thread and the main thread.
* `ConfigStoreProofs`: `LockExcludes` and `AtomicUpdates`. The invariant
  `LockInv` adds to the lock's owner that what a writer read inside the lock
  is still what the file holds (`CopyIsFresh`): then writing the mutated copy
  is writing the mutated file. `MutatedIs` says what any command makes of any
  file; with it `NeverEmptiedSilentlyHolds`, `KeysKeptHolds` and
  `OthersSurviveHolds`. Inductive besides the types (`StoreInv`): whoever is on the
  way to the write has a command, and who saves has an open page
  (`CommandsGiven`); a clean page shows the file as it is, or a version whose
  time the clock tells from the file's (`PagesTrue`), because a write within
  the tick in which a page was loaded makes that page unclean.
* `VisionProofs`: `VisionTypeCorrect`, `SharedPoolFailsOverHolds`,
  `GivesUpAfterAllHolds`, from `PoolInvariant`: those already asked rested
  least, all of them failed, what is left is what was not asked, and a shared
  pool holds exactly the rest its providers owe. `UpgradesKeepApartHolds`, from
  `WaitInv`: the timer and the time since the last upgrade that was served make
  up the cooldown.
* `FoldLemmas`: what `FoldLeft` computes is the last value of a function that
  follows the sequence (`FoldWithin`), and sums over finite sets split. The
  induction theorems of the library take an operator and no prover at hand can
  instantiate them; `SetInduction` says the same of a set, from well-founded
  induction, and serves for each operator that is defined without recursion.

Every invariant and action property of the passing runs is a theorem. The
proofs assume the named `ASSUME`s of the modules, which TLC evaluates in the
runs and which say no more than what a constant is: lists and records of the
right kind; finitely many windows; rectangles of natural size; containment of
texts reflexive and transitive; a library to start from that is whole.

Proving corrected the model once. `NothingForgotten` did not follow: of two
commands writing at the same time one may be done, a third may read what it
wrote, and then the other writes past the third's copy, which only a truncation
was counted as doing. The run begins two commands and cannot meet this.
`WriteOut` marks every other copy as stale as `Truncate` does.

Checked by TLC only is liveness, which needs fairness and `ENABLED`:
`CallsReturn`, `RunEnds`, `ToldThreadsEnd`, `StandbyStops`, `CallsEnd`,
`CommandsEnd`, `PreferredReturns`, `StopSavesTheSession`.

## 6. The plan

Done, in this order: store, facade, configuration, vision, recording, replay
with the library, overlay and standby, upstreams; then the proofs of store,
configuration, vision, facade, recording, replay and overlay, then of the
upstreams and the library.

| Next | What | Properties and theorems |
|---|---|---|
| 1 | Modifiers and several buttons in `StepBuilder` | every key in one step, whichever modifier is let go first: `UsedInv` with a place for the modifiers held |
| 2 | What a text step holds | the keys of one step are one run of events with nothing else between them |

## 7. Not modelled

* `parse/`, `diff/`, `media/`, `metrics/`, `models.py`, `errors.py`, fingerprints:
  functions of text and pictures. The models use that two readings of one
  window at one budget compare equal.
* Prompts, ranking, planning and parsing of model answers in `memory/` and
  `vision/`; OCR engines; compilation of recordings, key names.
* `config.py`, `diagnostics.py`, `verify.py`, argument parsing in `cli.py`, the
  HTML page, `benchmarks/`, `scripts/`, `skills/`: input, output and tooling.
* Within modelled parts: `cu_find_app` and `list_apps` (they keep no state, and
  do not start the daemon), the metrics numbers, picture scaling, key masking,
  the panel's token and its engine and model fields, a configuration file that
  exists but cannot be read (`load_config` takes it as empty), platforms
  without a lock primitive, modifiers and other mouse buttons, which element a
  recorded click hit, how a frame of the glow is drawn, the dry run of a
  replay, and which process id accompanies a key or a text
  (`press_key` and `type_text` go to the app's first process).
