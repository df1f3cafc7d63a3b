-------------------------------- MODULE Facade --------------------------------
(***************************************************************************)
(* The MCP facade (server.py): cu_observe, cu_act and cu_batch over the    *)
(* snapshot store, an upstream automation backend and a desktop that       *)
(* changes whenever it likes.                                              *)
(*                                                                         *)
(* FastMCP runs the tools one at a time, so at most one call is in         *)
(* progress; the calls to the upstream inside it are separate steps, and   *)
(* the desktop, the clock and the user go on between them.  What a window  *)
(* shows is a tree and a picture; a tree is trivial when it has at most    *)
(* two controls (_tree_is_trivial).  Any upstream call may fail; a         *)
(* subprocess that timed out may have delivered its input first.           *)
(***************************************************************************)
EXTENDS StateStore

CONSTANTS
  Trees, TrivialTrees,   \* control trees, and those with at most two controls
  Pics, NoPic,           \* pictures; no picture, or one that cannot be decoded
  Budgets,               \* tree and text budgets a snapshot is read at
  OverlayEnabled,        \* act_overlay_enabled
  GlowInCapture,         \* the upstream's captures contain the overlay's glow
  BatchLengths,          \* how many steps an agent passes to cu_batch
  BatchLimits,           \* max_actions an agent passes to cu_batch
  MaxChanges             \* bound: changes of the desktop that no action caused

ASSUME FacadeAssumption ==
  /\ TrivialTrees \subseteq Trees
  /\ NoPic \notin Pics
  /\ OverlayEnabled \in BOOLEAN /\ GlowInCapture \in BOOLEAN
  /\ BatchLengths \subseteq Nat /\ BatchLimits \subseteq Int
  /\ MaxChanges \in Nat

VARIABLES
  desk,       \* app -> what its window really shows
  changes,    \* how often the desktop has changed by itself
  overlay,    \* "off", "lit", or "adrift" once a wait of show() or hide() ran out
  call,       \* the cu_act in progress, alone or as a step of a batch
  batch,      \* the cu_batch in progress
  response,   \* what the act in progress answers
  spent       \* history: ids under which an act has succeeded

facadeVars == <<desk, changes, overlay, call, batch, response, spent>>
vars == <<storeVars, facadeVars>>

Screens == [tree : Trees, pic : Pics]
AllViews == [tree : Trees, budget : Budgets, pic : Pics \cup {NoPic}, glow : BOOLEAN]

\* The facade's store holds its readings.
ASSUME ViewsAssumption == Views = AllViews

Pcs == {"idle", "gate", "light", "send", "fallback", "refresh", "finish", "fail",
        "done", "next"}

\* INVALID stands for the three codes of arguments that are refused.
Codes == {"none", "ok", "INVALID", "STALE_STATE", "UPSTREAM_ERROR", "COMMIT_UNCERTAIN",
          "EXCEPTION"}

NoView == [tree |-> NoPic, budget |-> NoPic, pic |-> NoPic, glow |-> FALSE]
NoCall == [pc |-> "idle", app |-> NoPic, id |-> 0, commit |-> FALSE, real |-> FALSE,
           plan |-> NoView, seen |-> NoView, sends |-> 0, moved |-> FALSE]
NoBatch == [on |-> FALSE, app |-> NoPic, id |-> 0, left |-> 0, failFast |-> FALSE,
            spoilt |-> FALSE]
NoResponse == [code |-> "none", id |-> 0]

-----------------------------------------------------------------------------
(* Reading a window and comparing two readings. *)

\* What a capture may find of the glow.
Glowing == CASE overlay = "off" -> {FALSE}
             [] overlay = "lit" -> {TRUE}
             [] OTHER           -> BOOLEAN

\* get_app_state with _build_snapshot: a tree cut to the budget, and the
\* picture if the upstream delivered one that can be decoded.
Reading(app, budget, glowing, decoded) ==
  [tree |-> desk[app].tree, budget |-> budget,
   pic |-> IF decoded THEN desk[app].pic ELSE NoPic,
   glow |-> decoded /\ glowing /\ GlowInCapture]

TreeChanged(before, gate) == <<before.tree, before.budget>> # <<gate.tree, gate.budget>>

\* Only a trivial tree lets the pictures speak, and only if there are two.
PictureChanged(before, gate) ==
  /\ before.tree \in TrivialTrees
  /\ before.pic # NoPic /\ gate.pic # NoPic
  /\ <<before.pic, before.glow>> # <<gate.pic, gate.glow>>

\* Faulty variant of Changed: the tree alone decides.
TreeOnly(before, gate) == TreeChanged(before, gate)

Changed(before, gate) == TreeChanged(before, gate) \/ PictureChanged(before, gate)

\* Faulty variant of ErrorCode: the commit flag is looked at after the error.
PlainErrorCode(commit) == "UPSTREAM_ERROR"

\* A LeanComputerUseError becomes this code in the answer.
ErrorCode(commit) == IF commit THEN "COMMIT_UNCERTAIN" ELSE "UPSTREAM_ERROR"

\* The act is over; nothing but its answer is left of it.
Answered == [NoCall EXCEPT !.pc = "done"]
Respond(code, id) ==
  /\ response' = [code |-> code, id |-> id]
  /\ call' = Answered

\* Writing the metrics line comes last and may raise instead (full disk).
Logged(code, id) == {[code |-> code, id |-> id], [code |-> "EXCEPTION", id |-> 0]}

-----------------------------------------------------------------------------
(* cu_observe. *)

\* One reading, put in the store.  The picture is cached after the put, so a
\* full disk loses the answer but not the put.
Observe(app, budget, glowing, decoded) ==
  /\ call.pc = "idle"
  /\ Put(app, Reading(app, budget, glowing, decoded))
  /\ UNCHANGED facadeVars

-----------------------------------------------------------------------------
(* cu_act, up to its gate. *)

\* The arguments are refused before the store is asked, with an error code and
\* no metrics line; else the store decides whether the plan is current.
Begin(app, id, commit, real) ==
  LET begun == [NoCall EXCEPT !.app = app, !.id = id, !.commit = commit, !.real = real]
  IN  /\ issued < MaxIssued
      /\ \/ /\ UNCHANGED storeVars
            /\ call' = Answered
            /\ response' = [code |-> "INVALID", id |-> 0]
         \/ /\ Serves(app, id)
            /\ Get(app, id)
            /\ call' = [begun EXCEPT !.pc = "gate", !.plan = snapshots[id].view]
            /\ response' = NoResponse
         \/ /\ ~Serves(app, id)
            /\ Get(app, id)
            /\ call' = Answered
            /\ response' \in Logged("STALE_STATE", reply'.named)

Act(app, id, commit, real) ==
  /\ call.pc = "idle"
  /\ Begin(app, id, commit, real)
  /\ UNCHANGED <<desk, changes, overlay, batch, spent>>

\* The gate read, or caching its picture, fails: nothing was sent, but a
\* commit still answers COMMIT_UNCERTAIN.
GateFails ==
  /\ call.pc = "gate"
  /\ \E code \in {ErrorCode(call.commit), "EXCEPTION"} : Respond(code, 0)
  /\ UNCHANGED <<storeVars, desk, changes, overlay, batch, spent>>

\* Faulty variant of GateBudget: the gate reads at a fixed budget.
AnyBudget(before) == CHOOSE b \in Budgets : TRUE
GateBudget(before) == before.budget

\* One live read at the snapshot's own budget.  A changed window becomes the
\* new current snapshot and the plan is refused.
GateRead(glowing, decoded) ==
  LET gate == Reading(call.app, GateBudget(call.plan), glowing, decoded)
  IN  /\ call.pc = "gate"
      /\ \/ /\ Changed(call.plan, gate)
            /\ Put(call.app, gate)
            /\ \E answer \in Logged("STALE_STATE", issued') : Respond(answer.code, answer.id)
         \/ /\ ~Changed(call.plan, gate)
            /\ call' = [call EXCEPT !.pc = "light", !.seen = gate]
            /\ UNCHANGED <<storeVars, response>>
      /\ UNCHANGED <<desk, changes, overlay, batch, spent>>

-----------------------------------------------------------------------------
(* cu_act, from the overlay to the answer. *)

\* show() finds nothing left of the last act, unless a wait ran out.
LightUp ==
  /\ call.pc = "light"
  /\ overlay' = IF OverlayEnabled /\ overlay = "off" THEN "lit" ELSE overlay
  /\ call' = [call EXCEPT !.pc = "send"]
  /\ UNCHANGED <<storeVars, desk, changes, batch, response, spent>>

\* show() raises before the try, possibly because its wait for the windows ran
\* out: act itself raises.
LightUpFails ==
  /\ call.pc = "light"
  /\ OverlayEnabled
  /\ overlay' \in {overlay, "adrift"}
  /\ Respond("EXCEPTION", 0)
  /\ UNCHANGED <<storeVars, desk, changes, batch, spent>>

\* hide() puts the glow out, or its wait for the thread runs out and it returns
\* with the windows still up.  From then on a thread that was given up may draw
\* or vanish at any time (how is module Overlay's business).
PutOut ==
  \/ overlay' = IF overlay = "adrift" THEN "adrift" ELSE "off"
  \/ OverlayEnabled /\ overlay' = "adrift"

\* n inputs (0 or 1) reach the window; an input may change what it shows.
Deliver(n, pc) ==
  /\ \E screen \in Screens :
       /\ n = 0 => screen = desk[call.app]
       /\ desk' = [desk EXCEPT ![call.app] = screen]
  /\ call' = [call EXCEPT !.pc = pc, !.sends = @ + n, !.seen = NoView,
                          !.real = FALSE, !.moved = FALSE]
  /\ UNCHANGED <<storeVars, changes, overlay, batch, response, spent>>

\* act_with_refresh sends the action.  Not every upstream checks that the
\* action itself was carried out (cli_client reads the last result only).
SendPlain ==
  /\ call.pc = "send" /\ ~call.real
  /\ \/ \E n \in {0, 1} : Deliver(n, "refresh")
     \/ Deliver(0, "fail")

\* _real_click: the upstream's click first; whatever it raises, and whether
\* or not it clicked before it raised, the facade's own backend clicks again.
SendReal ==
  /\ call.pc = "send" /\ call.real
  /\ \/ Deliver(1, "refresh")
     \/ \E n \in {0, 1} : Deliver(n, "fallback")

\* The facade's own backend; no window, coordinates out of bounds or a Win32
\* error end the act.
Fallback ==
  /\ call.pc = "fallback"
  /\ \/ Deliver(1, "refresh")
     \/ \E n \in {0, 1} : Deliver(n, "fail")

\* The reading after the action belongs to the same upstream call, inside the
\* overlay's try: the overlay is still lit.
RefreshRead(glowing, decoded) ==
  /\ call.pc = "refresh"
  /\ call' = [call EXCEPT !.pc = "finish", !.plan = NoView, !.moved = FALSE,
                !.seen = Reading(call.app, GateBudget(call.plan), glowing, decoded)]
  /\ UNCHANGED <<storeVars, desk, changes, overlay, batch, response, spent>>

RefreshFails ==
  /\ call.pc = "refresh"
  /\ call' = [call EXCEPT !.pc = "fail"]
  /\ UNCHANGED <<storeVars, desk, changes, overlay, batch, response, spent>>

\* Faulty variant of Finish: the reading is not stored.
FinishUnstored ==
  /\ call.pc = "finish"
  /\ PutOut
  /\ Respond("ok", call.id)
  /\ spent' = spent \cup {call.id}
  /\ UNCHANGED <<storeVars, desk, changes, batch>>

\* finally: hide; then the reading becomes the app's current snapshot.  An
\* act whose metrics line cannot be written raises, but the plan is used up.
Finish ==
  /\ call.pc = "finish"
  /\ PutOut
  /\ Put(call.app, call.seen)
  /\ \E answer \in Logged("ok", issued') : Respond(answer.code, answer.id)
  /\ spent' = spent \cup {call.id}
  /\ UNCHANGED <<desk, changes, batch>>

\* hide succeeds but the new picture cannot be cached: act raises.
FinishFails ==
  /\ call.pc = "finish"
  /\ PutOut
  /\ Respond("EXCEPTION", 0)
  /\ UNCHANGED <<storeVars, desk, changes, batch, spent>>

\* Faulty variant of Fail: the overlay is put out on success only.
FailLit ==
  /\ call.pc = "fail"
  /\ \E code \in {ErrorCode(call.commit), "EXCEPTION"} : Respond(code, 0)
  /\ UNCHANGED <<storeVars, desk, changes, overlay, batch, spent>>

\* The upstream raised: finally: hide; then the error code (an error that is
\* no LeanComputerUseError passes through).
Fail ==
  /\ call.pc = "fail"
  /\ PutOut
  /\ \E code \in {ErrorCode(call.commit), "EXCEPTION"} : Respond(code, 0)
  /\ UNCHANGED <<storeVars, desk, changes, batch, spent>>

\* A single act answers the agent.
Return ==
  /\ call.pc = "done" /\ ~batch.on
  /\ call' = NoCall
  /\ response' = NoResponse
  /\ UNCHANGED <<storeVars, desk, changes, overlay, batch, spent>>

-----------------------------------------------------------------------------
(* cu_batch. *)

Least(m, n) == IF m < n THEN m ELSE n

\* How many items the slice steps[:limit] of a list has: a negative limit
\* counts from the end.
SliceLength(length, limit) ==
  CASE limit >= 0          -> Least(length, limit)
    [] length + limit > 0 -> length + limit
    [] OTHER               -> 0

Steps(length, maxActions) == SliceLength(length, Least(maxActions, 3))

BatchCall(app, id, length, maxActions, failFast) ==
  /\ call.pc = "idle"
  /\ batch' = [NoBatch EXCEPT !.on = TRUE, !.app = app, !.id = id,
                 !.left = Steps(length, maxActions), !.failFast = failFast]
  /\ call' = [NoCall EXCEPT !.pc = "next"]
  /\ UNCHANGED <<storeVars, desk, changes, overlay, response, spent>>

BatchStep(commit, real) ==
  /\ call.pc = "next" /\ batch.left > 0
  /\ Begin(batch.app, batch.id, commit, real)
  /\ batch' = [batch EXCEPT !.left = @ - 1]
  /\ UNCHANGED <<desk, changes, overlay, spent>>

\* Faulty variant of NextPlan: the batch goes on with the id of any answer.
NextPlanAny == response.id
\* Only a step that succeeded renews the plan of the steps after it.
NextPlan == IF response.code = "ok" THEN response.id ELSE batch.id

\* Faulty variant of BatchAdvance: a failed step is tried again.
BatchRepeats ==
  /\ call.pc = "done" /\ batch.on
  /\ call' = [NoCall EXCEPT !.pc = "next"]
  /\ batch' = IF response.code = "ok" THEN [batch EXCEPT !.id = response.id]
                                     ELSE [batch EXCEPT !.left = @ + 1]
  /\ response' = NoResponse
  /\ UNCHANGED <<storeVars, desk, changes, overlay, spent>>

\* An exception ends the batch whatever fail_fast says; a structured failure
\* ends it only under fail_fast.
BatchAdvance ==
  LET ok   == response.code = "ok"
      stop == response.code = "EXCEPTION" \/ (~ok /\ batch.failFast)
      spoils == response.code = "STALE_STATE" \/ (~ok /\ batch.failFast)
  IN  /\ call.pc = "done" /\ batch.on
      /\ call' = IF stop THEN NoCall ELSE [NoCall EXCEPT !.pc = "next"]
      /\ batch' = IF stop THEN NoBatch
                  ELSE [batch EXCEPT !.id = NextPlan,
                                       !.spoilt = @ \/ spoils]
      /\ response' = NoResponse
      /\ UNCHANGED <<storeVars, desk, changes, overlay, spent>>

BatchEnd ==
  /\ call.pc = "next"
  /\ batch.left = 0 \/ issued = MaxIssued
  /\ call' = NoCall
  /\ batch' = NoBatch
  /\ UNCHANGED <<storeVars, desk, changes, overlay, response, spent>>

-----------------------------------------------------------------------------
(* The desktop and the clock. *)

DesktopChange(app, screen) ==
  /\ changes < MaxChanges
  /\ screen # desk[app]
  /\ desk' = [desk EXCEPT ![app] = screen]
  /\ changes' = changes + 1
  /\ call' = [call EXCEPT !.moved = @ \/ (call.pc \in {"light", "send"} /\ call.app = app)]
  /\ UNCHANGED <<storeVars, overlay, batch, response, spent>>

\* Here the clock only advances (that it may be set back is module StateStore's
\* business); a snapshot may expire between any two steps of a call.
TimePasses ==
  /\ clock < MaxClock
  /\ SetClock(clock + 1)
  /\ UNCHANGED facadeVars

-----------------------------------------------------------------------------

Init ==
  /\ StoreInit
  /\ desk \in [Apps -> Screens]
  /\ changes = 0
  /\ overlay = "off"
  /\ call = NoCall
  /\ batch = NoBatch
  /\ response = NoResponse
  /\ spent = {}

\* The steps the facade takes by itself once a tool was called.
FacadeStep ==
  \/ GateFails
  \/ \E glowing \in Glowing, decoded \in BOOLEAN : GateRead(glowing, decoded)
  \/ LightUp \/ LightUpFails
  \/ SendPlain \/ SendReal \/ Fallback
  \/ \E glowing \in Glowing, decoded \in BOOLEAN : RefreshRead(glowing, decoded)
  \/ RefreshFails
  \/ Finish \/ FinishFails \/ Fail
  \/ Return
  \/ \E commit, real \in BOOLEAN : BatchStep(commit, real)
  \/ BatchAdvance \/ BatchEnd

Next ==
  \/ \E app \in Apps, budget \in Budgets, glowing \in Glowing, decoded \in BOOLEAN :
       Observe(app, budget, glowing, decoded)
  \/ \E app \in Apps, id \in 0 .. issued, commit, real \in BOOLEAN :
       Act(app, id, commit, real)
  \/ \E app \in Apps, id \in 0 .. issued, failFast \in BOOLEAN :
       \E length \in BatchLengths, limit \in BatchLimits :
         BatchCall(app, id, length, limit, failFast)
  \/ FacadeStep
  \/ \E app \in Apps, screen \in Screens : DesktopChange(app, screen)
  \/ TimePasses

Spec == Init /\ [][Next]_vars /\ WF_vars(FacadeStep)

-----------------------------------------------------------------------------
(* Properties. *)

\* A plan that an act succeeded under is used up: no later act gets past the
\* store with it, alone or in a batch, on whatever desktop (PROTOCOL.md
\* section 2.5).
OneSuccessPerPlan ==
  call.pc \notin {"idle", "next", "done"} => call.id \notin spent

\* The gate holds as far as it can: when the first input is sent, the window
\* shows what the plan was made on -- the tree, and for a trivial tree the
\* picture if both readings had one -- unless it changed after the gate read
\* of this very act.
SentOnPlannedScreen ==
  (call.pc = "send" /\ ~call.moved) =>
    /\ desk[call.app].tree = call.plan.tree
    /\ (/\ call.plan.tree \in TrivialTrees
        /\ call.plan.pic # NoPic /\ call.seen.pic # NoPic)
         => desk[call.app].pic = call.plan.pic

\* The gate refuses a plan only if the window shows something else than what
\* the plan was made on: no way out of an earlier act leaves the glow where the
\* gate's picture is taken, and the gate cuts the tree as the snapshot was cut.
\* Not so if a wait of the overlay ran out, or if the plan's own reading, made
\* after an action, holds the glow (FingerprintsUnpolluted).
RefusedOnlyIfChanged ==
  [][(/\ call.pc = "gate" /\ response'.code = "STALE_STATE"
       /\ overlay # "adrift" /\ ~call.plan.glow)
       => \/ desk[call.app].tree # call.plan.tree
          \/ desk[call.app].pic # call.plan.pic]_vars

\* Once a step of a batch was refused as stale, no later step of it reaches
\* the desktop, even if the batch does not stop at failures; and a fail-fast
\* batch sends nothing after any failure.
BatchStopsActing ==
  batch.spoilt => call.pc \in {"next", "done"}
\* (spoilt: history, such a step is behind.)

\* Every call answers: the upstream's timeouts end every call made inside it.
CallsReturn == []<>(call.pc = "idle")

\* An act keeps the promise that replay relies on (module ActPromise): its
\* answer tells whether the desktop may have been touched.  STALE_STATE is
\* only answered when nothing was sent, so that one may observe and try again;
\* a commit that failed otherwise says COMMIT_UNCERTAIN or raises; and no act
\* sends more than a click and its fallback.
Phase == CASE call.pc \in {"idle", "next"} -> "idle"
           [] call.pc = "done"            -> "done"
           [] OTHER                       -> "acting"

Promise == INSTANCE ActPromise WITH
  phase <- Phase, commit <- call.commit, sends <- call.sends,
  code <- IF call.pc = "done" THEN response.code ELSE "none"
KeepsPromise == Promise!PromiseSpec

\* Acting goes through the store's own operations only, so what is proved of
\* the store (module FacadeProofs) holds of the facade.
StoreBehaviour == StoreSpec

\* RECORDING.md lines 149-153: "The overlay is hidden around every upstream
\* snapshot (state reads and post-action refreshes), so agent-visible trees,
\* screenshots and state fingerprints stay unpolluted".
FingerprintsUnpolluted == \A id \in DOMAIN snapshots : ~snapshots[id].view.glow

=============================================================================
