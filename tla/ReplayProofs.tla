----------------------------- MODULE ReplayProofs -----------------------------
(***************************************************************************)
(* Proofs about replaying, for any demonstrations, elements, libraries,    *)
(* other processes and numbers of retries, and whatever the facade answers *)
(* within its promise (module ActPromise).                                 *)
(***************************************************************************)
EXTENDS Replay, FoldLemmas

RunFields == {"pc", "steps", "at", "retries", "key", "keyRetries", "code", "by",
              "remember", "told"}
Outside == {"idle", "next", "done", "raised"}

\* What the memory may have been told of one step.
Untold == <<>>
Hit == <<TRUE>>
Miss == <<FALSE>>

LEMMA Feedback ==
  /\ Untold # Hit /\ Untold # Miss /\ Hit # Miss
  /\ Len(Untold) = 0 /\ Len(Hit) = 1 /\ Len(Miss) = 1
  /\ \A code : Append(Untold, code = "ok") = IF code = "ok" THEN Hit ELSE Miss
<1>1. Len(Untold) = 0 /\ Len(Hit) = 1 /\ Len(Miss) = 1
  BY DEF Untold, Hit, Miss
<1>2. Untold # Hit /\ Untold # Miss
  BY <1>1
<1>3. Hit # Miss
  <2>1. Hit[1] = TRUE /\ Miss[1] = FALSE
    BY DEF Hit, Miss
  <2> QED BY <2>1, Zenon
<1>4. Append(Untold, TRUE) = Hit /\ Append(Untold, FALSE) = Miss
  BY DEF Untold, Hit, Miss
<1>5. ASSUME NEW code PROVE Append(Untold, code = "ok") = IF code = "ok" THEN Hit ELSE Miss
  <2>1. CASE code = "ok"
    <3>1. (code = "ok") = TRUE
      BY <2>1
    <3> QED BY <1>4, <2>1, <3>1
  <2>2. CASE code # "ok"
    <3>1. (code = "ok") = FALSE
      BY <2>2
    <3> QED BY <1>4, <2>2, <3>1
  <2> QED BY <2>1, <2>2
<1> QED BY <1>1, <1>2, <1>3, <1>5

\* Of the step in progress the memory was told nothing before its first attempt
\* was recorded, then how that went; a second attempt follows only a refusal,
\* so the first went badly.
Told ==
  /\ run.retries \in Nat
  /\ run.pc \in Outside => run.retries = 0
  /\ run.pc # "judge" /\ run.retries = 0 => run.told = Untold
  /\ ~run.remember => run.told = Untold
  /\ run.remember /\ run.retries > 0 => run.told = Miss
  /\ run.remember /\ run.retries = 0 /\ run.pc = "judge" =>
       run.told = IF run.code = "ok" THEN Hit ELSE Miss

\* An act that was let through is the last of its step: the answer is recorded
\* and judged, and it is no refusal.
Acts ==
  acts = 0 \/ (acts = 1 /\ run.pc \in {"record", "judge"} /\ run.code # "STALE_STATE")

Reported ==
  \A i \in DOMAIN outcomes :
    /\ outcomes[i].told \in {Untold, Hit, Miss}
    /\ outcomes[i].told = Hit => outcomes[i].ok

RunInv ==
  /\ DOMAIN run = RunFields
  /\ run.remember \in BOOLEAN
  /\ Told /\ Acts
  /\ outcomes \in Seq([ok : BOOLEAN, told : {Untold, Hit, Miss}]) /\ Reported

-----------------------------------------------------------------------------

LEMMA InitRun == Init => RunInv
BY DEF Init, NoRun, RunInv, RunFields, Outside, Told, Acts, Reported, Untold

\* The runner goes on to another place of the same attempt.
LEMMA OnwardKeeps ==
  ASSUME RunInv, DOMAIN run' = RunFields, UNCHANGED <<outcomes, acts>>, acts = 0,
         run'.retries = run.retries, run'.remember = run.remember, run'.told = run.told,
         run'.pc \notin Outside \cup {"judge"},
         run.pc # "judge"
  PROVE  RunInv'
BY DEF RunInv, Told, Acts, Reported, Outside

\* A step is over, and what the memory was told of it agrees with its outcome.
LEMMA ConcludeKeeps ==
  ASSUME RunInv, NEW ok \in BOOLEAN, Conclude(ok),
         run.told \in {Untold, Hit, Miss}, run.told = Hit => ok
  PROVE  RunInv'
<1> DEFINE outcome == [ok |-> ok, told |-> run.told]
<1>1. /\ run'.pc = "next" /\ run'.retries = 0 /\ run'.told = Untold /\ acts' = 0
      /\ run'.remember = run.remember /\ DOMAIN run' = RunFields
  BY DEF Conclude, NoRun, RunFields, Untold
<1>2. outcomes' = Append(outcomes, outcome)
  BY DEF Conclude
<1>3. /\ outcome \in [ok : BOOLEAN, told : {Untold, Hit, Miss}]
      /\ outcome.told \in {Untold, Hit, Miss} /\ (outcome.told = Hit => outcome.ok)
  OBVIOUS
<1> HIDE DEF outcome
<1>4. outcomes' \in Seq([ok : BOOLEAN, told : {Untold, Hit, Miss}])
  BY <1>2, <1>3 DEF RunInv
<1>5. Reported'
  <2> SUFFICES ASSUME NEW i \in DOMAIN outcomes'
               PROVE  /\ outcomes'[i].told \in {Untold, Hit, Miss}
                      /\ outcomes'[i].told = Hit => outcomes'[i].ok
    BY DEF Reported
  <2>1. (i \in DOMAIN outcomes /\ outcomes'[i] = outcomes[i]) \/ outcomes'[i] = outcome
    BY <1>2, <1>3 DEF RunInv
  <2> QED BY <1>3, <2>1 DEF RunInv, Reported
<1>6. Told'
  BY <1>1 DEF Told, Outside
<1> QED BY <1>1, <1>4, <1>5, <1>6 DEF RunInv, Acts

LEMMA RaiseKeeps == ASSUME RunInv, Raise PROVE RunInv'
BY DEF RunInv, Raise, Broken, NoRun, RunFields, Told, Acts, Reported, Outside, Untold

LEMMA JudgedTold ==
  ASSUME RunInv
  PROVE  /\ run.told \in {Untold, Hit, Miss}
         /\ run.pc = "judge" /\ run.remember => run.told # Untold
         /\ run.told = Hit => run.pc = "judge" /\ run.code = "ok"
BY Feedback DEF RunInv, Told

LEMMA RunKept == RunInv /\ [Next]_vars => RunInv'
<1> SUFFICES ASSUME RunInv, [Next]_vars PROVE RunInv'
  OBVIOUS
<1>0. DOMAIN run = RunFields /\ (run.pc \notin {"record", "judge"} => acts = 0)
  BY DEF RunInv, Acts
<1>1. ASSUME NEW steps, NEW remember \in BOOLEAN, StartReplay(steps, remember)
      PROVE  RunInv'
  <2>1. /\ run'.pc \in {"next", "raised"} /\ run'.retries = 0 /\ run'.told = Untold
        /\ run'.remember = remember /\ DOMAIN run' = RunFields /\ acts' = acts
        /\ outcomes' = outcomes /\ run.pc = "idle"
    BY <1>1 DEF StartReplay, NoRun, RunFields, Untold
  <2> QED BY <1>0, <2>1 DEF RunInv, Told, Acts, Reported, Outside
<1>2. CASE Focus
  <2>1. CASE Goes([run EXCEPT !.pc = "record", !.code = "ok", !.by = "window"])
    BY <1>0, <1>2, <2>1, OnwardKeeps DEF Focus, Goes, RunFields, Outside
  <2> QED BY <1>2, <2>1, RaiseKeeps DEF Focus
<1>3. CASE Confirm
  <2>1. CASE Goes([run EXCEPT !.pc = "observe"])
    BY <1>0, <1>3, <2>1, OnwardKeeps DEF Confirm, Goes, RunFields, Outside
  <2>2. CASE Conclude(FALSE)
    <3>1. run.pc = "next"
      BY <1>3 DEF Confirm
    <3> QED BY <2>2, <3>1, JudgedTold, ConcludeKeeps
  <2> QED BY <1>3, <2>1, <2>2 DEF Confirm
<1>4. CASE Observe
  <2>1. CASE Goes([run EXCEPT !.pc = "resolve"])
    BY <1>0, <1>4, <2>1, OnwardKeeps DEF Observe, Goes, RunFields, Outside
  <2>2. CASE Conclude(FALSE)
    <3>1. run.pc = "observe"
      BY <1>4 DEF Observe
    <3> QED BY <2>2, <3>1, JudgedTold, ConcludeKeeps
  <2> QED BY <1>4, <2>1, <2>2, RaiseKeeps DEF Observe
<1>5. ASSUME NEW controls, NEW vision, Resolve(controls, vision) PROVE RunInv'
  <2>1. CASE Raise
    BY <2>1, RaiseKeeps
  <2> DEFINE Found(by) == [run EXCEPT !.by = by, !.key = 1, !.keyRetries = 0]
  <2>2. \/ Raise
        \/ \E by : \/ Goes([Found(by) EXCEPT !.pc = "keys"])
                  \/ Goes([Found(by) EXCEPT !.pc = "record", !.code = "ELEMENT_NOT_FOUND"])
                  \/ Goes([Found(by) EXCEPT !.pc = "act"])
    BY <1>5, Zenon DEF Resolve
  <2>3. ASSUME NEW by, Goes([Found(by) EXCEPT !.pc = "keys"])
                       \/ Goes([Found(by) EXCEPT !.pc = "record", !.code = "ELEMENT_NOT_FOUND"])
                       \/ Goes([Found(by) EXCEPT !.pc = "act"])
        PROVE  RunInv'
    BY <1>0, <1>5, <2>3, OnwardKeeps DEF Resolve, Goes, RunFields, Outside
  <2> HIDE DEF Found
  <2> QED BY <2>1, <2>2, <2>3, Zenon
<1>6. CASE ActOnce
  <2>1. PICK o \in Outcomes(ThisStep.commit) :
          IF o.code = "EXCEPTION" THEN Raise
          ELSE /\ run' = [run EXCEPT !.pc = "record", !.code = o.code]
               /\ acts' = IF Refused(o.code) THEN acts ELSE acts + 1
               /\ UNCHANGED <<libraryVars, outcomes, typed>>
    BY <1>6, Zenon DEF ActOnce
  <2>2. CASE o.code # "EXCEPTION"
    <3>1. /\ run'.pc = "record" /\ run'.code = o.code /\ run'.retries = run.retries
          /\ run'.told = run.told /\ run'.remember = run.remember /\ DOMAIN run' = RunFields
      BY <1>0, <2>1, <2>2 DEF RunFields
    <3>2. run.pc = "act" /\ acts = 0
      BY <1>0, <1>6 DEF ActOnce
    <3>3. Acts'
      BY <2>1, <2>2, <3>1, <3>2 DEF Acts, Refused
    <3>4. outcomes' = outcomes
      BY <2>1, <2>2
    <3> QED BY <3>1, <3>2, <3>3, <3>4 DEF RunInv, Told, Reported, Outside
  <2> QED BY <2>1, <2>2, RaiseKeeps
<1>7. CASE PressKey
  <2>1. \/ Raise
        \/ /\ \/ run' = [run EXCEPT !.pc = "reobserve", !.keyRetries = @ + 1]
              \/ run' = [run EXCEPT !.key = @ + 1, !.keyRetries = 0]
              \/ \E code : run' = [run EXCEPT !.pc = "record", !.code = code]
           /\ UNCHANGED <<libraryVars, outcomes, acts>>
    <3>1. PICK o \in Outcomes(ThisStep.commit) :
            IF o.code = "EXCEPTION" THEN Raise
            ELSE /\ run' =
                      CASE Recovers(o.code) ->
                             [run EXCEPT !.pc = "reobserve", !.keyRetries = @ + 1]
                        [] o.code = "ok" /\ run.key < ThisStep.keys ->
                             [run EXCEPT !.key = @ + 1, !.keyRetries = 0]
                        [] OTHER -> [run EXCEPT !.pc = "record", !.code = o.code]
                 /\ typed' = IF Refused(o.code) THEN typed ELSE Append(typed, run.key)
                 /\ UNCHANGED <<libraryVars, outcomes, acts>>
      BY <1>7, Zenon DEF PressKey
    <3> QED BY <3>1, Zenon
  <2>2. run.pc = "keys"
    BY <1>7 DEF PressKey
  <2>3. CASE Raise
    BY <2>3, RaiseKeeps
  <2>4. CASE run' = [run EXCEPT !.pc = "reobserve", !.keyRetries = @ + 1]
             /\ UNCHANGED <<outcomes, acts>>
    BY <1>0, <2>2, <2>4, OnwardKeeps DEF RunFields, Outside
  <2>5. CASE run' = [run EXCEPT !.key = @ + 1, !.keyRetries = 0] /\ UNCHANGED <<outcomes, acts>>
    BY <1>0, <2>2, <2>5, OnwardKeeps DEF RunFields, Outside
  <2>6. ASSUME NEW code, run' = [run EXCEPT !.pc = "record", !.code = code],
               UNCHANGED <<outcomes, acts>>
        PROVE  RunInv'
    BY <1>0, <2>2, <2>6, OnwardKeeps DEF RunFields, Outside
  <2> QED BY <2>1, <2>3, <2>4, <2>5, <2>6, Zenon
<1>8. CASE Reobserve
  <2>1. CASE Goes([run EXCEPT !.pc = "keys"])
    BY <1>0, <1>8, <2>1, OnwardKeeps DEF Reobserve, Goes, RunFields, Outside
  <2>2. CASE Goes([run EXCEPT !.pc = "record", !.code = "STALE_STATE"])
    BY <1>0, <1>8, <2>2, OnwardKeeps DEF Reobserve, Goes, RunFields, Outside
  <2> QED BY <1>8, <2>1, <2>2, RaiseKeeps DEF Reobserve
<1>9. CASE Record
  <2>1. /\ run.pc = "record" /\ outcomes' = outcomes /\ acts' = acts
        /\ run' = [run EXCEPT !.pc = "judge",
                     !.told = IF Feeds THEN Append(@, run.code = "ok") ELSE @]
    BY <1>9 DEF Record
  <2>2. /\ run'.pc = "judge" /\ run'.code = run.code /\ run'.retries = run.retries
        /\ run'.remember = run.remember /\ DOMAIN run' = RunFields
        /\ run'.told = IF Feeds THEN Append(run.told, run.code = "ok") ELSE run.told
    BY <1>0, <2>1 DEF RunFields
  <2>3. Acts'
    BY <2>1, <2>2 DEF RunInv, Acts
  <2>4. CASE Feeds
    <3>1. run.remember /\ run.retries = 0 /\ run.told = Untold
      BY <2>1, <2>4 DEF Feeds, RunInv, Told
    <3>2. run'.told = IF run'.code = "ok" THEN Hit ELSE Miss
      BY <2>2, <2>4, <3>1, Feedback
    <3>3. Told'
      BY <2>2, <3>1, <3>2 DEF Told, Outside
    <3> QED BY <2>1, <2>2, <2>3, <3>3 DEF RunInv, Reported
  <2>5. CASE ~Feeds
    BY <2>1, <2>2, <2>3, <2>5 DEF Feeds, RunInv, Told, Reported, Outside
  <2> QED BY <2>4, <2>5
<1>10. CASE Judge
  <2>1. CASE Retries
    <3>1. /\ run.pc = "judge" /\ run.code = "STALE_STATE"
          /\ Goes([run EXCEPT !.pc = "observe", !.code = "none", !.retries = @ + 1])
      BY <1>10, <2>1 DEF Judge, Retries, Again
    <3>2. /\ run'.pc = "observe" /\ run'.retries = run.retries + 1 /\ run'.told = run.told
          /\ run'.remember = run.remember /\ DOMAIN run' = RunFields
          /\ outcomes' = outcomes /\ acts' = acts
      BY <1>0, <3>1 DEF Goes, RunFields
    <3>3. acts = 0
      BY <3>1 DEF RunInv, Acts
    <3>4. Told'
      BY <3>1, <3>2 DEF RunInv, Told, Outside
    <3> QED BY <3>2, <3>3, <3>4 DEF RunInv, Acts, Reported
  <2>2. CASE ~Retries
    <3>1. run.pc = "judge" /\ Conclude(run.code = "ok")
      BY <1>10, <2>2 DEF Judge
    <3>2. run.told \in {Untold, Hit, Miss} /\ (run.told = Hit => run.code = "ok")
      BY JudgedTold
    <3>3. CASE run.code = "ok"
      BY <3>1, <3>2, <3>3, ConcludeKeeps
    <3>4. CASE run.code # "ok"
      BY <3>1, <3>2, <3>4, ConcludeKeeps
    <3> QED BY <3>3, <3>4
  <2> QED BY <2>1, <2>2
<1>11. CASE FinishReplay
  <2>1. /\ run'.pc = "done" /\ run'.retries = 0 /\ run'.told = Untold
        /\ run'.remember = FALSE /\ DOMAIN run' = RunFields /\ acts' = acts
        /\ outcomes' = outcomes /\ run.pc = "next"
    BY <1>11 DEF FinishReplay, NoRun, RunFields, Untold
  <2>2. Told' /\ Acts'
    BY <1>0, <2>1 DEF Told, Acts, Outside
  <2> QED BY <2>1, <2>2 DEF RunInv, Reported
<1>12. CASE UNCHANGED replayVars
  BY <1>12 DEF replayVars, RunInv, Told, Acts, Reported
<1>13. CASE RunnerStep
  BY <1>2, <1>3, <1>4, <1>5, <1>6, <1>7, <1>8, <1>9, <1>10, <1>11, <1>12, <1>13
  DEF RunnerStep, Save
<1>14. CASE RunnerDies
  BY <1>14, RaiseKeeps DEF RunnerDies
<1>15. CASE UNCHANGED vars \/ \E p \in Processes \ {Runner} : OtherStep(p)
  BY <1>12, <1>15 DEF vars, OtherStep
<1> QED BY <1>1, <1>13, <1>14, <1>15 DEF Next

\* The runner's bookkeeping: what was acted, told and reported of each step.
THEOREM RunInvariant == Spec => []RunInv
BY InitRun, RunKept, PTL DEF Spec

\* At most one act of a step is let through to the desktop, however often the
\* step is tried again.
THEOREM ActedOncePerStepHolds == Spec => []ActedOncePerStep
<1>1. RunInv => ActedOncePerStep
  BY DEF RunInv, Acts, ActedOncePerStep
<1> QED BY <1>1, RunInvariant, PTL

\* The memory is told once per step, and never a hit that failed.
THEOREM FeedbackOnceHolds == Spec => []FeedbackOnce
<1>1. RunInv => FeedbackOnce
  <2> SUFFICES ASSUME RunInv PROVE FeedbackOnce
    OBVIOUS
  <2>0. \A told \in {Untold, Hit, Miss} : Len(told) <= 1 /\ (told # Untold => Len(told) = 1)
    BY Feedback
  <2>1. Len(run.told) <= 1 /\ (run.pc = "judge" /\ run.remember => Len(run.told) = 1)
    BY <2>0, JudgedTold
  <2>2. ASSUME NEW i \in DOMAIN outcomes
        PROVE  /\ Len(outcomes[i].told) <= 1
               /\ outcomes[i].told = <<TRUE>> => outcomes[i].ok
    <3>1. /\ outcomes[i].told \in {Untold, Hit, Miss}
          /\ outcomes[i].told = Hit => outcomes[i].ok
      BY DEF RunInv, Reported
    <3>2. Len(outcomes[i].told) <= 1
      BY <2>0, <3>1
    <3> QED BY <3>1, <3>2 DEF Hit
  <2> QED BY <2>1, <2>2 DEF FeedbackOnce
<1> QED BY <1>1, RunInvariant, PTL
-----------------------------------------------------------------------------
(* The keys of a text, and the run's types. *)

Stages == {"idle", "next", "observe", "resolve", "act", "keys", "reobserve", "record",
           "judge", "done", "raised"}
Within == {"observe", "resolve", "act", "keys", "reobserve", "record", "judge"}

\* The types of the run, with what keeps them: a step is begun only where
\* there is one.
RunType ==
  /\ DOMAIN run = RunFields /\ run.pc \in Stages
  /\ run.steps \in Seq(StepTypes)
  /\ run.at \in 0 .. Len(run.steps) + 1
  /\ run.pc = "next" => run.at >= 1
  /\ run.pc \in Within => run.at \in DOMAIN run.steps
  /\ run.retries \in 0 .. MaxStaleRetries /\ run.keyRetries \in 0 .. MaxStaleRetries
  /\ run.key \in Nat /\ acts \in Nat /\ typed \in Seq(Nat)

\* The last n of the keys pressed are the first n of the text.
EndsWith(s, n) == n <= Len(s) /\ \A i \in 1 .. n : s[Len(s) - n + i] = i

\* What was pressed: nothing before the keys are due, then the text up to the
\* key in hand, after what earlier attempts of the step pressed.
Keyed ==
  /\ run.pc \in Outside => typed = <<>>
  /\ run.retries = 0 /\ run.pc \in {"observe", "resolve", "act"} => typed = <<>>
  /\ run.retries = 0 => \A i \in DOMAIN typed : typed[i] = i
  /\ run.pc = "act" => run.by # "keys"
  /\ run.pc \in {"keys", "reobserve"} =>
       /\ run.by = "keys" /\ run.key \in 1 .. ThisStep.keys
       /\ EndsWith(typed, run.key - 1)
       /\ run.retries = 0 => Len(typed) = run.key - 1
  /\ run.pc = "record" /\ run.by = "keys" /\ run.code = "ok" => EndsWith(typed, ThisStep.keys)

KeysInv == RunType /\ Keyed

\* The key in hand, pressed, is one more of the text.
LEMMA PressedNext ==
  ASSUME NEW s \in Seq(Nat), NEW k \in Nat, k >= 1, EndsWith(s, k - 1)
  PROVE  /\ Append(s, k) \in Seq(Nat) /\ EndsWith(Append(s, k), k)
         /\ Len(Append(s, k)) = Len(s) + 1
         /\ (\A i \in DOMAIN s : s[i] = i) /\ Len(s) = k - 1 =>
              \A i \in DOMAIN Append(s, k) : Append(s, k)[i] = i
<1> DEFINE t == Append(s, k)
<1>1. /\ t \in Seq(Nat) /\ Len(t) = Len(s) + 1 /\ Len(s) \in Nat /\ t[Len(s) + 1] = k
      /\ DOMAIN s = 1 .. Len(s) /\ DOMAIN t = 1 .. Len(s) + 1
      /\ \A i \in 1 .. Len(s) : t[i] = s[i]
  OBVIOUS
<1> HIDE DEF t
<1>2. EndsWith(t, k)
  <2>1. k <= Len(t)
    BY <1>1 DEF EndsWith
  <2>2. ASSUME NEW i \in 1 .. k PROVE t[Len(t) - k + i] = i
    <3>1. CASE i = k
      BY <1>1, <3>1
    <3>2. CASE i # k
      <4>1. i \in 1 .. k - 1 /\ Len(t) - k + i = Len(s) - (k - 1) + i
        BY <1>1, <3>2
      <4>2. Len(s) - (k - 1) + i \in 1 .. Len(s)
        BY <1>1, <4>1 DEF EndsWith
      <4>3. QED
        BY <1>1, <4>1, <4>2 DEF EndsWith
    <3>3. QED
      BY <3>1, <3>2
  <2>3. QED
    BY <2>1, <2>2 DEF EndsWith
<1>3. ASSUME \A i \in DOMAIN s : s[i] = i, Len(s) = k - 1 PROVE \A i \in DOMAIN t : t[i] = i
  BY <1>1, <1>3
<1>4. QED
  BY <1>1, <1>2, <1>3 DEF t

\* A target matches a control, or something seen, or nothing.
LEMMA Matches ==
  ASSUME NEW controls \in Seq(0 .. 100), NEW vision \in Seq(0 .. 100)
  PROVE  MatchTarget(controls, vision) \in {"none", "element", "vision"}
<1> DEFINE all  == Candidates(controls, vision)
           best == {i \in DOMAIN all : /\ all[i].score >= Threshold
                                       /\ \A j \in DOMAIN all : all[j].score <= all[i].score}
           Found == [source : {"element", "vision"}, score : 0 .. 100]
<1>1. all \in Seq(Found)
  <2> DEFINE Scored(scores, source) ==
               [i \in DOMAIN scores |-> [source |-> source, score |-> scores[i]]]
  <2>1. ASSUME NEW scores \in Seq(0 .. 100), NEW source \in {"element", "vision"}
        PROVE  Scored(scores, source) \in Seq(Found)
    <3>1. DOMAIN scores = 1 .. Len(scores) /\ Len(scores) \in Nat
      OBVIOUS
    <3>2. ASSUME NEW i \in 1 .. Len(scores)
          PROVE  [source |-> source, score |-> scores[i]] \in Found
      <4>1. \A S : scores \in Seq(S) => scores[i] \in S
        BY <3>1
      <4>2. scores[i] \in 0 .. 100
        BY <4>1
      <4>3. QED
        BY <4>2
    <3> HIDE DEF Found
    <3>3. QED
      BY <3>1, <3>2
  <2>2. Candidates(controls, vision) = Scored(controls, "element") \o Scored(vision, "vision")
    BY DEF Candidates
  <2> HIDE DEF Found, Scored
  <2>3. Scored(controls, "element") \in Seq(Found) /\ Scored(vision, "vision") \in Seq(Found)
    BY <2>1
  <2>4. QED
    BY <2>2, <2>3
<1> HIDE DEF all
<1>2. ASSUME NEW i \in DOMAIN all PROVE all[i].source \in {"element", "vision"}
  <2>1. all[i] \in Found
    <3> HIDE DEF Found
    <3>1. QED
      BY <1>1
  <2>2. QED
    BY <2>1
<1>3. best \in SUBSET Nat
  <2> HIDE DEF Found
  <2>1. DOMAIN all \subseteq Nat
    BY <1>1
  <2>2. QED
    BY <2>1
<1>4. best # {} => Min(best) \in DOMAIN all
  <2> HIDE DEF best
  <2>1. best # {} => Min(best) \in best
    BY <1>3, LeastOf
  <2>2. QED
    BY <2>1 DEF best
<1>5. MatchTarget(controls, vision) = IF best = {} THEN "none" ELSE all[Min(best)].source
  BY DEF MatchTarget, all
<1>6. QED
  BY <1>2, <1>4, <1>5

\* Keys are pressed only if the step has some.
LEMMA ByKeys ==
  ASSUME NEW step \in StepTypes, NEW match \in {"none", "element", "vision"}
  PROVE  Resolution(step, match) = "keys" => step.keys > 0
BY DEF Resolution, StepTypes
LEMMA InitKeys == Init => KeysInv
BY ReplayAssumption DEF Init, NoRun, KeysInv, RunType, Keyed, RunFields, Stages, Within, Outside

\* A run that broke off, or has nothing in hand.
LEMMA Emptied ==
  ASSUME RunType, typed' = <<>>, acts' = 0, DOMAIN run' = RunFields,
         run'.pc \in Outside, run'.retries = 0, run'.keyRetries = 0, run'.key = 0,
         run'.steps \in Seq(StepTypes), run'.at \in 0 .. Len(run'.steps) + 1,
         run'.pc = "next" => run'.at >= 1
  PROVE  KeysInv'
BY ReplayAssumption DEF KeysInv, RunType, Keyed, Outside, Stages, Within

LEMMA RaiseEmpties == ASSUME KeysInv, Raise PROVE KeysInv'
<1>1. /\ typed' = <<>> /\ acts' = 0 /\ DOMAIN run' = RunFields /\ run'.pc = "raised"
      /\ run'.retries = 0 /\ run'.keyRetries = 0 /\ run'.key = 0 /\ run'.steps = <<>>
      /\ run'.at = 0
  BY DEF Raise, Broken, NoRun, RunFields
<1>2. QED
  BY <1>1, Emptied DEF KeysInv, Outside

LEMMA ConcludeEmpties ==
  ASSUME KeysInv, NEW ok, Conclude(ok), run.at \in DOMAIN run.steps
  PROVE  KeysInv'
<1>1. /\ typed' = <<>> /\ acts' = 0 /\ DOMAIN run' = RunFields /\ run'.pc = "next"
      /\ run'.retries = 0 /\ run'.keyRetries = 0 /\ run'.key = 0 /\ run'.steps = run.steps
      /\ run'.at = run.at + 1
  BY DEF Conclude, NoRun, RunFields
<1>2. run'.at \in 1 .. Len(run'.steps) + 1
  BY <1>1 DEF KeysInv, RunType
<1>3. QED
  BY <1>1, <1>2, Emptied DEF KeysInv, RunType, Outside

LEMMA Reversed ==
  ASSUME NEW s \in Seq(Nat)
  PROVE  /\ Reverse(s) \in Seq(Nat) /\ Len(Reverse(s)) = Len(s)
         /\ \A i \in 1 .. Len(s) : Reverse(s)[i] = s[Len(s) - i + 1]
<1>1. Len(s) \in Nat /\ Reverse(s) = [i \in 1 .. Len(s) |-> s[Len(s) - i + 1]]
  BY DEF Reverse
<1>2. \A i \in 1 .. Len(s) : s[Len(s) - i + 1] \in Nat
  <2>1. \A i \in 1 .. Len(s) : Len(s) - i + 1 \in 1 .. Len(s)
    BY <1>1
  <2>2. QED
    BY <2>1
<1>3. QED
  BY <1>1, <1>2

\* The runner goes on within the step, with what was pressed as it is.
LEMMA WithinKeeps ==
  ASSUME KeysInv, DOMAIN run' = RunFields, typed' = typed, acts' \in Nat,
         run'.steps = run.steps, run'.at = run.at, run.at \in DOMAIN run.steps,
         run'.retries \in 0 .. MaxStaleRetries, run'.keyRetries \in 0 .. MaxStaleRetries,
         run'.key \in Nat, run'.pc \in Within,
         run'.retries = 0 => run.retries = 0,
         run.retries = 0 /\ run'.pc \in {"observe", "resolve", "act"} => typed = <<>>,
         run'.pc = "act" => run'.by # "keys",
         run'.pc \in {"keys", "reobserve"} =>
           /\ run'.by = "keys" /\ run'.key \in 1 .. ThisStep.keys
           /\ EndsWith(typed, run'.key - 1)
           /\ run'.retries = 0 => Len(typed) = run'.key - 1,
         run'.pc = "record" /\ run'.by = "keys" /\ run'.code = "ok" =>
           EndsWith(typed, ThisStep.keys)
  PROVE  KeysInv'
BY DEF KeysInv, RunType, Keyed, ThisStep, Within, Outside, Stages

LEMMA KeysStep == KeysInv /\ [Next]_vars => KeysInv'
<1> SUFFICES ASSUME KeysInv, [Next]_vars PROVE KeysInv'
  OBVIOUS
<1>0. /\ DOMAIN run = RunFields /\ acts \in Nat /\ typed \in Seq(Nat) /\ run.key \in Nat
      /\ run.retries \in 0 .. MaxStaleRetries /\ run.keyRetries \in 0 .. MaxStaleRetries
      /\ run.pc \in Within \cup {"next"} /\ (run.pc = "next" => run.at <= Len(run.steps)) =>
           run.at \in DOMAIN run.steps
  BY DEF KeysInv, RunType
<1>1. ASSUME NEW steps \in Demonstrations, NEW remember \in BOOLEAN,
             StartReplay(steps, remember)
      PROVE  KeysInv'
  <2>1. /\ run'.pc \in {"next", "raised"} /\ run'.retries = 0 /\ run'.keyRetries = 0
        /\ run'.key = 0 /\ run'.at = 1 /\ run'.steps = steps /\ DOMAIN run' = RunFields
        /\ typed' = typed /\ acts' = acts /\ run.pc = "idle"
    BY <1>1 DEF StartReplay, NoRun, RunFields
  <2>2. steps \in Seq(StepTypes)
    BY ReplayAssumption
  <2> QED BY <1>0, <2>1, <2>2, ReplayAssumption DEF KeysInv, RunType, Keyed, Outside, Stages, Within
<1>2. CASE Focus
  <2>1. CASE Goes([run EXCEPT !.pc = "record", !.code = "ok", !.by = "window"])
    BY <1>0, <1>2, <2>1, WithinKeeps DEF Focus, Goes, RunFields, Within
  <2> QED BY <1>2, <2>1, RaiseEmpties DEF Focus
<1>3. CASE Confirm
  <2>1. CASE Goes([run EXCEPT !.pc = "observe"])
    BY <1>0, <1>3, <2>1, WithinKeeps DEF Confirm, Goes, RunFields, Within, KeysInv, Keyed, Outside
  <2>2. CASE Conclude(FALSE)
    BY <1>0, <1>3, <2>2, ConcludeEmpties DEF Confirm
  <2> QED BY <1>3, <2>1, <2>2 DEF Confirm
<1>4. CASE Observe
  <2>1. CASE Goes([run EXCEPT !.pc = "resolve"])
    BY <1>0, <1>4, <2>1, WithinKeeps DEF Observe, Goes, RunFields, Within, KeysInv, Keyed
  <2>2. CASE Conclude(FALSE)
    BY <1>0, <1>4, <2>2, ConcludeEmpties DEF Observe, Within
  <2> QED BY <1>4, <2>1, <2>2, RaiseEmpties DEF Observe
<1>5. ASSUME NEW controls \in Views, NEW vision \in Views, Resolve(controls, vision)
      PROVE  KeysInv'
  <2> DEFINE match == IF ThisStep.target THEN MatchTarget(controls, vision) ELSE "none"
             by    == Resolution(ThisStep, match)
             found == [run EXCEPT !.by = by, !.key = 1, !.keyRetries = 0]
  <2>1. run.pc = "resolve" /\ run.at \in DOMAIN run.steps /\ ThisStep \in StepTypes
    BY <1>0, <1>5 DEF Resolve, Within, ThisStep, KeysInv, RunType
  <2>2. by = "keys" => ThisStep.keys >= 1 /\ ThisStep.keys \in Nat
    <3>1. match \in {"none", "element", "vision"}
      BY ReplayAssumption, Matches
    <3> HIDE DEF match
    <3>2. QED
      BY <2>1, <3>1, ByKeys DEF StepTypes
  <2> HIDE DEF by
  <2>3. CASE by = "keys" /\ Goes([found EXCEPT !.pc = "keys"])
    <3>1. EndsWith(typed, 0) /\ (run.retries = 0 => typed = <<>>)
      BY <1>0, <2>1 DEF EndsWith, KeysInv, Keyed
    <3> QED BY <1>0, <2>1, <2>2, <2>3, <3>1, WithinKeeps, ReplayAssumption DEF Goes, RunFields, Within
  <2>4. CASE Goes([found EXCEPT !.pc = "record", !.code = "ELEMENT_NOT_FOUND"])
    BY <1>0, <2>1, <2>4, WithinKeeps, ReplayAssumption DEF Goes, RunFields, Within
  <2>5. CASE by # "keys" /\ Goes([found EXCEPT !.pc = "act"])
    BY <1>0, <2>1, <2>5, WithinKeeps, ReplayAssumption DEF Goes, RunFields, Within, KeysInv, Keyed
  <2> QED BY <1>5, <2>3, <2>4, <2>5, RaiseEmpties DEF Resolve, by
<1>6. CASE ActOnce
  <2>1. PICK o \in Outcomes(ThisStep.commit) :
          IF o.code = "EXCEPTION" THEN Raise
          ELSE /\ run' = [run EXCEPT !.pc = "record", !.code = o.code]
               /\ acts' = IF Refused(o.code) THEN acts ELSE acts + 1
               /\ UNCHANGED <<libraryVars, outcomes, typed>>
    BY <1>6, Zenon DEF ActOnce
  <2>2. CASE o.code # "EXCEPTION"
    <3>1. run.pc = "act" /\ run.by # "keys"
      BY <1>6 DEF ActOnce, KeysInv, Keyed
    <3>2. /\ run' = [run EXCEPT !.pc = "record", !.code = o.code]
          /\ acts' \in Nat /\ typed' = typed
      BY <1>0, <2>1, <2>2
    <3> QED BY <1>0, <3>1, <3>2, WithinKeeps DEF RunFields, Within
  <2> QED BY <2>1, <2>2, RaiseEmpties
<1>7. CASE PressKey
  <2>1. PICK o \in Outcomes(ThisStep.commit) :
          IF o.code = "EXCEPTION" THEN Raise
          ELSE /\ run' =
                    CASE Recovers(o.code) ->
                           [run EXCEPT !.pc = "reobserve", !.keyRetries = @ + 1]
                      [] o.code = "ok" /\ run.key < ThisStep.keys ->
                           [run EXCEPT !.key = @ + 1, !.keyRetries = 0]
                      [] OTHER -> [run EXCEPT !.pc = "record", !.code = o.code]
               /\ typed' = IF Refused(o.code) THEN typed ELSE Append(typed, run.key)
               /\ UNCHANGED <<libraryVars, outcomes, acts>>
    BY <1>7, Zenon DEF PressKey
  <2>2. /\ run.pc = "keys" /\ run.by = "keys" /\ run.key \in 1 .. ThisStep.keys
        /\ EndsWith(typed, run.key - 1) /\ ThisStep.keys \in Nat
        /\ run.retries = 0 => Len(typed) = run.key - 1 /\ \A i \in DOMAIN typed : typed[i] = i
        /\ run.at \in DOMAIN run.steps
    <3>1. run.pc = "keys" /\ run.at \in DOMAIN run.steps
      BY <1>0, <1>7 DEF PressKey, Within
    <3>2. ThisStep \in StepTypes
      BY <3>1 DEF ThisStep, KeysInv, RunType
    <3> QED BY <3>1, <3>2 DEF KeysInv, Keyed, StepTypes
  <2>3. CASE o.code = "EXCEPTION"
    BY <2>1, <2>3, RaiseEmpties
  <2>4. CASE Refused(o.code)
    <3>0. o.code # "EXCEPTION"
      BY <2>4 DEF Refused
    <3>1. typed' = typed /\ acts' = acts
      BY <2>1, <2>4, <3>0
    <3>2. CASE Recovers(o.code)
      <4>1. run' = [run EXCEPT !.pc = "reobserve", !.keyRetries = @ + 1]
        BY <2>1, <2>4, <3>0, <3>2 DEF Refused
      <4>2. run.keyRetries + 1 \in 0 .. MaxStaleRetries
        BY <1>0, <3>2, ReplayAssumption DEF Recovers
      <4> QED BY <1>0, <2>2, <3>1, <4>1, <4>2, WithinKeeps DEF RunFields, Within
    <3>3. CASE ~Recovers(o.code)
      <4>1. run' = [run EXCEPT !.pc = "record", !.code = o.code]
        BY <2>1, <2>4, <3>0, <3>3 DEF Refused, Recovers
      <4> QED BY <1>0, <2>2, <2>4, <3>1, <4>1, WithinKeeps DEF RunFields, Within, Refused
    <3> QED BY <3>2, <3>3
  <2>5. CASE o.code # "EXCEPTION" /\ ~Refused(o.code)
    <3>1. typed' = Append(typed, run.key) /\ acts' = acts /\ ~Recovers(o.code)
      BY <2>1, <2>5 DEF Recovers, Refused
    <3>2. /\ typed' \in Seq(Nat) /\ EndsWith(typed', run.key) /\ Len(typed') = Len(typed) + 1
          /\ run.retries = 0 => /\ Len(typed') = run.key
                                /\ \A i \in DOMAIN typed' : typed'[i] = i
      BY <1>0, <2>2, <3>1, PressedNext
    <3>3. CASE o.code = "ok" /\ run.key < ThisStep.keys
      <4>1. run' = [run EXCEPT !.key = @ + 1, !.keyRetries = 0]
        BY <2>1, <2>5, <3>1, <3>3
      <4>2. /\ DOMAIN run' = RunFields /\ run'.pc = "keys" /\ run'.by = "keys"
            /\ run'.key = run.key + 1 /\ run'.keyRetries = 0 /\ run'.retries = run.retries
            /\ run'.steps = run.steps /\ run'.at = run.at
        BY <1>0, <2>2, <4>1 DEF RunFields
      <4>3. run'.key \in 1 .. ThisStep.keys /\ run'.key - 1 = run.key /\ run'.key \in Nat
        BY <2>2, <3>3, <4>2
      <4>4. ThisStep' = ThisStep
        BY <4>2 DEF ThisStep
      <4>5. RunType'
        BY <1>0, <2>2, <3>1, <3>2, <4>2, <4>3, ReplayAssumption
        DEF KeysInv, RunType, Stages, Within
      <4>6. Keyed'
        BY <3>2, <4>2, <4>3, <4>4 DEF Keyed, Outside
      <4> QED BY <4>5, <4>6 DEF KeysInv
    <3>4. CASE ~(o.code = "ok" /\ run.key < ThisStep.keys)
      <4>1. run' = [run EXCEPT !.pc = "record", !.code = o.code]
        BY <2>1, <2>5, <3>1, <3>4
      <4>2. /\ DOMAIN run' = RunFields /\ run'.pc = "record" /\ run'.code = o.code
            /\ run'.key = run.key /\ run'.keyRetries = run.keyRetries
            /\ run'.retries = run.retries /\ run'.steps = run.steps /\ run'.at = run.at
        BY <1>0, <2>2, <4>1 DEF RunFields
      <4>3. o.code = "ok" => run.key = ThisStep.keys
        BY <2>2, <3>4
      <4>4. ThisStep' = ThisStep
        BY <4>2 DEF ThisStep
      <4>5. RunType'
        BY <1>0, <2>2, <3>1, <3>2, <4>2 DEF KeysInv, RunType, Stages, Within
      <4>6. Keyed'
        BY <3>2, <4>2, <4>3, <4>4 DEF Keyed, Outside
      <4> QED BY <4>5, <4>6 DEF KeysInv
    <3> QED BY <3>3, <3>4
  <2> QED BY <2>3, <2>4, <2>5
<1>8. CASE Reobserve
  <2>1. CASE Goes([run EXCEPT !.pc = "keys"])
    BY <1>0, <1>8, <2>1, WithinKeeps DEF Reobserve, Goes, RunFields, Within, KeysInv, Keyed
  <2>2. CASE Goes([run EXCEPT !.pc = "record", !.code = "STALE_STATE"])
    BY <1>0, <1>8, <2>2, WithinKeeps DEF Reobserve, Goes, RunFields, Within
  <2> QED BY <1>8, <2>1, <2>2, RaiseEmpties DEF Reobserve
<1>9. CASE Record
  BY <1>0, <1>9, WithinKeeps DEF Record, RunFields, Within
<1>10. CASE Judge
  <2>1. CASE Retries
    <3>1. run' = [run EXCEPT !.pc = "observe", !.code = "none", !.retries = @ + 1]
          /\ run.pc = "judge" /\ typed' = typed /\ acts' = acts
      BY <1>10, <2>1 DEF Judge, Again, Goes
    <3>2. run.retries + 1 \in 1 .. MaxStaleRetries
      BY <1>0, <2>1, ReplayAssumption DEF Retries
    <3>3. /\ DOMAIN run' = RunFields /\ run'.pc = "observe" /\ run'.retries = run.retries + 1
          /\ run'.steps = run.steps /\ run'.at = run.at /\ run'.key = run.key
          /\ run'.keyRetries = run.keyRetries
      BY <1>0, <3>1 DEF RunFields
    <3> HIDE DEF RunFields
    <3>4. run'.retries \in 0 .. MaxStaleRetries /\ run'.retries # 0
      BY <3>2, <3>3
    <3>5. RunType'
      BY <1>0, <3>1, <3>3, <3>4 DEF KeysInv, RunType, Stages, Within
    <3>6. Keyed'
      BY <3>3, <3>4 DEF Keyed, Outside
    <3> QED BY <3>5, <3>6 DEF KeysInv
  <2>2. CASE ~Retries
    BY <1>0, <1>10, <2>2, ConcludeEmpties DEF Judge, Within
  <2> QED BY <2>1, <2>2
<1>11. CASE FinishReplay
  <2>1. /\ run'.pc = "done" /\ run'.retries = 0 /\ run'.keyRetries = 0 /\ run'.key = 0
        /\ run'.at = 0 /\ run'.steps = <<>> /\ DOMAIN run' = RunFields
        /\ acts' = acts /\ typed' = typed /\ run.pc = "next"
    BY <1>11 DEF FinishReplay, NoRun, RunFields
  <2> QED BY <1>0, <2>1, ReplayAssumption DEF KeysInv, RunType, Keyed, Outside, Stages, Within
<1>12. CASE UNCHANGED replayVars
  BY <1>12 DEF replayVars, KeysInv, RunType, Keyed, ThisStep
<1>13. CASE RunnerStep
  BY <1>2, <1>3, <1>4, <1>5, <1>6, <1>7, <1>8, <1>9, <1>10, <1>11, <1>12, <1>13
  DEF RunnerStep, Save
<1>14. CASE RunnerDies
  BY <1>14, RaiseEmpties DEF RunnerDies
<1>15. CASE UNCHANGED vars \/ \E p \in Processes \ {Runner} : OtherStep(p)
  BY <1>12, <1>15 DEF vars, OtherStep
<1> QED BY <1>1, <1>13, <1>14, <1>15 DEF Next

\* The run's types, and what the keys pressed so far are.
THEOREM KeysInvHolds == Spec => []KeysInv
BY InitKeys, KeysStep, PTL DEF Spec

\* The raw keys of a text are pressed in order, each once, as long as the step
\* was not begun again; and a text reported as typed was typed to its end by
\* the last attempt: for any recordings, texts and numbers of retries.
THEOREM KeysInOrderHolds == Spec => []KeysInOrder
<1>1. KeysInv => KeysInOrder
  <2> SUFFICES ASSUME KeysInv PROVE KeysInOrder
    OBVIOUS
  <2>1. run.retries = 0 => typed = [i \in DOMAIN typed |-> i]
    BY DEF KeysInv, RunType, Keyed
  <2>2. ASSUME run.pc = "record", run.by = "keys", run.code = "ok"
        PROVE  IsSuffix([i \in 1 .. ThisStep.keys |-> i], typed)
    <3> DEFINE text == [i \in 1 .. ThisStep.keys |-> i]
    <3>1. ThisStep \in StepTypes
      BY <2>2 DEF ThisStep, KeysInv, RunType, Within
    <3>2. /\ text \in Seq(Nat) /\ Len(text) = ThisStep.keys /\ typed \in Seq(Nat)
          /\ Len(text) \in Nat /\ Len(typed) \in Nat
      BY <3>1 DEF StepTypes, KeysInv, RunType
    <3>3. Len(text) <= Len(typed) /\ \A i \in 1 .. Len(text) : typed[Len(typed) - Len(text) + i] = text[i]
      BY <2>2, <3>2 DEF KeysInv, Keyed, EndsWith
    <3> HIDE DEF text
    <3>4. /\ Len(Reverse(text)) = Len(text) /\ Len(Reverse(typed)) = Len(typed)
          /\ Reverse(text) \in Seq(Nat) /\ Reverse(typed) \in Seq(Nat)
          /\ \A i \in 1 .. Len(text) : Reverse(text)[i] = text[Len(text) - i + 1]
          /\ \A i \in 1 .. Len(typed) : Reverse(typed)[i] = typed[Len(typed) - i + 1]
      BY <3>2, Reversed
    <3>5. ASSUME NEW i \in 1 .. Len(text) PROVE Reverse(text)[i] = Reverse(typed)[i]
      <4>0. Len(text) \in Nat /\ Len(typed) \in Nat /\ Len(text) <= Len(typed)
        BY <3>2, <3>3
      <4>1. /\ Len(text) - i + 1 \in 1 .. Len(text)
            /\ Len(typed) - Len(text) + (Len(text) - i + 1) = Len(typed) - i + 1
            /\ i \in 1 .. Len(typed)
        BY <4>0
      <4>2. typed[Len(typed) - i + 1] = text[Len(text) - i + 1]
        BY <3>3, <4>1
      <4> QED BY <3>4, <4>1, <4>2
    <3>6. SubSeq(Reverse(text), 1, Len(text)) = SubSeq(Reverse(typed), 1, Len(text))
      <4>1. \A s \in Seq(Nat) : Len(text) <= Len(s) =>
              SubSeq(s, 1, Len(text)) = [i \in 1 .. Len(text) |-> s[i]]
        BY <3>2
      <4>2. [i \in 1 .. Len(text) |-> Reverse(text)[i]]
              = [i \in 1 .. Len(text) |-> Reverse(typed)[i]]
        BY <3>5
      <4>3. Len(text) <= Len(Reverse(text)) /\ Len(text) <= Len(Reverse(typed))
        BY <3>2, <3>3, <3>4
      <4>4. /\ SubSeq(Reverse(text), 1, Len(text)) = [i \in 1 .. Len(text) |-> Reverse(text)[i]]
            /\ SubSeq(Reverse(typed), 1, Len(text)) = [i \in 1 .. Len(text) |-> Reverse(typed)[i]]
        BY <3>4, <4>1, <4>3
      <4> QED BY <4>2, <4>4
    <3> QED BY <3>3, <3>4, <3>6 DEF IsSuffix, IsPrefix, text
  <2> QED BY <2>1, <2>2 DEF KeysInOrder
<1> QED BY <1>1, KeysInvHolds, PTL

-----------------------------------------------------------------------------
(* Libraries that hold together. *)

Parts(S) == {D \in SUBSET S : IsFiniteSet(D)}
\* Libraries whose templates name components they have, or some of G.
Libs(G) ==
  {lib \in [comp : UNION {[C -> ComponentType] : C \in Parts(Ids)},
            tmpl : UNION {[T -> TemplateType] : T \in Parts(Tasks)}] :
     \A t \in DOMAIN lib.tmpl : lib.tmpl[t].ids \in Seq(DOMAIN lib.comp \cup G)}

LEMMA LibMade ==
  ASSUME NEW G, NEW C \in Parts(Ids), NEW T \in Parts(Tasks), NEW comp \in [C -> ComponentType],
         NEW tmpl \in [T -> TemplateType], \A t \in T : tmpl[t].ids \in Seq(C \cup G)
  PROVE  [comp |-> comp, tmpl |-> tmpl] \in Libs(G)
<1> DEFINE lib == [comp |-> comp, tmpl |-> tmpl]
<1>1. lib \in [comp : UNION {[D -> ComponentType] : D \in Parts(Ids)},
               tmpl : UNION {[D -> TemplateType] : D \in Parts(Tasks)}]
  OBVIOUS
<1>2. lib.comp = comp /\ lib.tmpl = tmpl /\ DOMAIN comp = C /\ DOMAIN tmpl = T
  OBVIOUS
<1>3. \A t \in DOMAIN lib.tmpl : lib.tmpl[t].ids \in Seq(DOMAIN lib.comp \cup G)
  BY <1>2
<1> HIDE DEF lib
<1>4. lib \in Libs(G)
  BY <1>1, <1>3 DEF Libs
<1>5. QED
  BY <1>4 DEF lib

LEMMA LibHas ==
  ASSUME NEW G, NEW lib \in Libs(G)
  PROVE  /\ lib = [comp |-> lib.comp, tmpl |-> lib.tmpl]
         /\ lib.comp \in [DOMAIN lib.comp -> ComponentType]
         /\ lib.tmpl \in [DOMAIN lib.tmpl -> TemplateType]
         /\ DOMAIN lib.comp \in Parts(Ids) /\ DOMAIN lib.tmpl \in Parts(Tasks)
         /\ \A t \in DOMAIN lib.tmpl : lib.tmpl[t].ids \in Seq(DOMAIN lib.comp \cup G)
<1>1. lib \in [comp : UNION {[C -> ComponentType] : C \in Parts(Ids)},
               tmpl : UNION {[T -> TemplateType] : T \in Parts(Tasks)}]
  BY DEF Libs
<1>2. \A t \in DOMAIN lib.tmpl : lib.tmpl[t].ids \in Seq(DOMAIN lib.comp \cup G)
  BY DEF Libs
<1>3. PICK C \in Parts(Ids) : lib.comp \in [C -> ComponentType]
  BY <1>1
<1>4. PICK T \in Parts(Tasks) : lib.tmpl \in [T -> TemplateType]
  BY <1>1
<1>5. QED
  BY <1>1, <1>2, <1>3, <1>4

LEMMA LibWider ==
  ASSUME NEW G, NEW H, G \subseteq H, NEW lib \in Libs(G)
  PROVE  lib \in Libs(H)
<1>1. \A t \in DOMAIN lib.tmpl : lib.tmpl[t].ids \in Seq(DOMAIN lib.comp \cup H)
  <2>1. DOMAIN lib.comp \cup G \subseteq DOMAIN lib.comp \cup H
    OBVIOUS
  <2>2. \A t \in DOMAIN lib.tmpl : lib.tmpl[t].ids \in Seq(DOMAIN lib.comp \cup G)
    BY LibHas
  <2>3. \A S, T : S \subseteq T => Seq(S) \subseteq Seq(T)
    OBVIOUS
  <2>4. QED
    BY <2>1, <2>2, <2>3
<1>2. QED
  BY <1>1 DEF Libs

LEMMA PartsGrow ==
  ASSUME NEW S, NEW C \in Parts(S)
  PROVE  /\ \A x \in S : C \cup {x} \in Parts(S)
         /\ \A D \in SUBSET C : D \in Parts(S)
         /\ \A D \in Parts(S) : C \cup D \in Parts(S)
BY FS_AddElement, FS_Subset, FS_Union DEF Parts

LEMMA SetOfSeq ==
  ASSUME NEW S, NEW seq \in Seq(S)
  PROVE  /\ ToSet(seq) \in Parts(S) /\ seq \in Seq(ToSet(seq))
         /\ \A x \in S : x \in ToSet(seq) <=> Contains(seq, x)
<1>1. DOMAIN seq = 1 .. Len(seq) /\ Len(seq) \in Nat
  OBVIOUS
<1>2. IsFiniteSet(1 .. Len(seq))
  BY <1>1, FS_Interval
<1>3. seq \in Surjection(1 .. Len(seq), ToSet(seq))
  BY <1>1 DEF Surjection, ToSet
<1>4. IsFiniteSet(ToSet(seq))
  BY <1>2, <1>3, FS_Surjection
<1>5. ToSet(seq) \subseteq S /\ seq \in Seq(ToSet(seq))
  BY <1>1 DEF ToSet
<1>6. QED
  BY <1>1, <1>4, <1>5 DEF Parts, Contains, ToSet

LEMMA SeqWider ==
  ASSUME NEW S, NEW T, S \subseteq T, NEW seq \in Seq(S)
  PROVE  seq \in Seq(T)
OBVIOUS

\* Joining keeps what adding keeps.
LEMMA JoinedKeeps ==
  ASSUME NEW X, NEW Y, NEW base \in X, NEW seq \in Seq(Y),
         \A x \in X, y \in Y : Added(x, y) \in X
  PROVE  Joined(base, seq) \in X
<1> DEFINE step == [p \in X \X Y |-> Added(p[1], p[2])]
           Steps(iter) == iter = [s \in SUBSET DOMAIN seq |->
              IF s = {} THEN base ELSE Added(iter[s \ {Max(s)}], seq[Max(s)])]
           fold == CHOOSE iter : Steps(iter)
<1>1. \A s \in SUBSET DOMAIN seq : s # {} => Max(s) \in s /\ seq[Max(s)] \in Y
  BY LastOfSeq
<1>2. PICK iter \in [SUBSET DOMAIN seq -> X] : IsFold(iter, base, seq, step, DOMAIN seq)
  <2>1. step \in [X \X Y -> X]
    OBVIOUS
  <2> HIDE DEF step
  <2>2. QED
    BY <2>1, FoldExists
<1>3. Steps(iter)
  BY <1>1, <1>2 DEF IsFold
<1>4. Steps(fold)
  BY <1>3
<1>5. Joined(base, seq) = fold[DOMAIN seq]
  BY DEF Joined, FoldLeft, MapThenFoldSet
<1> HIDE DEF fold
<1>6. fold[{}] = base
  BY <1>4
<1>7. \A s \in SUBSET DOMAIN seq : s # {} /\ fold[s \ {Max(s)}] \in X => fold[s] \in X
  BY <1>1, <1>4
<1>8. QED
  BY <1>5, <1>6, <1>7, FoldWithin

LEMMA JoinedIn ==
  ASSUME NEW S, NEW base \in Seq(S), NEW seq \in Seq(S)
  PROVE  Joined(base, seq) \in Seq(S)
<1>1. \A x \in Seq(S), y \in S : Added(x, y) \in Seq(S)
  BY DEF Added
<1>2. QED
  BY <1>1, JoinedKeeps

LEMMA EmptyIsLib == \A G : EmptyLibrary \in Libs(G)
<1>1. {} \in Parts(Ids) /\ {} \in Parts(Tasks)
  BY FS_EmptySet DEF Parts
<1>2. <<>> \in [{} -> ComponentType] /\ <<>> \in [{} -> TemplateType]
  OBVIOUS
<1>3. QED
  BY <1>1, <1>2, LibMade DEF EmptyLibrary

-----------------------------------------------------------------------------
(* What each operation makes of such a library is one, too. *)

LEMMA LearnKeeps ==
  ASSUME NEW G, NEW lib \in Libs(G), NEW recording \in [task : Tasks, steps : Seq(Ids)]
  PROVE  Learn(lib, recording) \in Libs(G)
<1> DEFINE ids == Distinct(recording.steps)
           C == DOMAIN lib.comp \cup ToSet(ids)
           used == [c \in C |->
                     IF c \notin DOMAIN lib.comp THEN NewComponent
                     ELSE [lib.comp[c] EXCEPT !.hits = IF Contains(ids, c) THEN @ + 1 ELSE @]]
           old  == recording.task \in DOMAIN lib.tmpl
           hits == IF old THEN lib.tmpl[recording.task].hits + 1 ELSE 0
           T == DOMAIN lib.tmpl \cup {recording.task}
           tmpl == With(lib.tmpl, recording.task, [ids |-> ids, hits |-> hits])
<1>1. Learn(lib, recording) = [comp |-> used, tmpl |-> tmpl]
  BY DEF Learn
<1>2. ids \in Seq(Ids)
  <2>1. <<>> \in Seq(Ids) /\ recording.steps \in Seq(Ids)
    OBVIOUS
  <2>2. QED
    BY <2>1, JoinedIn DEF Distinct
<1> HIDE DEF ids
<1>3. ToSet(ids) \in Parts(Ids) /\ ids \in Seq(ToSet(ids))
  BY <1>2, SetOfSeq
<1>4. C \in Parts(Ids) /\ T \in Parts(Tasks) /\ recording.task \in Tasks
  BY <1>3, LibHas, PartsGrow
<1>5. used \in [C -> ComponentType]
  <2>1. ASSUME NEW c \in C
        PROVE  (IF c \notin DOMAIN lib.comp THEN NewComponent
                ELSE [lib.comp[c] EXCEPT !.hits = IF Contains(ids, c) THEN @ + 1 ELSE @])
                 \in ComponentType
    <3>1. CASE c \in DOMAIN lib.comp
      <4>1. lib.comp[c] \in ComponentType
        BY <3>1, LibHas
      <4>2. QED
        BY <3>1, <4>1 DEF ComponentType
    <3>2. CASE c \notin DOMAIN lib.comp
      BY <3>2 DEF NewComponent, ComponentType
    <3>3. QED
      BY <3>1, <3>2
  <2>2. QED
    BY <2>1
<1>6. hits \in Nat
  <2>1. old => lib.tmpl[recording.task] \in TemplateType
    BY LibHas
  <2>2. QED
    BY <2>1 DEF TemplateType
<1> HIDE DEF hits, C, used
<1>7. tmpl = [t \in T |-> IF t = recording.task THEN [ids |-> ids, hits |-> hits] ELSE lib.tmpl[t]]
  BY DEF With
<1>8. ASSUME NEW t \in T
      PROVE  /\ tmpl[t] \in TemplateType /\ tmpl[t].ids \in Seq(C \cup G)
  <2>1. CASE t = recording.task
    BY <1>2, <1>3, <1>6, <1>7, <2>1, SeqWider DEF TemplateType, C
  <2>2. CASE t # recording.task
    <3>1. t \in DOMAIN lib.tmpl /\ tmpl[t] = lib.tmpl[t]
      BY <1>7, <2>2
    <3>2. lib.tmpl[t] \in TemplateType /\ lib.tmpl[t].ids \in Seq(DOMAIN lib.comp \cup G)
      BY <3>1, LibHas
    <3>3. QED
      BY <3>1, <3>2, SeqWider DEF C
  <2>3. QED
    BY <2>1, <2>2
<1>9. tmpl \in [T -> TemplateType]
  BY <1>7, <1>8
<1> HIDE DEF tmpl, T
<1>10. \A t \in T : tmpl[t].ids \in Seq(C \cup G)
  BY <1>8
<1>11. [comp |-> used, tmpl |-> tmpl] \in Libs(G)
  BY <1>4, <1>5, <1>9, <1>10, LibMade
<1>12. QED
  BY <1>1, <1>11

LEMMA UsedKeeps ==
  ASSUME NEW G, NEW lib \in Libs(G), NEW c \in Ids, NEW ok \in BOOLEAN
  PROVE  Used(lib, c, ok) \in Libs(G)
<1> DEFINE known == IF c \in DOMAIN lib.comp THEN lib.comp[c] ELSE NewComponent
           now == IF ok THEN [known EXCEPT !.hits = @ + 1] ELSE [known EXCEPT !.misses = @ + 1]
           C == DOMAIN lib.comp \cup {c}
           comp == With(lib.comp, c, now)
<1>1. Used(lib, c, ok) = [comp |-> comp, tmpl |-> lib.tmpl]
  <2>1. lib = [comp |-> lib.comp, tmpl |-> lib.tmpl]
    BY LibHas
  <2>2. QED
    BY <2>1 DEF Used
<1>2. known \in ComponentType
  BY LibHas DEF NewComponent, ComponentType
<1>3. now \in ComponentType
  BY <1>2 DEF ComponentType
<1> HIDE DEF now
<1>4. comp = [d \in C |-> IF d = c THEN now ELSE lib.comp[d]]
  BY DEF With
<1>5. comp \in [C -> ComponentType]
  <2>1. \A d \in C : (IF d = c THEN now ELSE lib.comp[d]) \in ComponentType
    BY <1>3, LibHas
  <2>2. QED
    BY <1>4, <2>1
<1>6. C \in Parts(Ids)
  BY LibHas, PartsGrow
<1> HIDE DEF comp
<1>7. \A t \in DOMAIN lib.tmpl : lib.tmpl[t].ids \in Seq(C \cup G)
  <2>1. \A t \in DOMAIN lib.tmpl : lib.tmpl[t].ids \in Seq(DOMAIN lib.comp \cup G)
    BY LibHas
  <2>2. DOMAIN lib.comp \cup G \subseteq C \cup G
    OBVIOUS
  <2>3. QED
    BY <2>1, <2>2, SeqWider
<1>8. lib.tmpl \in [DOMAIN lib.tmpl -> TemplateType] /\ DOMAIN lib.tmpl \in Parts(Tasks)
  BY LibHas
<1> HIDE DEF C
<1>9. QED
  BY <1>1, <1>5, <1>6, <1>7, <1>8, LibMade

LEMMA AliasedKeeps ==
  ASSUME NEW G, NEW lib \in Libs(G), NEW c, NEW name \in Ids \cup Nicknames
  PROVE  Aliased(lib, c, name) \in Libs(G)
<1>1. CASE c \notin DOMAIN lib.comp
  BY <1>1 DEF Aliased
<1>2. CASE c \in DOMAIN lib.comp
  <2> DEFINE named == [lib.comp[c] EXCEPT !.aliases = @ \cup {name}]
             comp == [lib.comp EXCEPT ![c] = named]
  <2>1. Aliased(lib, c, name) = [comp |-> comp, tmpl |-> lib.tmpl]
    <3>1. Aliased(lib, c, name) = [lib EXCEPT !.comp = comp]
      BY <1>2 DEF Aliased
    <3>2. lib = [comp |-> lib.comp, tmpl |-> lib.tmpl]
      BY LibHas
    <3> HIDE DEF comp
    <3>3. QED
      BY <3>1, <3>2
  <2>2. lib.comp[c] \in ComponentType
    BY <1>2, LibHas
  <2>3. named \in ComponentType
    BY <2>2 DEF ComponentType
  <2> HIDE DEF named
  <2>4. comp \in [DOMAIN lib.comp -> ComponentType]
    BY <2>3, LibHas
  <2> HIDE DEF comp
  <2>5. /\ lib.tmpl \in [DOMAIN lib.tmpl -> TemplateType]
        /\ DOMAIN lib.comp \in Parts(Ids) /\ DOMAIN lib.tmpl \in Parts(Tasks)
        /\ \A t \in DOMAIN lib.tmpl : lib.tmpl[t].ids \in Seq(DOMAIN lib.comp \cup G)
    BY LibHas
  <2>6. [comp |-> comp, tmpl |-> lib.tmpl] \in Libs(G)
    BY <2>4, <2>5, LibMade
  <2>7. QED
    BY <2>1, <2>6
<1>3. QED
  BY <1>1, <1>2

LEMMA MergeKeeps ==
  ASSUME NEW G, NEW lib \in Libs(G), NEW merge \in [keep : Ids, into : Ids],
         G \subseteq Ids, merge.keep = merge.into => merge.keep \in G
  PROVE  Merge(lib, merge) \in Libs(G)
<1>1. CASE ~Fits(lib, merge)
  BY <1>1 DEF Merge
<1>2. CASE Fits(lib, merge)
  <2> DEFINE k == merge.keep
             i == merge.into
             folded == Folded(lib.comp[k], lib.comp[i], k)
             C == DOMAIN lib.comp \ {k}
             comp == Without([lib.comp EXCEPT ![i] = folded], k)
             tmpl == [t \in DOMAIN lib.tmpl |->
                       [lib.tmpl[t] EXCEPT !.ids = Substituted(@, k, i)]]
  <2>1. Merge(lib, merge) = [comp |-> comp, tmpl |-> tmpl]
    BY <1>2 DEF Merge
  <2>2. k \in DOMAIN lib.comp /\ i \in DOMAIN lib.comp /\ k \in Ids /\ i \in C \cup G
    BY <1>2 DEF Fits
  <2>3. folded \in ComponentType
    <3>1. lib.comp[k] \in ComponentType /\ lib.comp[i] \in ComponentType
      BY <2>2, LibHas
    <3> HIDE DEF k
    <3>2. QED
      BY <2>2, <3>1 DEF Folded, ComponentType
  <2> HIDE DEF folded, k, i
  <2>4. comp = [c \in C |-> IF c = i THEN folded ELSE lib.comp[c]]
    BY <2>2, LibHas DEF Without, Restrict
  <2>5. comp \in [C -> ComponentType]
    <3>1. \A c \in C : (IF c = i THEN folded ELSE lib.comp[c]) \in ComponentType
      BY <2>3, LibHas
    <3>2. QED
      BY <2>4, <3>1
  <2>6. C \in Parts(Ids)
    <3>1. DOMAIN lib.comp \in Parts(Ids) /\ C \in SUBSET DOMAIN lib.comp
      BY LibHas
    <3>2. QED
      BY <3>1, PartsGrow
  <2>7. ASSUME NEW t \in DOMAIN lib.tmpl
        PROVE  tmpl[t] \in TemplateType /\ tmpl[t].ids \in Seq(C \cup G)
    <3>1. lib.tmpl[t] \in TemplateType /\ lib.tmpl[t].ids \in Seq(DOMAIN lib.comp \cup G)
      BY LibHas
    <3> DEFINE ids == lib.tmpl[t].ids
    <3>2. Substituted(ids, k, i) \in Seq(C \cup G)
      <4> HIDE DEF ids
      <4>1. ids \in Seq(DOMAIN lib.comp \cup G) /\ DOMAIN ids = 1 .. Len(ids) /\ Len(ids) \in Nat
        BY <3>1 DEF ids
      <4>2. \A n \in 1 .. Len(ids) : (IF ids[n] = k THEN i ELSE ids[n]) \in C \cup G
        BY <2>2, <4>1
      <4> HIDE DEF C
      <4>3. QED
        BY <4>1, <4>2 DEF Substituted
    <3>3. C \cup G \subseteq Ids
      BY <2>6 DEF Parts
    <3>4. Substituted(ids, k, i) \in Seq(Ids)
      BY <3>2, <3>3, SeqWider
    <3>5. tmpl[t] = [lib.tmpl[t] EXCEPT !.ids = Substituted(ids, k, i)]
      OBVIOUS
    <3> HIDE DEF ids, tmpl, C
    <3>6. QED
      BY <3>1, <3>2, <3>4, <3>5 DEF TemplateType
  <2>8. tmpl \in [DOMAIN lib.tmpl -> TemplateType]
    BY <2>7
  <2> HIDE DEF comp, tmpl, C
  <2>9. DOMAIN lib.tmpl \in Parts(Tasks) /\ \A t \in DOMAIN lib.tmpl : tmpl[t].ids \in Seq(C \cup G)
    BY <2>7, LibHas
  <2>10. [comp |-> comp, tmpl |-> tmpl] \in Libs(G)
    BY <2>5, <2>6, <2>8, <2>9, LibMade
  <2>11. QED
    BY <2>1, <2>10
<1>3. QED
  BY <1>1, <1>2

\* Merging keeps what a merge keeps.
LEMMA MergedKeeps ==
  ASSUME NEW X, NEW Y, NEW base \in X, NEW seq \in Seq(Y),
         \A x \in X, y \in Y : Merge(x, y) \in X
  PROVE  Merged(base, seq) \in X
<1> DEFINE step == [p \in X \X Y |-> Merge(p[1], p[2])]
           Steps(iter) == iter = [s \in SUBSET DOMAIN seq |->
              IF s = {} THEN base ELSE Merge(iter[s \ {Max(s)}], seq[Max(s)])]
           fold == CHOOSE iter : Steps(iter)
<1>1. \A s \in SUBSET DOMAIN seq : s # {} => Max(s) \in s /\ seq[Max(s)] \in Y
  BY LastOfSeq
<1>2. PICK iter \in [SUBSET DOMAIN seq -> X] : IsFold(iter, base, seq, step, DOMAIN seq)
  <2>1. step \in [X \X Y -> X]
    OBVIOUS
  <2> HIDE DEF step
  <2>2. QED
    BY <2>1, FoldExists
<1>3. Steps(iter)
  BY <1>1, <1>2 DEF IsFold
<1>4. Steps(fold)
  BY <1>3
<1>5. Merged(base, seq) = fold[DOMAIN seq]
  BY DEF Merged, FoldLeft, MapThenFoldSet
<1> HIDE DEF fold
<1>6. fold[{}] = base
  BY <1>4
<1>7. \A s \in SUBSET DOMAIN seq : s # {} /\ fold[s \ {Max(s)}] \in X => fold[s] \in X
  BY <1>1, <1>4
<1>8. QED
  BY <1>5, <1>6, <1>7, FoldWithin

\* So do the steps of several templates, ...
LEMMA StepsKeep ==
  ASSUME NEW lib, NEW X, NEW Y, <<>> \in X, NEW seq \in Seq(Y),
         \A x \in X, y \in Y : Joined(x, lib.tmpl[y].ids) \in X
  PROVE  StepsOf(lib, seq) \in X
<1> DEFINE step == [p \in X \X Y |-> Joined(p[1], lib.tmpl[p[2]].ids)]
           Steps(iter) == iter = [s \in SUBSET DOMAIN seq |->
              IF s = {} THEN <<>> ELSE Joined(iter[s \ {Max(s)}], lib.tmpl[seq[Max(s)]].ids)]
           fold == CHOOSE iter : Steps(iter)
<1>1. \A s \in SUBSET DOMAIN seq : s # {} => Max(s) \in s /\ seq[Max(s)] \in Y
  BY LastOfSeq
<1>2. PICK iter \in [SUBSET DOMAIN seq -> X] : IsFold(iter, <<>>, seq, step, DOMAIN seq)
  <2>1. step \in [X \X Y -> X]
    OBVIOUS
  <2> HIDE DEF step
  <2>2. QED
    BY <2>1, FoldExists
<1>3. Steps(iter)
  BY <1>1, <1>2 DEF IsFold
<1>4. Steps(fold)
  BY <1>3
<1>5. StepsOf(lib, seq) = fold[DOMAIN seq]
  BY DEF StepsOf, FoldLeft, MapThenFoldSet
<1> HIDE DEF fold
<1>6. fold[{}] \in X
  BY <1>4
<1>7. \A s \in SUBSET DOMAIN seq : s # {} /\ fold[s \ {Max(s)}] \in X => fold[s] \in X
  BY <1>1, <1>4
<1>8. QED
  BY <1>5, <1>6, <1>7, FoldWithin

\* ... and the generalizations.
LEMMA GeneralizedKeeps ==
  ASSUME NEW X, NEW Y, NEW base \in X, NEW seq \in Seq(Y),
         \A x \in X, y \in Y : Generalize(x, y) \in X
  PROVE  FoldLeft(Generalize, base, seq) \in X
<1> DEFINE step == [p \in X \X Y |-> Generalize(p[1], p[2])]
           Steps(iter) == iter = [s \in SUBSET DOMAIN seq |->
              IF s = {} THEN base ELSE Generalize(iter[s \ {Max(s)}], seq[Max(s)])]
           fold == CHOOSE iter : Steps(iter)
<1>1. \A s \in SUBSET DOMAIN seq : s # {} => Max(s) \in s /\ seq[Max(s)] \in Y
  BY LastOfSeq
<1>2. PICK iter \in [SUBSET DOMAIN seq -> X] : IsFold(iter, base, seq, step, DOMAIN seq)
  <2>1. step \in [X \X Y -> X]
    OBVIOUS
  <2> HIDE DEF step
  <2>2. QED
    BY <2>1, FoldExists
<1>3. Steps(iter)
  BY <1>1, <1>2 DEF IsFold
<1>4. Steps(fold)
  BY <1>3
<1>5. FoldLeft(Generalize, base, seq) = fold[DOMAIN seq]
  BY DEF FoldLeft, MapThenFoldSet
<1> HIDE DEF fold
<1>6. fold[{}] = base
  BY <1>4
<1>7. \A s \in SUBSET DOMAIN seq : s # {} /\ fold[s \ {Max(s)}] \in X => fold[s] \in X
  BY <1>1, <1>4
<1>8. QED
  BY <1>5, <1>6, <1>7, FoldWithin

-----------------------------------------------------------------------------
(* What is counted. *)

UsesOf(lib) == [c \in DOMAIN lib.comp |-> lib.comp[c].hits + lib.comp[c].misses]
RunsOf(lib) == [t \in DOMAIN lib.tmpl |-> lib.tmpl[t].hits]

LEMMA Counts ==
  ASSUME NEW G, NEW lib \in Libs(G)
  PROVE  /\ \A c \in DOMAIN lib.comp : UsesOf(lib)[c] \in Nat
         /\ \A t \in DOMAIN lib.tmpl : RunsOf(lib)[t] \in Nat
<1>1. \A c \in DOMAIN lib.comp : lib.comp[c] \in ComponentType
  BY LibHas
<1>2. \A t \in DOMAIN lib.tmpl : lib.tmpl[t] \in TemplateType
  BY LibHas
<1>3. QED
  BY <1>1, <1>2 DEF ComponentType, TemplateType, UsesOf, RunsOf

LEMMA RunsAre ==
  ASSUME NEW G, NEW lib \in Libs(G), NEW S \in SUBSET DOMAIN lib.tmpl
  PROVE  TmplHits(lib, S) = Sum(RunsOf(lib), S)
<1> DEFINE f == RunsOf(lib)
           Iterates(iter) == iter = [s \in SUBSET S |->
              IF s = {} THEN 0 ELSE lib.tmpl[Pick(s)].hits + iter[s \ {Pick(s)}]]
           sum == CHOOSE iter : Iterates(iter)
<1>1. IsFiniteSet(S) /\ \A t \in S : f[t] \in Nat /\ f[t] = lib.tmpl[t].hits
  BY LibHas, Counts, FS_Subset DEF Parts, RunsOf
<1> HIDE DEF f
<1>2. PICK iter \in [SUBSET S -> Nat] : Sums(iter, f, S) /\ Sum(f, S) = iter[S]
  BY <1>1, SumIs
<1>3. \A s \in SUBSET S : s # {} => Pick(s) \in S
  BY PickIn
<1>4. Iterates(iter)
  BY <1>1, <1>2, <1>3 DEF Sums
<1>5. Iterates(sum)
  BY <1>4
<1>6. TmplHits(lib, S) = sum[S]
  BY DEF TmplHits, MapThenSumSet, MapThenFoldSet, Pick
<1> HIDE DEF sum
<1>7. Sums(sum, f, S)
  BY <1>1, <1>3, <1>5 DEF Sums
<1>8. S \in SUBSET (S \cap S)
  OBVIOUS
<1>9. sum[S] = iter[S]
  BY <1>1, <1>2, <1>7, <1>8, SumsAgree
<1>10. QED
  BY <1>2, <1>6, <1>9 DEF f

LEMMA UsesAre ==
  ASSUME NEW G, NEW lib \in Libs(G)
  PROVE  Uses(lib) = Sum(UsesOf(lib), DOMAIN lib.comp)
<1> DEFINE f == UsesOf(lib)
           S == DOMAIN lib.comp
           Iterates(iter) == iter = [s \in SUBSET S |->
              IF s = {} THEN 0
              ELSE (lib.comp[Pick(s)].hits + lib.comp[Pick(s)].misses) + iter[s \ {Pick(s)}]]
           sum == CHOOSE iter : Iterates(iter)
<1>1. IsFiniteSet(S) /\ \A c \in S : f[c] \in Nat /\ f[c] = lib.comp[c].hits + lib.comp[c].misses
  BY LibHas, Counts DEF Parts, UsesOf
<1> HIDE DEF f
<1>2. PICK iter \in [SUBSET S -> Nat] : Sums(iter, f, S) /\ Sum(f, S) = iter[S]
  BY <1>1, SumIs
<1>3. \A s \in SUBSET S : s # {} => Pick(s) \in S
  BY PickIn
<1>4. Iterates(iter)
  BY <1>1, <1>2, <1>3 DEF Sums
<1>5. Iterates(sum)
  BY <1>4
<1>6. Uses(lib) = sum[S]
  BY DEF Uses, MapThenSumSet, MapThenFoldSet, Pick
<1> HIDE DEF sum
<1>7. Sums(sum, f, S)
  BY <1>1, <1>3, <1>5 DEF Sums
<1>8. S \in SUBSET (S \cap S)
  OBVIOUS
<1>9. sum[S] = iter[S]
  BY <1>1, <1>2, <1>7, <1>8, SumsAgree
<1>10. QED
  BY <1>2, <1>6, <1>9 DEF f

\* Nothing of the first library is lost in the second.
Grown(lib, now) ==
  /\ Names(lib) \subseteq Names(now) /\ Uses(lib) <= Uses(now) /\ Runs(lib) <= Runs(now)

LEMMA GrownBy ==
  ASSUME NEW G, NEW lib \in Libs(G), NEW now \in Libs(G),
         DOMAIN lib.comp \subseteq DOMAIN now.comp, DOMAIN lib.tmpl \subseteq DOMAIN now.tmpl,
         \A c \in DOMAIN lib.comp :
           /\ UsesOf(lib)[c] <= UsesOf(now)[c]
           /\ lib.comp[c].aliases \subseteq now.comp[c].aliases,
         \A t \in DOMAIN lib.tmpl : RunsOf(lib)[t] <= RunsOf(now)[t]
  PROVE  Grown(lib, now)
<1>1. IsFiniteSet(DOMAIN now.comp) /\ IsFiniteSet(DOMAIN now.tmpl)
  BY LibHas DEF Parts
<1>2. Sum(UsesOf(lib), DOMAIN lib.comp) <= Sum(UsesOf(now), DOMAIN now.comp)
  BY <1>1, Counts, SumWider
<1>3. Sum(RunsOf(lib), DOMAIN lib.tmpl) <= Sum(RunsOf(now), DOMAIN now.tmpl)
  BY <1>1, Counts, SumWider
<1>4. Runs(lib) = Sum(RunsOf(lib), DOMAIN lib.tmpl) /\ Runs(now) = Sum(RunsOf(now), DOMAIN now.tmpl)
  BY RunsAre DEF Runs
<1>5. Uses(lib) <= Uses(now) /\ Runs(lib) <= Runs(now)
  BY <1>2, <1>3, <1>4, UsesAre
<1>6. Names(lib) \subseteq Names(now)
  BY DEF Names
<1>7. QED
  BY <1>5, <1>6 DEF Grown

LEMMA GrownSame == ASSUME NEW G, NEW lib \in Libs(G) PROVE Grown(lib, lib)
<1>1. \A c \in DOMAIN lib.comp : UsesOf(lib)[c] <= UsesOf(lib)[c]
  BY Counts
<1>2. \A t \in DOMAIN lib.tmpl : RunsOf(lib)[t] <= RunsOf(lib)[t]
  BY Counts
<1>3. QED
  BY <1>1, <1>2, GrownBy

LEMMA GrownOn ==
  ASSUME NEW G, NEW a \in Libs(G), NEW b \in Libs(G), NEW c \in Libs(G), Grown(a, b), Grown(b, c)
  PROVE  Grown(a, c)
<1>1. \A lib \in Libs(G) : Uses(lib) \in Nat /\ Runs(lib) \in Nat
  <2> SUFFICES ASSUME NEW lib \in Libs(G) PROVE Uses(lib) \in Nat /\ Runs(lib) \in Nat
    OBVIOUS
  <2>1. IsFiniteSet(DOMAIN lib.comp) /\ IsFiniteSet(DOMAIN lib.tmpl)
    BY LibHas DEF Parts
  <2>2. Sum(UsesOf(lib), DOMAIN lib.comp) \in Nat /\ Sum(RunsOf(lib), DOMAIN lib.tmpl) \in Nat
    BY <2>1, Counts, SumRemove
  <2>3. QED
    BY <2>2, UsesAre, RunsAre DEF Runs
<1>2. QED
  BY <1>1 DEF Grown

LEMMA LearnGrows ==
  ASSUME NEW G, NEW lib \in Libs(G), NEW recording \in [task : Tasks, steps : Seq(Ids)]
  PROVE  Grown(lib, Learn(lib, recording))
<1> DEFINE now == Learn(lib, recording)
           ids == Distinct(recording.steps)
           task == recording.task
<1>1. now \in Libs(G)
  BY LearnKeeps
<1>2. /\ now.comp = [c \in DOMAIN lib.comp \cup ToSet(ids) |->
                      IF c \notin DOMAIN lib.comp THEN NewComponent
                      ELSE [lib.comp[c] EXCEPT !.hits = IF Contains(ids, c) THEN @ + 1 ELSE @]]
      /\ now.tmpl = With(lib.tmpl, task,
           [ids |-> ids, hits |-> IF task \in DOMAIN lib.tmpl THEN lib.tmpl[task].hits + 1 ELSE 0])
  BY DEF Learn
<1> HIDE DEF now, ids, task
<1>3. ASSUME NEW c \in DOMAIN lib.comp
      PROVE  /\ c \in DOMAIN now.comp /\ UsesOf(lib)[c] <= UsesOf(now)[c]
             /\ lib.comp[c].aliases \subseteq now.comp[c].aliases
  <2>1. lib.comp[c] \in ComponentType
    BY LibHas
  <2>2. now.comp[c] = [lib.comp[c] EXCEPT !.hits = IF Contains(ids, c) THEN @ + 1 ELSE @]
        /\ c \in DOMAIN now.comp
    BY <1>2
  <2>3. QED
    BY <2>1, <2>2 DEF UsesOf, ComponentType
<1>4. ASSUME NEW t \in DOMAIN lib.tmpl
      PROVE  t \in DOMAIN now.tmpl /\ RunsOf(lib)[t] <= RunsOf(now)[t]
  <2>1. lib.tmpl[t] \in TemplateType /\ t \in DOMAIN now.tmpl
    BY <1>2, LibHas DEF With
  <2>2. now.tmpl[t].hits = IF t = task THEN lib.tmpl[t].hits + 1 ELSE lib.tmpl[t].hits
    BY <1>2 DEF With
  <2>3. QED
    BY <2>1, <2>2 DEF RunsOf, TemplateType
<1>5. QED
  BY <1>1, <1>3, <1>4, GrownBy DEF now

LEMMA UsedGrows ==
  ASSUME NEW G, NEW lib \in Libs(G), NEW c \in Ids, NEW ok \in BOOLEAN
  PROVE  Grown(lib, Used(lib, c, ok))
<1> DEFINE now == Used(lib, c, ok)
           known == IF c \in DOMAIN lib.comp THEN lib.comp[c] ELSE NewComponent
           used == IF ok THEN [known EXCEPT !.hits = @ + 1] ELSE [known EXCEPT !.misses = @ + 1]
<1>1. now \in Libs(G)
  BY UsedKeeps
<1>2. now.comp = With(lib.comp, c, used) /\ now.tmpl = lib.tmpl
  BY LibHas DEF Used
<1>3. c \in DOMAIN lib.comp =>
        lib.comp[c] \in ComponentType /\ known = lib.comp[c]
  BY LibHas
<1>4. c \in DOMAIN lib.comp =>
        used.hits + used.misses >= lib.comp[c].hits + lib.comp[c].misses
        /\ used.aliases = lib.comp[c].aliases
  BY <1>3 DEF ComponentType
<1> HIDE DEF now, used
<1>5. ASSUME NEW d \in DOMAIN lib.comp
      PROVE  /\ d \in DOMAIN now.comp /\ UsesOf(lib)[d] <= UsesOf(now)[d]
             /\ lib.comp[d].aliases \subseteq now.comp[d].aliases
  <2>1. d \in DOMAIN now.comp /\ now.comp[d] = IF d = c THEN used ELSE lib.comp[d]
    BY <1>2 DEF With
  <2>2. lib.comp[d].hits + lib.comp[d].misses \in Nat
    BY Counts DEF UsesOf
  <2>3. QED
    BY <1>4, <2>1, <2>2 DEF UsesOf
<1>6. \A t \in DOMAIN lib.tmpl : t \in DOMAIN now.tmpl /\ RunsOf(lib)[t] <= RunsOf(now)[t]
  BY <1>2, Counts DEF RunsOf
<1>7. QED
  BY <1>1, <1>5, <1>6, GrownBy DEF now

LEMMA AliasedGrows ==
  ASSUME NEW G, NEW lib \in Libs(G), NEW c, NEW name \in Ids \cup Nicknames
  PROVE  Grown(lib, Aliased(lib, c, name))
<1>1. CASE c \notin DOMAIN lib.comp
  BY <1>1, GrownSame DEF Aliased
<1>2. CASE c \in DOMAIN lib.comp
  <2> DEFINE now == Aliased(lib, c, name)
             named == [lib.comp[c] EXCEPT !.aliases = @ \cup {name}]
  <2>1. now \in Libs(G)
    BY AliasedKeeps
  <2>2. now.comp = [lib.comp EXCEPT ![c] = named] /\ now.tmpl = lib.tmpl
    <3>1. now = [lib EXCEPT !.comp = [lib.comp EXCEPT ![c] = named]]
      BY <1>2 DEF Aliased
    <3>2. lib = [comp |-> lib.comp, tmpl |-> lib.tmpl]
      BY LibHas
    <3> HIDE DEF named, now
    <3>3. QED
      BY <3>1, <3>2
  <2>3. lib.comp[c] \in ComponentType
    BY <1>2, LibHas
  <2>4. /\ named.hits = lib.comp[c].hits /\ named.misses = lib.comp[c].misses
        /\ lib.comp[c].aliases \subseteq named.aliases
    BY <2>3 DEF ComponentType
  <2> HIDE DEF now, named
  <2>5. ASSUME NEW d \in DOMAIN lib.comp
        PROVE  /\ d \in DOMAIN now.comp /\ UsesOf(lib)[d] <= UsesOf(now)[d]
               /\ lib.comp[d].aliases \subseteq now.comp[d].aliases
    <3>1. d \in DOMAIN now.comp /\ now.comp[d] = IF d = c THEN named ELSE lib.comp[d]
      BY <2>2
    <3>2. lib.comp[d].hits + lib.comp[d].misses \in Nat
      BY Counts DEF UsesOf
    <3>3. QED
      BY <2>4, <3>1, <3>2 DEF UsesOf
  <2>6. \A t \in DOMAIN lib.tmpl : t \in DOMAIN now.tmpl /\ RunsOf(lib)[t] <= RunsOf(now)[t]
    <3>1. DOMAIN now.tmpl = DOMAIN lib.tmpl /\ RunsOf(now) = RunsOf(lib)
      BY <2>2 DEF RunsOf
    <3>2. \A t \in DOMAIN lib.tmpl : RunsOf(lib)[t] \in Nat
      BY Counts
    <3>3. QED
      BY <3>1, <3>2
  <2>7. QED
    BY <2>1, <2>5, <2>6, GrownBy DEF now
<1>3. QED
  BY <1>1, <1>2

-----------------------------------------------------------------------------
(* Curation. *)

\* Nothing was counted anew, and nothing was lost: of the templates, and of the
\* components if all were kept or merged into others.
Folds(lib, now, all) ==
  /\ Runs(now) = Runs(lib)
  /\ all => Uses(now) = Uses(lib) /\ Names(lib) \subseteq Names(now)

LEMMA MergeFolds ==
  ASSUME NEW G, NEW lib \in Libs(G), NEW merge \in [keep : Ids, into : Ids],
         G \subseteq Ids, merge.keep = merge.into => merge.keep \in G
  PROVE  Folds(lib, Merge(lib, merge), merge.keep # merge.into)
<1>1. CASE ~Fits(lib, merge)
  BY <1>1 DEF Merge, Folds
<1>2. CASE Fits(lib, merge)
  <2> DEFINE now == Merge(lib, merge)
             k == merge.keep
             i == merge.into
             S == DOMAIN lib.comp
             C == S \ {k}
             folded == Folded(lib.comp[k], lib.comp[i], k)
             f == UsesOf(lib)
             g == UsesOf(now)
  <2>1. now \in Libs(G)
    BY MergeKeeps
  <2>2. k \in S /\ i \in S /\ (k # i => i \in C)
    BY <1>2 DEF Fits
  <2>3. /\ now.comp = Without([lib.comp EXCEPT ![i] = folded], k)
        /\ now.tmpl = [t \in DOMAIN lib.tmpl |->
                        [lib.tmpl[t] EXCEPT !.ids = Substituted(@, k, i)]]
    BY <1>2 DEF Merge
  <2>4. /\ folded.hits = lib.comp[i].hits + lib.comp[k].hits
        /\ folded.misses = lib.comp[i].misses + lib.comp[k].misses
        /\ folded.aliases = lib.comp[i].aliases \cup {k} \cup lib.comp[k].aliases
    BY DEF Folded
  <2>5. lib.comp[k] \in ComponentType /\ lib.comp[i] \in ComponentType
    BY <2>2, LibHas
  <2> HIDE DEF now, folded, k, i
  <2>6. now.comp = [c \in C |-> IF c = i THEN folded ELSE lib.comp[c]]
    BY <2>2, <2>3, LibHas DEF Without, Restrict
  <2>7. ASSUME k # i PROVE Uses(now) = Uses(lib)
    <3>0. k \in S /\ i \in C
      BY <2>2, <2>7
    <3> DEFINE R == C \ {i}
    <3>1. IsFiniteSet(S) /\ IsFiniteSet(C) /\ IsFiniteSet(R) /\ S \ {k} = C
      BY LibHas, FS_Subset DEF Parts
    <3>2. \A c \in R : f[c] = g[c]
      BY <2>6 DEF UsesOf
    <3>3. f[k] \in Nat /\ f[i] \in Nat /\ g[i] = f[i] + f[k]
      BY <3>0, <2>2, <2>4, <2>5, <2>6 DEF UsesOf, ComponentType
    <3>4. (\A c \in S : f[c] \in Nat) /\ (\A c \in C : g[c] \in Nat)
      <4>1. DOMAIN now.comp = C
        BY <2>6
      <4>2. QED
        BY <2>1, <4>1, Counts
    <3>5. Uses(lib) = Sum(f, S) /\ Uses(now) = Sum(g, C)
      BY <2>1, <2>6, UsesAre
    <3> HIDE DEF f, g, C
    <3>6. Sum(f, S) = Sum(f, C) + f[k]
      BY <3>0, <3>1, <3>4, SumRemove
    <3>7. Sum(f, C) = Sum(f, R) + f[i] /\ Sum(g, C) = Sum(g, R) + g[i]
      <4>1. \A c \in C : f[c] \in Nat /\ g[c] \in Nat
        BY <3>4 DEF C
      <4>2. QED
        BY <3>0, <3>1, <4>1, SumRemove
    <3>8. Sum(f, R) \in Nat /\ Sum(f, R) = Sum(g, R)
      <4>1. \A c \in R : f[c] \in Nat
        BY <3>4 DEF C
      <4> HIDE DEF R
      <4>2. QED
        BY <3>1, <3>2, <4>1, SumRemove, SumAgree
    <3> HIDE DEF R
    <3>9. QED
      BY <3>3, <3>5, <3>6, <3>7, <3>8
  <2>8. Runs(now) = Runs(lib)
    <3>1. DOMAIN now.tmpl = DOMAIN lib.tmpl
      BY <2>3
    <3>2. \A t \in DOMAIN lib.tmpl : now.tmpl[t].hits = lib.tmpl[t].hits
      <4>1. \A t \in DOMAIN lib.tmpl : lib.tmpl[t] \in TemplateType
        BY LibHas
      <4>2. QED
        BY <2>3, <4>1 DEF TemplateType
    <3>3. RunsOf(now) = RunsOf(lib)
      BY <3>1, <3>2 DEF RunsOf
    <3>4. QED
      BY <2>1, <3>1, <3>3, RunsAre DEF Runs
  <2>9. ASSUME k # i PROVE Names(lib) \subseteq Names(now)
    <3>0. i \in C
      BY <2>2, <2>9
    <3> SUFFICES ASSUME NEW n \in Names(lib) PROVE n \in Names(now)
      OBVIOUS
    <3>1. \A c \in C : now.comp[c] = IF c = i THEN folded ELSE lib.comp[c]
      BY <2>6
    <3>2. DOMAIN now.comp = C /\ now.comp[i] = folded
      BY <3>0, <2>6
    <3>3. CASE n \in S
      <4>1. n \in C \/ n \in folded.aliases
        BY <2>4, <3>3
      <4>2. QED
        BY <3>0, <3>2, <4>1 DEF Names
    <3>4. ASSUME NEW c \in S, n \in lib.comp[c].aliases PROVE n \in Names(now)
      <4>1. n \in folded.aliases \/ (c \in C /\ n \in now.comp[c].aliases)
        BY <2>4, <3>1, <3>4
      <4>2. QED
        BY <3>0, <3>2, <4>1 DEF Names
    <3>5. QED
      BY <3>3, <3>4 DEF Names
  <2>10. QED
    BY <2>7, <2>8, <2>9 DEF Folds, now, k, i
<1>3. QED
  BY <1>1, <1>2

\* The base of a generalization is one of its templates.
LEMMA BaseIn ==
  ASSUME NEW lib, NEW D, NEW tasks \in Seq(D), tasks # <<>>,
         \A t \in D : lib.tmpl[t].hits \in Nat
  PROVE  Base(lib, tasks) \in D
<1> DEFINE hits == [i \in DOMAIN tasks |-> lib.tmpl[tasks[i]].hits]
           Has(n) == \E i \in 1 .. n + 1 : \A j \in 1 .. n + 1 : hits[j] <= hits[i]
           N == {n \in Nat : n + 1 <= Len(tasks) => Has(n)}
           best == {i \in DOMAIN tasks :
                     \A j \in DOMAIN tasks : lib.tmpl[tasks[j]].hits <= lib.tmpl[tasks[i]].hits}
<1>1. /\ DOMAIN tasks = 1 .. Len(tasks) /\ Len(tasks) \in Nat /\ Len(tasks) >= 1
      /\ \A i \in 1 .. Len(tasks) : tasks[i] \in D
  OBVIOUS
<1>2. \A i \in 1 .. Len(tasks) : hits[i] \in Nat /\ hits[i] = lib.tmpl[tasks[i]].hits
  BY <1>1
<1> HIDE DEF hits
<1>3. 0 \in N
  <2>1. 1 .. 0 + 1 = {1}
    OBVIOUS
  <2>2. QED
    BY <1>1, <1>2, <2>1
<1>4. ASSUME NEW n \in N PROVE n + 1 \in N
  <2> SUFFICES ASSUME n + 2 <= Len(tasks) PROVE Has(n + 1)
    <3>1. (n + 1) + 1 = n + 2 /\ n + 1 \in Nat
      OBVIOUS
    <3> HIDE DEF Has
    <3>2. QED
      BY <3>1
  <2>1. n \in Nat /\ Has(n)
    <3>1. n \in Nat /\ (n + 1 <= Len(tasks) => Has(n))
      OBVIOUS
    <3> HIDE DEF N, Has
    <3>2. QED
      BY <1>1, <3>1
  <2>2. PICK i \in 1 .. n + 1 : \A j \in 1 .. n + 1 : hits[j] <= hits[i]
    BY <2>1
  <2> HIDE DEF N
  <2>3. /\ i \in 1 .. n + 2 /\ n + 2 \in 1 .. n + 2
        /\ \A j \in 1 .. n + 2 : hits[j] \in Nat /\ (j # n + 2 => j \in 1 .. n + 1)
    BY <1>1, <1>2, <2>1
  <2>4. CASE hits[n + 2] <= hits[i]
    <3>1. \A j \in 1 .. n + 2 : hits[j] <= hits[i]
      BY <2>2, <2>3, <2>4
    <3>2. QED
      BY <2>1, <2>3, <3>1
  <2>5. CASE hits[i] <= hits[n + 2]
    <3>1. \A j \in 1 .. n + 2 : hits[j] <= hits[n + 2]
      BY <2>2, <2>3, <2>5
    <3>2. QED
      BY <2>1, <2>3, <3>1
  <2>6. QED
    BY <2>3, <2>4, <2>5
<1>5. Len(tasks) - 1 \in N
  <2> HIDE DEF N
  <2>1. N \in SUBSET Nat
    BY DEF N
  <2>2. N = Nat
    BY <1>3, <1>4, <2>1, SetInduction
  <2>3. QED
    BY <1>1, <2>2
<1>6. best # {}
  <2>1. PICK i \in 1 .. Len(tasks) : \A j \in 1 .. Len(tasks) : hits[j] <= hits[i]
    BY <1>1, <1>5
  <2>2. i \in best
    BY <1>1, <1>2, <2>1
  <2>3. QED
    BY <2>2
<1>7. Min(best) \in best
  <2>1. best \in SUBSET Nat
    BY <1>1
  <2> HIDE DEF best
  <2>2. QED
    BY <1>6, <2>1, LeastOf
<1>8. Base(lib, tasks) = tasks[Min(best)] /\ Min(best) \in DOMAIN tasks
  BY <1>7 DEF Base
<1> HIDE DEF best
<1>9. QED
  BY <1>1, <1>8

\* What a generalization makes of the templates.
Generalizes(lib, general) ==
  /\ general \in Generals /\ general.tasks # <<>>
  /\ ToSet(general.tasks) \subseteq DOMAIN lib.tmpl

LEMMA KeptIn ==
  ASSUME NEW G, NEW lib \in Libs(G), NEW general, Generalizes(lib, general)
  PROVE  /\ KeptTask(lib, general) \in Tasks
         /\ general.tasks \in Seq(DOMAIN lib.tmpl)
         /\ Others(lib, general) \in SUBSET DOMAIN lib.tmpl
<1> DEFINE D == DOMAIN lib.tmpl
           tasks == general.tasks
<1>1. general \in [tasks : Seq(Tasks), name : Tasks \cup {BaseName}] /\ tasks # <<>>
      /\ ToSet(tasks) \subseteq D
  BY DEF Generalizes, Generals
<1>2. tasks \in Seq(Tasks) /\ general.name \in Tasks \cup {BaseName}
  BY <1>1
<1> HIDE DEF tasks
<1>3. tasks \in Seq(D)
  <2>1. tasks \in Seq(ToSet(tasks))
    BY <1>2, SetOfSeq
  <2> HIDE DEF D
  <2>2. QED
    BY <1>1, <2>1, SeqWider
<1>4. D \subseteq Tasks /\ \A t \in D : lib.tmpl[t].hits \in Nat
  BY LibHas DEF Parts, TemplateType
<1>5. Base(lib, tasks) \in D
  BY <1>1, <1>3, <1>4, BaseIn
<1>6. QED
  BY <1>1, <1>2, <1>3, <1>4, <1>5 DEF KeptTask, Others, tasks

LEMMA CollapsedKeeps ==
  ASSUME NEW G, NEW lib \in Libs(G), NEW general, Generalizes(lib, general), G \subseteq Ids
  PROVE  Collapsed(lib, general) \in Libs(G) /\ Folds(lib, Collapsed(lib, general), TRUE)
<1> DEFINE now    == Collapsed(lib, general)
           kept   == KeptTask(lib, general)
           others == Others(lib, general)
           there  == kept \in DOMAIN lib.tmpl
           steps  == StepsOf(lib, general.tasks)
           ids    == Joined(IF there THEN lib.tmpl[kept].ids ELSE steps, steps)
           before == IF there THEN lib.tmpl[kept].hits ELSE 0
           new    == [ids |-> ids, hits |-> before + TmplHits(lib, others)]
           tmpl   == With(lib.tmpl, kept, new)
           less   == Restrict(tmpl, DOMAIN tmpl \ others)
           C == DOMAIN lib.comp
           E == C \cup G
           D == DOMAIN lib.tmpl
           T == (D \cup {kept}) \ others
           R == T \ {kept}
           f == RunsOf(lib)
           g == RunsOf(now)
<1>1. now = [lib EXCEPT !.tmpl = less]
  BY DEF Collapsed
<1>2. now = [comp |-> lib.comp, tmpl |-> less]
  <2>1. lib = [comp |-> lib.comp, tmpl |-> lib.tmpl]
    BY LibHas
  <2> HIDE DEF now, less
  <2>2. QED
    BY <1>1, <2>1
<1>3. kept \in Tasks /\ general.tasks \in Seq(D) /\ others \in SUBSET D /\ kept \notin others
  BY KeptIn DEF Others
<1>4. C \in Parts(Ids) /\ D \in Parts(Tasks) /\ \A t \in D :
        /\ lib.tmpl[t] \in TemplateType /\ lib.tmpl[t].ids \in Seq(E)
        /\ f[t] \in Nat /\ f[t] = lib.tmpl[t].hits
  BY LibHas, Counts DEF RunsOf
<1> HIDE DEF now, kept, others, f, g, C, D
<1>4a. E \subseteq Ids /\ E = C \cup G
  BY <1>4 DEF Parts
<1> HIDE DEF E
<1>5. steps \in Seq(E)
  <2>1. <<>> \in Seq(E) /\ \A x \in Seq(E), y \in D : Joined(x, lib.tmpl[y].ids) \in Seq(E)
    BY <1>4, JoinedIn
  <2>2. QED
    BY <1>3, <2>1, StepsKeep
<1> HIDE DEF steps
<1>6. ids \in Seq(E)
  <2>1. (IF there THEN lib.tmpl[kept].ids ELSE steps) \in Seq(E)
    BY <1>4, <1>5 DEF D
  <2>2. QED
    BY <1>5, <2>1, JoinedIn
<1> HIDE DEF ids
<1>7. /\ IsFiniteSet(D) /\ IsFiniteSet(others) /\ IsFiniteSet(D \ others)
      /\ IsFiniteSet(R) /\ IsFiniteSet(T) /\ T \in Parts(Tasks)
  <2>1. D \cup {kept} \in Parts(Tasks)
    BY <1>3, <1>4, PartsGrow
  <2>2. T \in Parts(Tasks)
    BY <2>1, PartsGrow
  <2>3. IsFiniteSet(D) /\ IsFiniteSet(T)
    BY <1>4, <2>2 DEF Parts
  <2>4. QED
    BY <1>3, <2>2, <2>3, FS_Subset
<1>8. TmplHits(lib, others) = Sum(f, others) /\ Sum(f, others) \in Nat
  <2>1. TmplHits(lib, others) = Sum(f, others)
    BY <1>3, RunsAre DEF D, f
  <2>2. \A x \in others : f[x] \in Nat
    BY <1>3, <1>4
  <2>3. QED
    BY <1>7, <2>1, <2>2, SumRemove
<1>9. before \in Nat /\ (there => before = f[kept])
  BY <1>4 DEF D
<1> HIDE DEF before
<1>10. new \in TemplateType
  <2>1. ids \in Seq(Ids)
    BY <1>4a, <1>6, SeqWider
  <2>2. QED
    BY <1>8, <1>9, <2>1 DEF TemplateType
<1>11. new.ids = ids /\ new.hits = before + Sum(f, others)
  BY <1>8
<1> HIDE DEF new
<1>12. less = [t \in T |-> IF t = kept THEN new ELSE lib.tmpl[t]]
  BY DEF Restrict, With, D
<1> HIDE DEF tmpl, less
<1>13. ASSUME NEW t \in T
       PROVE  less[t] \in TemplateType /\ less[t].ids \in Seq(E)
  <2>1. CASE t = kept
    BY <1>6, <1>10, <1>11, <1>12, <2>1
  <2>2. CASE t # kept
    BY <1>4, <1>12, <2>2
  <2>3. QED
    BY <2>1, <2>2
<1>14. less \in [T -> TemplateType]
  BY <1>12, <1>13
<1>15. now \in Libs(G)
  <2>1. lib.comp \in [C -> ComponentType]
    BY LibHas DEF C
  <2> HIDE DEF T
  <2>2. QED
    BY <1>2, <1>4, <1>4a, <1>7, <1>13, <1>14, <2>1, LibMade
<1>16. now.comp = lib.comp /\ now.tmpl = less
  BY <1>2
<1>17. Uses(now) = Uses(lib) /\ Names(lib) \subseteq Names(now)
  <2>1. UsesOf(now) = UsesOf(lib)
    BY <1>16 DEF UsesOf
  <2>2. QED
    BY <1>15, <1>16, <2>1, UsesAre DEF Names
<1>18. Runs(now) = Sum(g, T) /\ Runs(lib) = Sum(f, D)
  BY <1>12, <1>15, <1>16, RunsAre DEF Runs, D, f, g
<1>19. \A t \in T : g[t] \in Nat /\ g[t] = IF t = kept THEN before + Sum(f, others) ELSE f[t]
  <2>1. \A t \in T : g[t] = less[t].hits
    BY <1>12, <1>16 DEF g, RunsOf
  <2>2. \A t \in T : g[t] \in Nat
    BY <1>13, <2>1 DEF TemplateType
  <2>3. QED
    BY <1>4, <1>11, <1>12, <2>1, <2>2
<1>20. Sum(g, T) = Sum(f, R) + (before + Sum(f, others)) /\ Sum(f, R) \in Nat
  <2>1. kept \in T /\ R \subseteq T /\ \A t \in R : g[t] = f[t] /\ f[t] \in Nat
    BY <1>3, <1>4, <1>19
  <2> HIDE DEF T
  <2>2. Sum(g, T) = Sum(g, R) + g[kept]
    BY <1>7, <1>19, <2>1, SumRemove
  <2> HIDE DEF R
  <2>3. Sum(f, R) = Sum(g, R) /\ Sum(f, R) \in Nat
    BY <1>7, <2>1, SumAgree, SumRemove
  <2>4. QED
    BY <1>19, <2>1, <2>2, <2>3
<1>21. Sum(f, D) = Sum(f, D \ others) + Sum(f, others)
  <2> DEFINE rest == D \ others
  <2>1. rest \cap others = {} /\ rest \cup others = D /\ \A x \in rest \cup others : f[x] \in Nat
    BY <1>3, <1>4
  <2>2. IsFiniteSet(rest) /\ IsFiniteSet(others)
    BY <1>7
  <2> HIDE DEF rest
  <2>3. Sum(f, rest \cup others) = Sum(f, rest) + Sum(f, others)
    BY <2>1, <2>2, SumSplit
  <2>4. QED
    BY <2>1, <2>3 DEF rest
<1>22. Sum(f, D \ others) = Sum(f, R) + before
  <2> DEFINE rest == D \ others
  <2>1. CASE there
    <3>1. kept \in rest /\ rest \ {kept} = R /\ \A x \in rest : f[x] \in Nat
      BY <1>3, <1>4, <2>1 DEF D
    <3>2. IsFiniteSet(rest)
      BY <1>7
    <3> HIDE DEF rest, R
    <3>3. Sum(f, rest) = Sum(f, rest \ {kept}) + f[kept]
      BY <3>1, <3>2, SumRemove
    <3>4. QED
      BY <1>9, <2>1, <3>1, <3>3 DEF rest
  <2>2. CASE ~there
    <3>1. rest = R /\ before = 0
      BY <1>3, <2>2 DEF D, before
    <3>2. Sum(f, R) \in Nat
      BY <1>20
    <3> HIDE DEF R, rest
    <3>3. Sum(f, rest) = Sum(f, R) + before
      BY <3>1, <3>2
    <3>4. QED
      BY <3>3 DEF rest
  <2>3. QED
    BY <2>1, <2>2
<1>23. Runs(now) = Runs(lib)
  <2> HIDE DEF R, T
  <2>1. QED
    BY <1>8, <1>9, <1>18, <1>20, <1>21, <1>22
<1>24. QED
  BY <1>15, <1>17, <1>23 DEF Folds, now

\* What can come of reviewing a library: nothing is counted anew or lost.
Reviewed(lib, G, all) ==
  {state \in [lib : Libs(G), raised : BOOLEAN] : Folds(lib, state.lib, all)}

LEMMA GeneralizeKeeps ==
  ASSUME NEW G \in SUBSET Ids, NEW lib \in Libs(G), NEW all \in BOOLEAN,
         NEW state \in Reviewed(lib, G, all), NEW general \in Generals
  PROVE  Generalize(state, general) \in Reviewed(lib, G, all)
<1>1. /\ state = [lib |-> state.lib, raised |-> state.raised]
      /\ state.lib \in Libs(G) /\ state.raised \in BOOLEAN /\ Folds(lib, state.lib, all)
  BY DEF Reviewed
<1>2. CASE Generalize(state, general) = state
  BY <1>2
<1>3. CASE Generalize(state, general) = [state EXCEPT !.raised = TRUE]
  <2>1. Generalize(state, general) = [lib |-> state.lib, raised |-> TRUE]
    BY <1>1, <1>3
  <2>2. QED
    BY <1>1, <2>1 DEF Reviewed
<1>4. CASE /\ Generalize(state, general) = [state EXCEPT !.lib = Collapsed(state.lib, general)]
           /\ Generalizes(state.lib, general)
  <2> DEFINE now == Collapsed(state.lib, general)
  <2>1. now \in Libs(G) /\ Folds(state.lib, now, TRUE)
    BY <1>1, <1>4, CollapsedKeeps
  <2> HIDE DEF now
  <2>2. Folds(lib, now, all)
    BY <1>1, <2>1 DEF Folds
  <2>3. Generalize(state, general) = [lib |-> now, raised |-> state.raised]
    BY <1>1, <1>4 DEF now
  <2>4. QED
    BY <1>1, <2>1, <2>2, <2>3 DEF Reviewed
<1>5. QED
  BY <1>2, <1>3, <1>4, Zenon DEF Generalize, Generalizes

\* What a review merges into itself is named by its merges.
LEMMA SelfMerges ==
  ASSUME NEW review \in Reviews
  PROVE  /\ SelfMerged(review) \subseteq Ids
         /\ review.merges \in Seq({m \in Merges : m.keep = m.into => m.keep \in SelfMerged(review)})
<1>1. review.merges \in Seq(Merges)
  BY LibraryAssumption
<1> DEFINE seq == review.merges
           own == {m \in ToSet(seq) : m.keep = m.into}
<1>2. ToSet(seq) \subseteq Merges /\ seq \in Seq(ToSet(seq))
  BY <1>1, SetOfSeq DEF Parts
<1>3. SelfMerged(review) = {m.keep : m \in own}
  BY DEF SelfMerged
<1> HIDE DEF seq
<1>4. ToSet(seq) \subseteq {m \in Merges : m.keep = m.into => m.keep \in SelfMerged(review)}
  BY <1>2, <1>3
<1>5. SelfMerged(review) \subseteq Ids
  BY <1>2, <1>3 DEF Merges
<1>6. QED
  BY <1>2, <1>4, <1>5, SeqWider DEF seq

LEMMA CuratedKeeps ==
  ASSUME NEW G \in SUBSET Ids, NEW lib \in Libs(G), NEW review \in Reviews,
         SelfMerged(review) \subseteq G
  PROVE  Curated(lib, review) \in Reviewed(lib, G, SelfMerged(review) = {})
<1> DEFINE all == SelfMerged(review) = {}
           Alike == {now \in Libs(G) : Folds(lib, now, all)}
           Named == {m \in Merges : m.keep = m.into => m.keep \in SelfMerged(review)}
           merged == Merged(lib, review.merges)
<1>1. review.merges \in Seq(Named) /\ review.generals \in Seq(Generals) /\ all \in BOOLEAN
  BY LibraryAssumption, SelfMerges
<1>2. merged \in Alike
  <2>1. lib \in Alike
    BY DEF Folds
  <2>2. ASSUME NEW now \in Alike, NEW merge \in Named PROVE Merge(now, merge) \in Alike
    <3>1. /\ merge \in [keep : Ids, into : Ids]
          /\ merge.keep = merge.into => merge.keep \in G
          /\ all => merge.keep # merge.into
      BY DEF Merges
    <3>2. /\ Merge(now, merge) \in Libs(G)
          /\ Folds(now, Merge(now, merge), merge.keep # merge.into)
      BY <3>1, MergeKeeps, MergeFolds
    <3>3. Folds(lib, Merge(now, merge), all)
      BY <3>1, <3>2 DEF Folds
    <3>4. QED
      BY <3>2, <3>3
  <2> HIDE DEF Alike, Named
  <2>3. QED
    BY <1>1, <2>1, <2>2, MergedKeeps
<1> HIDE DEF merged, all
<1>3. [lib |-> merged, raised |-> FALSE] \in Reviewed(lib, G, all)
  BY <1>2 DEF Reviewed
<1>4. \A x \in Reviewed(lib, G, all), y \in Generals : Generalize(x, y) \in Reviewed(lib, G, all)
  BY <1>1, GeneralizeKeeps
<1>5. Curated(lib, review) \in Reviewed(lib, G, all)
  BY <1>1, <1>3, <1>4, GeneralizedKeeps DEF Curated, merged
<1>6. QED
  BY <1>5 DEF all

-----------------------------------------------------------------------------
(* The memory file and the commands. *)

Ops ==
  {LearnOp(recording) : recording \in Recordings}
    \cup {AliasOp(word) : word \in Ids \X (Ids \cup Nicknames)}
    \cup {CurateOp(review) : review \in Reviews}

\* Sessions whose copy lacks at most what is in G.
Sessions(G) ==
  [pc : {"idle", "ready", "save", "write"}, lib : Libs(G), todo : Seq(Ops),
   stale : BOOLEAN, mixed : BOOLEAN, gone : SUBSET G]

\* What may be a process's session, next to the library last written.
Sound(s, written, G) ==
  /\ s \in Sessions(G) /\ (s.pc = "idle" => s = NoSession)
  /\ s.pc # "idle" /\ ~s.stale /\ s.gone = {} => Grown(written, s.lib)

\* A readable file holds what was last written in full; a command whose file
\* nobody else wrote since it read, and that merged nothing into itself, has
\* lost nothing of it.
FileInv ==
  /\ disk \in [readable : BOOLEAN, lib : Libs(swallowed)] /\ whole \in Libs(swallowed)
  /\ disk.readable => disk.lib = whole
  /\ swallowed \subseteq Ids
  /\ session \in [Processes -> Sessions(swallowed)]
  /\ \A p \in Processes : Sound(session[p], whole, swallowed)

\* A replay that feeds the memory has it open.
Feeding == run.remember /\ run.pc \in Within \cup {"next"} => Working(Runner)

LibInv == FileInv /\ Feeding

LEMMA NoSessionSound == \A written, G : Sound(NoSession, written, G)
<1>1. ASSUME NEW G PROVE NoSession \in Sessions(G)
  <2>1. <<>> \in Seq(Ops) /\ EmptyLibrary \in Libs(G)
    BY EmptyIsLib
  <2>2. QED
    BY <2>1 DEF NoSession, Sessions
<1>2. NoSession.pc = "idle"
  BY DEF NoSession
<1>3. QED
  BY <1>1, <1>2 DEF Sound

LEMMA SoundWider ==
  ASSUME NEW G, NEW H, G \subseteq H, NEW s, NEW written, Sound(s, written, G)
  PROVE  Sound(s, written, H)
<1>1. s.lib \in Libs(G)
  BY DEF Sound, Sessions
<1>2. s.lib \in Libs(H)
  BY <1>1, LibWider
<1>3. s \in Sessions(H)
  BY <1>2 DEF Sound, Sessions
<1>4. QED
  BY <1>3 DEF Sound

LEMMA TodosTyped == \A todo \in Todos : todo \in Seq(Ops)
<1>1. ASSUME NEW recording \in Recordings PROVE CompileTodo(recording) \in Seq(Ops)
  BY DEF CompileTodo, Ops
<1>2. ASSUME NEW word \in AliasWords PROVE AliasTodo(word) \in Seq(Ops)
  BY LibraryAssumption DEF AliasTodo, Ops
<1>3. ASSUME NEW review \in Reviews PROVE RefineTodo(review) \in Seq(Ops)
  <2> DEFINE words == [i \in DOMAIN review.aliases |-> AliasOp(review.aliases[i])]
  <2>1. review.aliases \in Seq(Ids \X (Ids \cup Nicknames))
    BY LibraryAssumption
  <2>2. /\ DOMAIN review.aliases = 1 .. Len(review.aliases) /\ Len(review.aliases) \in Nat
        /\ \A i \in DOMAIN review.aliases : review.aliases[i] \in Ids \X (Ids \cup Nicknames)
    BY <2>1
  <2>3. words \in Seq(Ops)
    <3>1. \A i \in DOMAIN review.aliases : AliasOp(review.aliases[i]) \in Ops
      BY <2>2 DEF Ops
    <3>2. QED
      BY <2>2, <3>1
  <2>4. CurateOp(review) \in Ops
    BY DEF Ops
  <2> HIDE DEF words
  <2>5. words \o <<CurateOp(review)>> \in Seq(Ops)
    BY <2>3, <2>4
  <2>6. QED
    BY <2>5 DEF RefineTodo, words
<1>4. QED
  BY <1>1, <1>2, <1>3 DEF Todos

LEMMA FoldsGrow ==
  ASSUME NEW G, NEW lib \in Libs(G), NEW now \in Libs(G), Folds(lib, now, TRUE)
  PROVE  Grown(lib, now)
<1>1. Grown(lib, lib)
  BY GrownSame
<1>2. QED
  BY <1>1 DEF Folds, Grown

LEMMA SwallowedIds == \A op \in Ops : Swallows(op) \subseteq Ids
<1>1. ASSUME NEW op \in Ops PROVE Swallows(op) \subseteq Ids
  <2>1. CASE op.op # "curate"
    BY <2>1 DEF Swallows
  <2>2. ASSUME NEW review \in Reviews, op = CurateOp(review)
        PROVE  Swallows(op) \subseteq Ids
    <3>1. Swallows(op) = SelfMerged(review)
      BY <2>2 DEF Swallows, CurateOp
    <3>2. QED
      BY <3>1, SelfMerges
  <2>3. op.op = "curate" => \E review \in Reviews : op = CurateOp(review)
    BY DEF Ops, LearnOp, AliasOp
  <2>4. QED
    BY <2>1, <2>2, <2>3
<1>2. QED
  BY <1>1

\* No operation makes less of its library, but a review that merges a component
\* into itself.
LEMMA EffectKeeps ==
  ASSUME NEW G \in SUBSET Ids, NEW lib \in Libs(G), NEW op \in Ops, Swallows(op) \subseteq G
  PROVE  /\ Effect(lib, op).lib \in Libs(G)
         /\ Swallows(op) = {} => Grown(lib, Effect(lib, op).lib)
         /\ op.op = "curate" => Folds(lib, Effect(lib, op).lib, Swallows(op) = {})
<1>1. ASSUME NEW recording \in Recordings, op = LearnOp(recording)
      PROVE  /\ Effect(lib, op).lib \in Libs(G) /\ Grown(lib, Effect(lib, op).lib)
             /\ op.op # "curate"
  <2>1. op.op = "learn" /\ op.recording = recording
    BY <1>1 DEF LearnOp
  <2>2. Effect(lib, op).lib = Learn(lib, recording)
    BY <2>1 DEF Effect
  <2>3. recording \in [task : Tasks, steps : Seq(Ids)]
    BY LibraryAssumption
  <2>4. QED
    BY <2>1, <2>2, <2>3, LearnKeeps, LearnGrows
<1>2. ASSUME NEW word \in Ids \X (Ids \cup Nicknames), op = AliasOp(word)
      PROVE  /\ Effect(lib, op).lib \in Libs(G) /\ Grown(lib, Effect(lib, op).lib)
             /\ op.op # "curate"
  <2>1. op.op = "alias" /\ op.word = word
    BY <1>2 DEF AliasOp
  <2>2. Effect(lib, op).lib = Aliased(lib, word[1], word[2])
    BY <2>1 DEF Effect
  <2>3. word[2] \in Ids \cup Nicknames
    OBVIOUS
  <2>4. QED
    BY <2>1, <2>2, <2>3, AliasedKeeps, AliasedGrows
<1>3. ASSUME NEW review \in Reviews, op = CurateOp(review)
      PROVE  /\ Effect(lib, op).lib \in Libs(G)
             /\ Folds(lib, Effect(lib, op).lib, Swallows(op) = {})
             /\ Swallows(op) = {} => Grown(lib, Effect(lib, op).lib)
  <2>1. op.op = "curate" /\ op.review = review /\ Swallows(op) = SelfMerged(review)
    BY <1>3 DEF CurateOp, Swallows
  <2>2. Effect(lib, op).lib = Curated(lib, review).lib
    BY <2>1 DEF Effect
  <2>3. Curated(lib, review) \in Reviewed(lib, G, SelfMerged(review) = {})
    BY <2>1, CuratedKeeps
  <2>4. /\ Effect(lib, op).lib \in Libs(G)
        /\ Folds(lib, Effect(lib, op).lib, SelfMerged(review) = {})
    BY <2>2, <2>3 DEF Reviewed
  <2>5. SelfMerged(review) = {} => Folds(lib, Effect(lib, op).lib, TRUE)
    BY <2>4 DEF Folds
  <2>6. QED
    BY <2>1, <2>4, <2>5, FoldsGrow
<1>4. QED
  BY <1>1, <1>2, <1>3 DEF Ops

-----------------------------------------------------------------------------

\* One session changes, the file does not.
LEMMA OneSession ==
  ASSUME FileInv, NEW p \in Processes, NEW s, Sound(s, whole, swallowed'),
         session' = [session EXCEPT ![p] = s], UNCHANGED <<disk, whole>>,
         swallowed \subseteq swallowed', swallowed' \subseteq Ids
  PROVE  FileInv'
<1>1. \A q \in Processes : session'[q] = IF q = p THEN s ELSE session[q]
  BY DEF FileInv
<1>2. \A q \in Processes : Sound(session'[q], whole, swallowed')
  <2>1. \A q \in Processes : Sound(session[q], whole, swallowed')
    BY SoundWider DEF FileInv
  <2>2. QED
    BY <1>1, <2>1
<1>3. session' \in [Processes -> Sessions(swallowed')]
  <2>1. session' = [q \in Processes |-> session'[q]]
    BY DEF FileInv
  <2>2. \A q \in Processes : session'[q] \in Sessions(swallowed')
    BY <1>2 DEF Sound
  <2>3. QED
    BY <2>1, <2>2
<1>4. disk' \in [readable : BOOLEAN, lib : Libs(swallowed')] /\ whole' \in Libs(swallowed')
  <2>1. disk.lib \in Libs(swallowed) /\ whole \in Libs(swallowed)
    BY DEF FileInv
  <2>2. disk.lib \in Libs(swallowed') /\ whole \in Libs(swallowed')
    BY <2>1, LibWider
  <2>3. QED
    BY <2>2 DEF FileInv
<1>5. disk'.readable => disk'.lib = whole'
  BY DEF FileInv
<1>6. QED
  BY <1>2, <1>3, <1>4, <1>5 DEF FileInv

LEMMA Opens ==
  ASSUME FileInv, NEW p \in Processes, NEW todo \in Seq(Ops), Open(p, todo)
  PROVE  FileInv' /\ (Opened.readable => Working(p)')
<1> DEFINE opened == [NoSession EXCEPT !.pc = "ready", !.lib = Opened.lib, !.todo = todo]
           s == IF Opened.readable THEN opened ELSE NoSession
<1>1. /\ session' = [session EXCEPT ![p] = s] /\ UNCHANGED <<disk, whole, swallowed>>
  BY DEF Open
<1>2. Opened.readable \in BOOLEAN /\ Opened.lib \in Libs(swallowed) /\ (Opened.readable => Opened.lib = whole)
  BY DEF FileInv, Opened
<1>3. CASE Opened.readable
  <2>1. /\ opened \in Sessions(swallowed) /\ opened.pc = "ready" /\ opened.lib = whole
        /\ opened.stale = NoSession.stale
    <3>1. NoSession \in Sessions(swallowed)
      BY NoSessionSound DEF Sound
    <3>2. QED
      BY <1>2, <1>3, <3>1 DEF Sessions
  <2>2. Grown(whole, whole) /\ whole \in Libs(swallowed)
    BY GrownSame DEF FileInv
  <2>3. Sound(opened, whole, swallowed) /\ opened.pc = "ready"
    BY <2>1, <2>2 DEF Sound
  <2> HIDE DEF opened
  <2>4. FileInv'
    BY <1>1, <1>3, <2>3, OneSession DEF FileInv
  <2>5. session'[p] = opened
    BY <1>1, <1>3 DEF FileInv
  <2>6. QED
    BY <2>3, <2>4, <2>5 DEF Working
<1>4. CASE ~Opened.readable
  BY <1>1, <1>4, NoSessionSound, OneSession DEF FileInv
<1>5. QED
  BY <1>3, <1>4

LEMMA Closes ==
  ASSUME FileInv, NEW p \in Processes, session' = [session EXCEPT ![p] = NoSession],
         UNCHANGED <<disk, whole, swallowed>>
  PROVE  FileInv'
BY NoSessionSound, OneSession DEF FileInv

LEMMA Operates ==
  ASSUME FileInv, NEW p \in Processes, Operate(p)
  PROVE  /\ FileInv'
         /\ Head(session[p].todo).op = "curate" /\ session'[p] # NoSession =>
              Folds(session[p].lib, session'[p].lib, Swallows(Head(session[p].todo)) = {})
<1> DEFINE op == Head(session[p].todo)
           e == Effect(session[p].lib, op)
           old == session[p]
           gone == old.gone \cup Swallows(op)
           on == [old EXCEPT !.lib = e.lib, !.todo = Tail(old.todo), !.gone = gone,
                             !.pc = IF e.saves THEN "save" ELSE "ready"]
           s == IF e.raises THEN NoSession ELSE on
           G == swallowed \cup gone
<1>1. /\ old \in Sessions(swallowed) /\ Sound(old, whole, swallowed)
      /\ old.pc = "ready" /\ old.todo # <<>>
  BY DEF FileInv, Operate, At
<1>2. /\ session' = [session EXCEPT ![p] = s] /\ UNCHANGED <<disk, whole>>
      /\ swallowed' = IF e.raises THEN swallowed ELSE G
  BY DEF Operate
<1>3. old.lib \in Libs(swallowed) /\ old.todo \in Seq(Ops) /\ old.gone \subseteq swallowed
  BY <1>1 DEF Sessions
<1>4. op \in Ops /\ Tail(old.todo) \in Seq(Ops)
  BY <1>1, <1>3
<1> HIDE DEF old, op
<1>5. G \in SUBSET Ids /\ swallowed \in SUBSET G /\ Swallows(op) \subseteq G
  BY <1>3, <1>4, SwallowedIds DEF FileInv
<1>6. old.lib \in Libs(G) /\ Sound(old, whole, G) /\ old \in Sessions(G) /\ whole \in Libs(G)
  <2>1. whole \in Libs(swallowed) /\ swallowed \subseteq G
    BY <1>5 DEF FileInv
  <2> HIDE DEF G
  <2>2. old.lib \in Libs(G) /\ whole \in Libs(G)
    BY <1>3, <2>1, LibWider
  <2>3. Sound(old, whole, G)
    BY <1>1, <2>1, SoundWider
  <2>4. QED
    BY <2>2, <2>3 DEF Sound
<1> HIDE DEF G
<1>7. /\ e.lib \in Libs(G) /\ (Swallows(op) = {} => Grown(old.lib, e.lib))
      /\ op.op = "curate" => Folds(old.lib, e.lib, Swallows(op) = {})
  BY <1>4, <1>5, <1>6, EffectKeeps DEF old
<1> HIDE DEF e
<1>8. gone \subseteq G
  BY DEF G
<1> HIDE DEF gone
<1>9. /\ on \in Sessions(G) /\ on.lib = e.lib /\ on.pc # "idle" /\ on.stale = old.stale
      /\ on.gone = gone
  BY <1>4, <1>6, <1>7, <1>8 DEF Sessions
<1> HIDE DEF on
<1>10. ~old.stale /\ gone = {} => Grown(whole, e.lib)
  <2>1. gone = {} => old.gone = {} /\ Swallows(op) = {}
    BY DEF gone
  <2>2. ~old.stale /\ old.gone = {} => Grown(whole, old.lib)
    BY <1>1 DEF Sound
  <2>3. QED
    BY <1>6, <1>7, <2>1, <2>2, GrownOn
<1>11. Sound(on, whole, G)
  BY <1>9, <1>10 DEF Sound
<1>12. session'[p] = s
  BY <1>2 DEF FileInv
<1>13. CASE e.raises
  <2>1. s = NoSession /\ swallowed' = swallowed
    BY <1>2, <1>13
  <2>2. FileInv'
    BY <1>2, <2>1, NoSessionSound, OneSession DEF FileInv
  <2>3. QED
    BY <1>12, <2>1, <2>2
<1>14. CASE ~e.raises
  <2>1. s = on /\ swallowed' = G
    BY <1>2, <1>14
  <2> HIDE DEF s
  <2>2. FileInv'
    BY <1>2, <1>5, <1>11, <2>1, OneSession
  <2>3. op.op = "curate" => Folds(old.lib, s.lib, Swallows(op) = {})
    BY <1>7, <1>9, <2>1
  <2>4. QED
    BY <1>12, <2>2, <2>3 DEF op, old
<1>15. QED
  BY <1>13, <1>14

\* Who else works on the file when it is written works on what is no longer in
\* it.
LEMMA Saves ==
  ASSUME FileInv, NEW p \in Processes, Truncate(p) \/ WriteOut(p)
  PROVE  /\ FileInv' /\ \A q \in Processes : Working(q) => Working(q)'
         /\ WriteOut(p) /\ ~session[p].stale /\ session[p].gone = {} /\ disk'.readable => Grown(whole, disk'.lib)
<1>1. /\ session \in [Processes -> Sessions(swallowed)]
      /\ \A q \in Processes : /\ Sound(session[q], whole, swallowed)
                               /\ session[q] \in Sessions(swallowed)
      /\ whole \in Libs(swallowed) /\ session[p].lib \in Libs(swallowed)
  BY DEF FileInv, Sessions
<1>2. PICK own \in {"write", "ready"}, mixed \in [Processes -> BOOLEAN] :
        session' = [q \in Processes |->
          IF q = p THEN [session[q] EXCEPT !.pc = own, !.mixed = mixed[q]]
          ELSE IF Working(q) THEN [session[q] EXCEPT !.stale = TRUE, !.mixed = mixed[q]]
          ELSE session[q]]
  <2>1. CASE Truncate(p)
    <3> DEFINE mixed == [q \in Processes |-> IF q = p THEN FALSE ELSE session[q].mixed]
    <3>1. mixed \in [Processes -> BOOLEAN]
      BY <1>1 DEF Sessions
    <3>2. session' = [q \in Processes |->
            IF q = p THEN [session[q] EXCEPT !.pc = "write", !.mixed = mixed[q]]
            ELSE IF Working(q) THEN [session[q] EXCEPT !.stale = TRUE, !.mixed = mixed[q]]
            ELSE session[q]]
      <4>1. \A q \in Processes :
              [session[q] EXCEPT !.stale = TRUE]
                = [session[q] EXCEPT !.stale = TRUE, !.mixed = session[q].mixed]
        BY <1>1 DEF Sessions
      <4>2. QED
        BY <2>1, <4>1 DEF Truncate
    <3> HIDE DEF mixed
    <3>3. QED
      BY <3>1, <3>2
  <2>2. CASE WriteOut(p)
    <3> DEFINE mixed == [q \in Processes |->
                  IF q = p THEN session[q].mixed ELSE session[q].mixed \/ At(q, "write")]
    <3>1. mixed \in [Processes -> BOOLEAN]
      BY <1>1 DEF Sessions, At
    <3>2. session' = [q \in Processes |->
            IF q = p THEN [session[q] EXCEPT !.pc = "ready", !.mixed = mixed[q]]
            ELSE IF Working(q) THEN [session[q] EXCEPT !.stale = TRUE, !.mixed = mixed[q]]
            ELSE session[q]]
      <4>1. [session[p] EXCEPT !.pc = "ready"]
              = [session[p] EXCEPT !.pc = "ready", !.mixed = session[p].mixed]
        BY <1>1 DEF Sessions
      <4>2. QED
        BY <2>2, <4>1 DEF WriteOut
    <3> HIDE DEF mixed
    <3>3. QED
      BY <3>1, <3>2
  <2>3. QED
    BY <2>1, <2>2
<1>3. /\ session[p].pc # "idle" /\ swallowed' = swallowed
      /\ disk' \in {Torn, File(session[p].lib)} /\ whole' \in {whole, session[p].lib}
      /\ disk'.readable => disk'.lib = session[p].lib /\ whole' = session[p].lib
      /\ disk' = Torn \/ whole' = session[p].lib
      /\ whole' = whole \/ whole' = session[p].lib
  <2>1. ~Torn.readable /\ File(session[p].lib).lib = session[p].lib
    BY DEF Torn, File
  <2>2. session[p].pc # "idle" /\ swallowed' = swallowed
    BY DEF Truncate, WriteOut, At
  <2>3. \/ disk' = Torn /\ whole' = whole
        \/ disk' = File(session[p].lib) /\ whole' = session[p].lib
    BY DEF Truncate, WriteOut
  <2>4. QED
    BY <2>1, <2>2, <2>3
<1>4. ASSUME NEW q \in Processes
      PROVE  /\ session'[q] \in Sessions(swallowed)
             /\ session'[q].pc = "idle" => session'[q] = NoSession
             /\ q # p /\ session'[q].pc # "idle" => session'[q].stale
             /\ session'[p].lib = session[p].lib /\ session'[p].stale = session[p].stale
             /\ session'[p].gone = session[p].gone
             /\ Working(q) => Working(q)'
  BY <1>1, <1>2, <1>3 DEF Sessions, Sound, Working
<1>5. ~session[p].stale /\ session[p].gone = {} => Grown(whole, session[p].lib)
  BY <1>1, <1>3 DEF Sound
<1>6. Sound(session'[p], whole', swallowed)
  <2>1. Grown(session[p].lib, session[p].lib)
    BY <1>1, GrownSame
  <2>2. QED
    BY <1>3, <1>4, <1>5, <2>1 DEF Sound
<1>7. \A q \in Processes : Sound(session'[q], whole', swallowed)
  BY <1>4, <1>6 DEF Sound
<1>8. session' \in [Processes -> Sessions(swallowed)]
  <2>1. \A q \in Processes : session'[q] \in Sessions(swallowed)
    BY <1>4
  <2>2. DOMAIN session' = Processes /\ session' = [q \in Processes |-> session'[q]]
    BY <1>2
  <2>3. QED
    BY <2>1, <2>2
<1>9. disk' \in [readable : BOOLEAN, lib : Libs(swallowed)] /\ whole' \in Libs(swallowed)
  <2>1. Torn \in [readable : BOOLEAN, lib : Libs(swallowed)]
    BY EmptyIsLib DEF Torn
  <2>2. File(session[p].lib) \in [readable : BOOLEAN, lib : Libs(swallowed)]
    BY <1>1 DEF File
  <2>3. QED
    BY <1>1, <1>3, <2>1, <2>2
<1>10. FileInv'
  BY <1>3, <1>7, <1>8, <1>9 DEF FileInv
<1>11. QED
  BY <1>3, <1>4, <1>5, <1>10

LEMMA InitLib == Init => LibInv
<1> SUFFICES ASSUME Init PROVE LibInv
  OBVIOUS
<1>1. swallowed = {} /\ whole \in Libs(swallowed)
  <2>1. /\ LibraryType(whole) /\ Resolves(whole)
        /\ IsFiniteSet(DOMAIN whole.comp) /\ IsFiniteSet(DOMAIN whole.tmpl)
    BY ReplayAssumption DEF Init
  <2>2. PICK C \in SUBSET Ids, T \in SUBSET Tasks :
          whole \in [comp : [C -> ComponentType], tmpl : [T -> TemplateType]]
    BY <2>1 DEF LibraryType
  <2>3. /\ whole.comp \in [C -> ComponentType] /\ whole.tmpl \in [T -> TemplateType]
        /\ whole = [comp |-> whole.comp, tmpl |-> whole.tmpl]
    BY <2>2
  <2>4. C \in Parts(Ids) /\ T \in Parts(Tasks)
    BY <2>1, <2>3 DEF Parts
  <2>5. ASSUME NEW t \in T PROVE whole.tmpl[t].ids \in Seq(C \cup swallowed)
    <3>1. whole.tmpl[t].ids \in Seq(Ids) /\ ToSet(whole.tmpl[t].ids) \subseteq C
      BY <2>1, <2>3 DEF TemplateType, Resolves
    <3>2. QED
      BY <3>1, SetOfSeq, SeqWider
  <2>6. swallowed = {}
    BY DEF Init, LibraryInit
  <2>7. QED
    BY <2>3, <2>4, <2>5, <2>6, LibMade
<1>2. disk = [readable |-> TRUE, lib |-> whole] /\ session = [p \in Processes |-> NoSession]
  BY DEF Init, LibraryInit, File
<1>3. /\ session \in [Processes -> Sessions(swallowed)]
      /\ \A p \in Processes : Sound(session[p], whole, swallowed)
  BY <1>2, NoSessionSound DEF Sound
<1>4. FileInv
  BY <1>1, <1>2, <1>3 DEF FileInv
<1>5. Feeding
  BY DEF Init, NoRun, Feeding
<1>6. QED
  BY <1>4, <1>5 DEF LibInv

\* The replay goes on without its memory.
LEMMA MemoryAside ==
  ASSUME LibInv, UNCHANGED libraryVars,
         run'.remember /\ run'.pc \in Within \cup {"next"} =>
           run.remember /\ run.pc \in Within \cup {"next"}
  PROVE  LibInv'
BY DEF LibInv, FileInv, Feeding, Working, libraryVars

LEMMA RaiseCloses == ASSUME LibInv, Raise PROVE LibInv'
<1>1. FileInv'
  BY Closes, ReplayAssumption DEF Raise, Broken, LibInv
<1>2. ~run'.remember
  BY DEF Raise, Broken, NoRun
<1>3. QED
  BY <1>1, <1>2 DEF LibInv, Feeding

LEMMA RecordKeeps == ASSUME LibInv, KeysInv, Record PROVE LibInv'
<1>0. /\ run.pc = "record" /\ UNCHANGED <<disk, whole, swallowed>>
      /\ run'.pc = "judge" /\ run'.remember = run.remember /\ Runner \in Processes
  BY ReplayAssumption DEF Record, KeysInv, RunType, RunFields
<1>1. CASE Feeds
  <2> DEFINE old == session[Runner]
             now == Used(old.lib, ThisStep.id, run.code = "ok")
             s == [old EXCEPT !.pc = "save", !.lib = now]
  <2>1. session' = [session EXCEPT ![Runner] = s]
    BY <1>1 DEF Record
  <2>2. Working(Runner)
    BY <1>0, <1>1 DEF LibInv, Feeding, Feeds, Within
  <2>3. /\ old \in Sessions(swallowed) /\ Sound(old, whole, swallowed)
        /\ old.pc # "idle" /\ whole \in Libs(swallowed)
    BY <1>0, <2>2 DEF LibInv, FileInv, Working
  <2>4. old.lib \in Libs(swallowed) /\ ThisStep.id \in Ids /\ (run.code = "ok") \in BOOLEAN
    <3>1. run.at \in DOMAIN run.steps /\ run.steps \in Seq(StepTypes)
      BY <1>0 DEF KeysInv, RunType, Within
    <3>2. ThisStep \in StepTypes
      BY <3>1 DEF ThisStep
    <3>3. ThisStep.id \in Ids
      BY <3>2 DEF StepTypes
    <3>4. old.lib \in Libs(swallowed)
      BY <2>3 DEF Sessions
    <3>5. QED
      BY <3>3, <3>4
  <2> HIDE DEF old
  <2>5. now \in Libs(swallowed) /\ Grown(old.lib, now)
    BY <2>4, UsedKeeps, UsedGrows
  <2> HIDE DEF now
  <2>6. /\ s \in Sessions(swallowed) /\ s.pc = "save" /\ s.lib = now
        /\ s.stale = old.stale /\ s.gone = old.gone
    BY <2>3, <2>5 DEF Sessions
  <2>7. ~old.stale /\ old.gone = {} => Grown(whole, now)
    BY <2>3, <2>4, <2>5, GrownOn DEF Sound
  <2> HIDE DEF s
  <2>8. Sound(s, whole, swallowed)
    BY <2>6, <2>7 DEF Sound
  <2>9. FileInv'
    BY <1>0, <2>1, <2>8, OneSession DEF LibInv, FileInv
  <2>10. session'[Runner] = s
    BY <1>0, <2>1 DEF LibInv, FileInv
  <2>11. QED
    BY <2>6, <2>9, <2>10 DEF LibInv, Feeding, Working
<1>2. CASE ~Feeds
  BY <1>0, <1>2, MemoryAside DEF Record, Within, libraryVars
<1>3. QED
  BY <1>1, <1>2

LEMMA LibStep == LibInv /\ KeysInv /\ [Next]_vars => LibInv'
<1> SUFFICES ASSUME LibInv, KeysInv, [Next]_vars PROVE LibInv'
  OBVIOUS
<1>0. /\ FileInv /\ Feeding /\ DOMAIN run = RunFields /\ Runner \in Processes
      /\ <<>> \in Seq(Ops)
  BY ReplayAssumption DEF LibInv, KeysInv, RunType
<1>1. ASSUME NEW steps \in Demonstrations, NEW remember \in BOOLEAN,
             StartReplay(steps, remember)
      PROVE  LibInv'
  <2>1. run'.remember = remember
        /\ run'.pc = IF remember /\ ~Opened.readable THEN "raised" ELSE "next"
    BY <1>1 DEF StartReplay, NoRun
  <2>2. CASE remember
    <3>1. Open(Runner, <<>>)
      BY <1>1, <2>2 DEF StartReplay
    <3>2. FileInv' /\ (Opened.readable => Working(Runner)')
      BY <1>0, <3>1, Opens
    <3>3. Feeding'
      BY <2>1, <2>2, <3>2 DEF Feeding, Within
    <3>4. QED
      BY <3>2, <3>3 DEF LibInv
  <2>3. CASE ~remember
    BY <1>1, <2>1, <2>3, MemoryAside DEF StartReplay
  <2>4. QED
    BY <2>2, <2>3
<1>2. ASSUME NEW next, Goes(next), next.remember = run.remember,
             run.pc \in Within \cup {"next"}
      PROVE  LibInv'
  BY <1>2, MemoryAside DEF Goes
<1>3. ASSUME NEW ok, Conclude(ok), run.pc \in Within \cup {"next"} PROVE LibInv'
  <2>1. run'.remember = run.remember /\ UNCHANGED libraryVars
    BY <1>3 DEF Conclude, NoRun
  <2>2. QED
    BY <1>3, <2>1, MemoryAside
<1>4. CASE Focus
  BY <1>0, <1>2, <1>4, RaiseCloses DEF Focus, RunFields
<1>5. CASE Confirm
  BY <1>0, <1>2, <1>3, <1>5 DEF Confirm, RunFields
<1>6. CASE Observe
  BY <1>0, <1>2, <1>3, <1>6, RaiseCloses DEF Observe, RunFields, Within
<1>7. ASSUME NEW controls, NEW vision, Resolve(controls, vision) PROVE LibInv'
  <2> DEFINE Found(by) == [run EXCEPT !.by = by, !.key = 1, !.keyRetries = 0]
  <2>1. \/ Raise
        \/ \E by : \/ Goes([Found(by) EXCEPT !.pc = "keys"])
                   \/ Goes([Found(by) EXCEPT !.pc = "record", !.code = "ELEMENT_NOT_FOUND"])
                   \/ Goes([Found(by) EXCEPT !.pc = "act"])
    BY <1>7, Zenon DEF Resolve
  <2>2. run.pc = "resolve"
    BY <1>7 DEF Resolve
  <2>3. \A by : /\ [Found(by) EXCEPT !.pc = "keys"].remember = run.remember
                /\ [Found(by) EXCEPT !.pc = "record", !.code = "ELEMENT_NOT_FOUND"].remember
                     = run.remember
                /\ [Found(by) EXCEPT !.pc = "act"].remember = run.remember
    BY <1>0 DEF RunFields
  <2> HIDE DEF Found
  <2>4. QED
    BY <1>2, <2>1, <2>2, <2>3, RaiseCloses DEF Within
<1>8. CASE ActOnce
  <2>1. PICK o \in Outcomes(ThisStep.commit) :
          IF o.code = "EXCEPTION" THEN Raise
          ELSE /\ run' = [run EXCEPT !.pc = "record", !.code = o.code]
               /\ acts' = IF Refused(o.code) THEN acts ELSE acts + 1
               /\ UNCHANGED <<libraryVars, outcomes, typed>>
    BY <1>8, Zenon DEF ActOnce
  <2>2. run.pc = "act"
    BY <1>8 DEF ActOnce
  <2>3. CASE o.code = "EXCEPTION"
    BY <2>1, <2>3, RaiseCloses
  <2>4. CASE o.code # "EXCEPTION"
    <3>1. run'.remember = run.remember /\ UNCHANGED libraryVars
      BY <1>0, <2>1, <2>4 DEF RunFields
    <3>2. QED
      BY <2>2, <3>1, MemoryAside DEF Within
  <2>5. QED
    BY <2>3, <2>4
<1>9. CASE PressKey
  <2>1. \/ Raise
        \/ /\ \/ run' = [run EXCEPT !.pc = "reobserve", !.keyRetries = @ + 1]
              \/ run' = [run EXCEPT !.key = @ + 1, !.keyRetries = 0]
              \/ \E code : run' = [run EXCEPT !.pc = "record", !.code = code]
           /\ UNCHANGED libraryVars
    <3>1. PICK o \in Outcomes(ThisStep.commit) :
            IF o.code = "EXCEPTION" THEN Raise
            ELSE /\ run' =
                      CASE Recovers(o.code) ->
                             [run EXCEPT !.pc = "reobserve", !.keyRetries = @ + 1]
                        [] o.code = "ok" /\ run.key < ThisStep.keys ->
                             [run EXCEPT !.key = @ + 1, !.keyRetries = 0]
                        [] OTHER -> [run EXCEPT !.pc = "record", !.code = o.code]
                 /\ typed' = IF Refused(o.code) THEN typed ELSE Append(typed, run.key)
                 /\ UNCHANGED <<libraryVars, outcomes, acts>>
      BY <1>9, Zenon DEF PressKey
    <3>2. QED
      BY <3>1, Zenon
  <2>2. run.pc = "keys"
    BY <1>9 DEF PressKey
  <2>3. CASE Raise
    BY <2>3, RaiseCloses
  <2>4. CASE run'.remember = run.remember /\ UNCHANGED libraryVars
    BY <2>2, <2>4, MemoryAside DEF Within
  <2>5. QED
    BY <1>0, <2>1, <2>3, <2>4 DEF RunFields
<1>10. CASE Reobserve
  BY <1>0, <1>2, <1>10, RaiseCloses DEF Reobserve, RunFields, Within
<1>11. CASE Record
  BY <1>11, RecordKeeps
<1>12. CASE Save
  <2>1. FileInv' /\ (Working(Runner) => Working(Runner)')
    BY <1>0, <1>12, Saves DEF Save
  <2>2. run' = run
    BY <1>12 DEF Save, replayVars
  <2>3. QED
    BY <1>0, <2>1, <2>2 DEF LibInv, Feeding
<1>13. CASE Judge
  <2>1. run.pc = "judge" /\ (Goes(Again) \/ Conclude(run.code = "ok"))
    BY <1>13 DEF Judge
  <2>2. Again.remember = run.remember
    BY <1>0 DEF Again, RunFields
  <2>3. QED
    BY <1>2, <1>3, <2>1, <2>2 DEF Within
<1>14. CASE FinishReplay
  <2>1. FileInv'
    BY <1>0, <1>14, Closes DEF FinishReplay
  <2>2. ~run'.remember
    BY <1>14 DEF FinishReplay, NoRun
  <2>3. QED
    BY <2>1, <2>2 DEF LibInv, Feeding
<1>15. CASE RunnerStep
  BY <1>4, <1>5, <1>6, <1>7, <1>8, <1>9, <1>10, <1>11, <1>12, <1>13, <1>14, <1>15
  DEF RunnerStep
<1>16. CASE RunnerDies
  BY <1>16, RaiseCloses DEF RunnerDies
<1>17. ASSUME NEW p \in Processes \ {Runner}, OtherStep(p) PROVE LibInv'
  <2>1. run' = run /\ p \in Processes /\ p # Runner
    BY <1>17 DEF OtherStep, replayVars
  <2>2. CASE \E todo \in Todos : Open(p, todo)
    <3>1. PICK todo \in Todos : Open(p, todo)
      BY <2>2
    <3>2. FileInv'
      BY <1>0, <2>1, <3>1, TodosTyped, Opens
    <3>3. session'[Runner] = session[Runner]
      BY <1>0, <2>1, <3>1 DEF Open, FileInv
    <3>4. QED
      BY <1>0, <2>1, <3>2, <3>3 DEF LibInv, Feeding, Working
  <2>3. CASE Operate(p)
    <3>1. FileInv'
      BY <1>0, <2>1, <2>3, Operates
    <3>2. session'[Runner] = session[Runner]
      BY <1>0, <2>1, <2>3 DEF Operate, FileInv
    <3>3. QED
      BY <1>0, <2>1, <3>1, <3>2 DEF LibInv, Feeding, Working
  <2>4. CASE Truncate(p) \/ WriteOut(p)
    <3>1. FileInv' /\ (Working(Runner) => Working(Runner)')
      BY <1>0, <2>1, <2>4, Saves
    <3>2. QED
      BY <1>0, <2>1, <3>1 DEF LibInv, Feeding
  <2>5. CASE Close(p) \/ Die(p)
    <3>1. session' = [session EXCEPT ![p] = NoSession] /\ UNCHANGED <<disk, whole, swallowed>>
      BY <2>5 DEF Close, Die
    <3>2. FileInv' /\ session'[Runner] = session[Runner]
      BY <1>0, <2>1, <3>1, Closes DEF FileInv
    <3>3. QED
      BY <1>0, <2>1, <3>2 DEF LibInv, Feeding, Working
  <2>6. QED
    BY <1>17, <2>2, <2>3, <2>4, <2>5 DEF OtherStep, SessionStep
<1>18. CASE UNCHANGED vars
  BY <1>18, MemoryAside DEF vars, replayVars
<1>19. QED
  BY <1>1, <1>15, <1>16, <1>17, <1>18 DEF Next

\* What the file, and every command's copy, holds is a library that holds
\* together but for what was merged into itself; a readable file is the last
\* that was written, and a command that nobody overtook, and that merged
\* nothing into itself, has lost nothing of it.
THEOREM LibInvHolds == Spec => []LibInv
<1>1. LibInv /\ KeysInv /\ [Next]_vars => LibInv'
  BY LibStep
<1>2. QED
  BY <1>1, InitLib, KeysInvHolds, PTL DEF Spec

\* A template never names a component that is not there, but for those a review
\* merged into themselves, whatever was learnt, used, merged or generalized, and
\* however the commands overlap or die.
THEOREM TemplatesResolveHolds == Spec => []TemplatesResolve
<1>1. ASSUME NEW lib \in Libs(swallowed), NEW t \in DOMAIN lib.tmpl
      PROVE  ToSet(lib.tmpl[t].ids) \subseteq DOMAIN lib.comp \cup swallowed
  <2>1. lib.tmpl[t].ids \in Seq(DOMAIN lib.comp \cup swallowed)
    BY LibHas
  <2>2. QED
    BY <2>1, SetOfSeq DEF Parts
<1>2. LibInv => TemplatesResolve
  <2> SUFFICES ASSUME LibInv PROVE TemplatesResolve
    OBVIOUS
  <2>1. disk.lib \in Libs(swallowed) /\ \A p \in Processes : session[p].lib \in Libs(swallowed)
    BY DEF LibInv, FileInv, Sessions
  <2>2. QED
    BY <1>1, <2>1 DEF TemplatesResolve
<1>3. QED
  BY <1>2, LibInvHolds, PTL

\* The types of the run and of the memory.
THEOREM ReplayTypesHold == Spec => []ReplayTypeOK
<1>1. ASSUME NEW lib \in Libs(swallowed) PROVE LibraryType(lib)
  <2>1. /\ lib = [comp |-> lib.comp, tmpl |-> lib.tmpl]
        /\ lib.comp \in [DOMAIN lib.comp -> ComponentType]
        /\ lib.tmpl \in [DOMAIN lib.tmpl -> TemplateType]
        /\ DOMAIN lib.comp \in SUBSET Ids /\ DOMAIN lib.tmpl \in SUBSET Tasks
    BY LibHas DEF Parts
  <2>2. lib \in [comp : [DOMAIN lib.comp -> ComponentType],
                 tmpl : [DOMAIN lib.tmpl -> TemplateType]]
    BY <2>1
  <2>3. QED
    BY <2>1, <2>2 DEF LibraryType
<1>2. LibInv => LibraryTypeOK
  BY <1>1 DEF LibInv, FileInv, Sound, Sessions, At, LibraryTypeOK
<1>3. KeysInv /\ LibraryTypeOK => ReplayTypeOK
  BY DEF KeysInv, RunType, Stages, Within, ReplayTypeOK
<1>4. QED
  BY <1>2, <1>3, LibInvHolds, KeysInvHolds, PTL

\* Curation moves what was counted about and loses none of it, unless a
\* component is merged into itself, for any libraries and reviews.
THEOREM CountsFoldedHolds == Spec => CountsFolded
<1>1. LibInv => [\A p \in Processes : Curates(p) =>
        /\ Runs(session'[p].lib) = Runs(session[p].lib)
        /\ Swallows(Head(session[p].todo)) = {} =>
             Uses(session'[p].lib) = Uses(session[p].lib)]_libraryVars
  BY Operates DEF LibInv, Folds, Curates
<1>2. QED
  BY <1>1, LibInvHolds, PTL DEF CountsFolded

\* What the memory has learnt is still there after a command wrote the file, if
\* nobody else wrote between its reading and its writing and it merged nothing
\* into itself, for any number of processes, commands and libraries.
THEOREM NothingForgottenHolds == Spec => NothingForgotten
<1>1. LibInv => [\A p \in Processes :
        (WriteOut(p) /\ ~session[p].stale /\ session[p].gone = {} /\ disk'.readable) =>
          /\ Names(whole) \subseteq Names(disk'.lib)
          /\ Uses(whole) <= Uses(disk'.lib)
          /\ Runs(whole) <= Runs(disk'.lib)]_libraryVars
  BY Saves DEF LibInv, Grown
<1>2. QED
  BY <1>1, LibInvHolds, PTL DEF NothingForgotten
=============================================================================
