---------------------------- MODULE VisionProofs ----------------------------
(***************************************************************************)
(* Proofs about Vision for any number of providers and any cooldowns: type *)
(* correctness, that one shared pool fails over by rest, that a request    *)
(* gives up only after every provider failed, and that upgrades keep apart. *)
(***************************************************************************)
EXTENDS Vision, TLAPS

-----------------------------------------------------------------------------
(* The inductive invariant *)

\* The providers of the answers before the i-th.
AskedBefore(s, i) == {s[j].provider : j \in 1..i - 1}

\* What is left of a running request is what it has not asked, and whatever it
\* has asked failed.
RequestRuns ==
    asking # "nobody" =>
      /\ left = Providers \ Tried
      /\ \A i \in DOMAIN answers : answers[i].answer \in Failures
      /\ result = "none"

\* The request worked through its candidates in their order.
TriedByCooling ==
    \A i \in DOMAIN answers : \A q \in Providers \ AskedBefore(answers, i) :
      cooling[answers[i].provider] <= cooling[q]

\* A shared pool's table is what the providers owe, now and at the beginning.
PoolIsRest == mode = "injected" => failed = rests /\ cooling = restsAt

PoolInvariant ==
    TypeOK /\ RequestRuns /\ TriedByCooling /\ PoolIsRest /\ GivesUpAfterAll

-----------------------------------------------------------------------------
(* Lemmas about the operators *)

\* Time left never exceeds what it was.
LEMMA LessBounds ==
    ASSUME NEW m \in Nat, NEW n \in 0..m
    PROVE  Less(n) \in 0..m
BY DEF Less

\* The pool's cooldowns are those the documentation promises.
LEMMA CooldownIsRest ==
    ASSUME NEW a \in Failures
    PROVE  Cooldown(a) = Rest(a) /\ Cooldown(a) \in 0..AuthCooldown
BY VisionAssumption DEF Failures, Cooldown, Rest

\* The rotation stays inside the provider list.
LEMMA RotationStays ==
    ASSUME NEW p \in Providers
    PROVE  (p % N) + 1 \in Providers
BY VisionAssumption DEF Providers

\* An element of a sequence over S is in S.
LEMMA ElementOfSeq ==
    ASSUME NEW S, NEW s \in Seq(S), NEW i \in DOMAIN s
    PROVE  s[i] \in S
OBVIOUS

\* Appending an answer leaves the earlier ones alone.
LEMMA AppendedAnswers ==
    ASSUME NEW S, NEW s \in Seq(S), NEW e \in S
    PROVE  /\ Append(s, e) \in Seq(S)
           /\ Len(Append(s, e)) = Len(s) + 1
           /\ DOMAIN Append(s, e) = (DOMAIN s) \union {Len(s) + 1}
           /\ \A i \in DOMAIN s : Append(s, e)[i] = s[i]
           /\ Append(s, e)[Len(s) + 1] = e
           /\ DOMAIN s = 1..Len(s)
           /\ Len(s) \in Nat
OBVIOUS

-----------------------------------------------------------------------------
(* The initial state and the steps that ask no provider *)

LEMMA InitPoolInvariant == Init => PoolInvariant
<1> SUFFICES ASSUME Init PROVE PoolInvariant
  OBVIOUS
<1>1. FreshPool \in [Providers -> 0..AuthCooldown] /\ 1 \in Providers
  BY VisionAssumption DEF FreshPool, Providers
<1>2. answers \in Seq([provider : Providers, answer : Answers])
  BY DEF Init
<1>3. UpgradeCooldown \in 0..UpgradeCooldown /\ 0 \in 0..UpgradeCooldown
  BY VisionAssumption
<1>4. TypeOK
  BY <1>1, <1>2, <1>3 DEF Init, TypeOK, Results, Reports
<1>5. RequestRuns /\ TriedByCooling /\ PoolIsRest /\ GivesUpAfterAll
  BY DEF Init, RequestRuns, TriedByCooling, PoolIsRest, GivesUpAfterAll
<1> QED BY <1>4, <1>5 DEF PoolInvariant

\* A request begins with every provider to ask and nothing answered.
LEMMA StartKeepsPoolInvariant ==
    ASSUME PoolInvariant, NEW client \in Clients, StartRequest(client),
           UNCHANGED <<mode, rests>>, latched' \in BOOLEAN, built' \in BOOLEAN,
           upgradeWait' \in 0..UpgradeCooldown, report' \in Reports,
           quiet' \in 0..UpgradeCooldown
    PROVE  PoolInvariant'
<1> USE DEF PoolInvariant
<1>1. /\ FreshPool \in [Providers -> 0..AuthCooldown]
      /\ 1 \in Providers /\ Providers # {}
      /\ client # "nobody" /\ client \in Clients \union {"nobody"}
  BY VisionAssumption DEF FreshPool, Providers, Clients
<1>2. TypeOK'
  <2>1. answers' \in Seq([provider : Providers, answer : Answers])
    BY DEF StartRequest
  <2>2. /\ failed' \in [Providers -> 0..AuthCooldown]
        /\ cooling' \in [Providers -> 0..AuthCooldown]
        /\ current' \in Providers
    BY <1>1 DEF StartRequest, poolVars, TypeOK
  <2> QED BY <1>1, <2>1, <2>2 DEF StartRequest, TypeOK, Results
<1>3. answers' = <<>> /\ Tried' = {}
  BY DEF StartRequest, Tried
<1>4. RequestRuns' /\ TriedByCooling' /\ GivesUpAfterAll'
  BY <1>3 DEF StartRequest, RequestRuns, TriedByCooling, GivesUpAfterAll
<1>5. PoolIsRest'
  BY DEF StartRequest, PoolIsRest, poolVars
<1> QED BY <1>2, <1>4, <1>5

\* Steps that leave the request and the pool alone.
LEMMA IdleKeepsPoolInvariant ==
    ASSUME PoolInvariant, UNCHANGED <<mode, requestVars, poolVars, rests>>,
           latched' \in BOOLEAN, built' \in BOOLEAN, report' \in Reports,
           upgradeWait' \in 0..UpgradeCooldown, quiet' \in 0..UpgradeCooldown
    PROVE  PoolInvariant'
<1> USE DEF PoolInvariant, requestVars, poolVars
<1>1. TypeOK'
  BY DEF TypeOK
<1>2. Tried' = Tried /\ answers' = answers
  BY DEF Tried
<1>3. RequestRuns' /\ TriedByCooling' /\ PoolIsRest' /\ GivesUpAfterAll'
  BY <1>2 DEF RequestRuns, TriedByCooling, PoolIsRest, GivesUpAfterAll
<1> QED BY <1>1, <1>3

LEMMA TickKeepsPoolInvariant ==
    ASSUME PoolInvariant, Tick
    PROVE  PoolInvariant'
<1> USE DEF PoolInvariant, requestVars
<1>1. /\ \A n \in 0..AuthCooldown : Less(n) \in 0..AuthCooldown
      /\ Less(upgradeWait) \in 0..UpgradeCooldown
  BY LessBounds, VisionAssumption DEF TypeOK
<1>2. TypeOK'
  <2>1. /\ failed' \in [Providers -> 0..AuthCooldown]
        /\ rests' \in [Providers -> 0..AuthCooldown]
    BY <1>1 DEF TypeOK, Tick
  <2>2. upgradeWait' \in 0..UpgradeCooldown /\ quiet' \in 0..UpgradeCooldown
    BY <1>1, VisionAssumption DEF TypeOK, Tick
  <2> QED BY <2>1, <2>2 DEF TypeOK, Tick
<1>3. Tried' = Tried /\ answers' = answers
  BY DEF Tried, Tick, requestVars
<1>4. RequestRuns' /\ TriedByCooling' /\ PoolIsRest' /\ GivesUpAfterAll'
  BY <1>3 DEF RequestRuns, TriedByCooling, PoolIsRest, GivesUpAfterAll, Tick
<1> QED BY <1>2, <1>4

-----------------------------------------------------------------------------
(* The attempts *)

\* What every attempt does to the record of the request, however it ends.
LEMMA AttemptExtends ==
    ASSUME PoolInvariant, asking # "nobody", NEW p \in left, NEW answer \in Answers,
           \A q \in left \ {p} : TriedBefore(p, q),
           answers' = Append(answers, [provider |-> p, answer |-> answer]),
           UNCHANGED cooling
    PROVE  /\ answers' \in Seq([provider : Providers, answer : Answers])
           /\ Tried' = Tried \union {p}
           /\ p \in Providers \ Tried
           /\ Last(answers') = [provider |-> p, answer |-> answer]
           /\ TriedByCooling'
           /\ \A i, j \in DOMAIN answers' :
                answers'[i].provider = answers'[j].provider => i = j
           /\ \A i \in DOMAIN answers' :
                i < Len(answers') => answers'[i].answer \in Failures
           /\ answer \in Failures =>
                \A i \in DOMAIN answers' : answers'[i].answer \in Failures
<1> DEFINE e == [provider |-> p, answer |-> answer]
           S == [provider : Providers, answer : Answers]
           n == Len(answers)
<1>1. p \in Providers \ Tried /\ left = Providers \ Tried
  BY DEF PoolInvariant, RequestRuns
<1>2. answers \in Seq(S) /\ e \in S
  BY <1>1 DEF PoolInvariant, TypeOK
<1>3. /\ answers' \in Seq(S)
      /\ Len(answers') = n + 1
      /\ DOMAIN answers' = (DOMAIN answers) \union {n + 1}
      /\ \A i \in DOMAIN answers : answers'[i] = answers[i]
      /\ answers'[n + 1] = e
      /\ DOMAIN answers = 1..n
      /\ n \in Nat
  <2> HIDE DEF e, S
  <2>1. answers' = Append(answers, e)
    BY DEF e
  <2> QED BY <1>2, <2>1, AppendedAnswers DEF n
<1> HIDE DEF e, S, n
<1>4. e.provider = p /\ e.answer = answer
  BY DEF e
<1>5. Tried' = Tried \union {p}
  BY <1>3, <1>4 DEF Tried
<1>6. \A i \in DOMAIN answers : AskedBefore(answers', i) = AskedBefore(answers, i)
  <2> SUFFICES ASSUME NEW i \in 1..n
               PROVE  AskedBefore(answers', i) = AskedBefore(answers, i)
    BY <1>3
  <2>1. \A j \in 1..i - 1 : answers'[j] = answers[j]
    BY <1>3
  <2> QED BY <2>1 DEF AskedBefore
<1>7. AskedBefore(answers', n + 1) = Tried
  <2>1. 1..(n + 1) - 1 = 1..n
    BY <1>3
  <2> QED BY <1>3, <2>1 DEF AskedBefore, Tried
<1>8. \A q \in Providers \ Tried : cooling[p] <= cooling[q]
  <2> SUFFICES ASSUME NEW q \in Providers \ Tried PROVE cooling[p] <= cooling[q]
    OBVIOUS
  <2>1. cooling[p] \in Nat /\ cooling[q] \in Nat
    BY <1>1, VisionAssumption DEF PoolInvariant, TypeOK
  <2> QED BY <1>1, <2>1 DEF TriedBefore
<1>9. TriedByCooling'
  <2> SUFFICES ASSUME NEW i \in DOMAIN answers',
                      NEW q \in Providers \ AskedBefore(answers', i)
               PROVE  cooling[answers'[i].provider] <= cooling[q]
    BY DEF TriedByCooling
  <2>1. CASE i \in DOMAIN answers
    BY <1>3, <1>6, <2>1 DEF PoolInvariant, TriedByCooling
  <2>2. CASE i = n + 1
    BY <1>3, <1>4, <1>7, <1>8, <2>2
  <2> QED BY <1>3, <2>1, <2>2
<1>10. \A i \in DOMAIN answers : answers[i].provider # p
  BY <1>1 DEF Tried
<1>11. \A i, j \in DOMAIN answers' :
         answers'[i].provider = answers'[j].provider => i = j
  BY <1>3, <1>4, <1>10 DEF PoolInvariant, GivesUpAfterAll
<1>12. \A i \in DOMAIN answers : answers[i].answer \in Failures
  BY DEF PoolInvariant, RequestRuns
<1>13. /\ \A i \in DOMAIN answers' :
            i < Len(answers') => answers'[i].answer \in Failures
       /\ answer \in Failures =>
            \A i \in DOMAIN answers' : answers'[i].answer \in Failures
  BY <1>3, <1>4, <1>12
<1>14. Last(answers') = e
  BY <1>3 DEF Last
<1> QED BY <1>1, <1>3, <1>5, <1>9, <1>11, <1>13, <1>14 DEF e, S

\* What the escalation makes of an ended request keeps its types.
LEMMA ConcludeKeepsTypes ==
    ASSUME TypeOK, asking # "nobody", NEW how \in Results, Conclude(how)
    PROVE  /\ asking' = "nobody" /\ left' = {} /\ result' = how
           /\ upgradeWait' \in 0..UpgradeCooldown
           /\ quiet' \in 0..UpgradeCooldown
           /\ latched' \in BOOLEAN
           /\ report' \in Reports
<1>1. UpgradeCooldown \in 0..UpgradeCooldown /\ 0 \in 0..UpgradeCooldown
  BY VisionAssumption
<1>2. CASE asking = "upgrade"
  <2>1. latched' = (how \in {"all_failed", "unexpected"})
    BY <1>2 DEF Conclude
  <2>2. report' \in Reports
    <3>1. CASE how = "served"
      BY <1>2, <3>1 DEF Conclude, Reports
    <3>2. CASE how = "raised"
      BY <1>2, <3>2 DEF Conclude, Reports
    <3>3. CASE how # "served" /\ how # "raised"
      BY <1>2, <3>3 DEF Conclude, Reports
    <3> QED BY <3>1, <3>2, <3>3
  <2>3. upgradeWait' \in 0..UpgradeCooldown /\ quiet' \in 0..UpgradeCooldown
    BY <1>1, <1>2 DEF Conclude, TypeOK
  <2> QED BY <2>1, <2>2, <2>3 DEF Conclude
<1>3. CASE asking # "upgrade"
  BY <1>3 DEF Conclude, TypeOK
<1> QED BY <1>2, <1>3

LEMMA AttemptKeepsPoolInvariant ==
    ASSUME PoolInvariant, Attempt
    PROVE  PoolInvariant'
<1>1. PICK p \in left, answer \in Answers :
        /\ \A q \in left \ {p} : TriedBefore(p, q)
        /\ answers' = Append(answers, [provider |-> p, answer |-> answer])
        /\ \/ AttemptFails(p, answer)
           \/ AttemptAnswers(p, answer)
           \/ AttemptBreaks(answer)
  BY DEF Attempt
<1>2. asking # "nobody" /\ UNCHANGED <<mode, cooling, restsAt, built>>
  BY DEF Attempt
<1>3. /\ answers' \in Seq([provider : Providers, answer : Answers])
      /\ Tried' = Tried \union {p}
      /\ p \in Providers \ Tried
      /\ Last(answers') = [provider |-> p, answer |-> answer]
      /\ TriedByCooling'
      /\ \A i, j \in DOMAIN answers' :
           answers'[i].provider = answers'[j].provider => i = j
      /\ \A i \in DOMAIN answers' :
           i < Len(answers') => answers'[i].answer \in Failures
      /\ answer \in Failures =>
           \A i \in DOMAIN answers' : answers'[i].answer \in Failures
  BY <1>1, <1>2, AttemptExtends
<1>4. TypeOK /\ left = Providers \ Tried /\ result = "none"
  BY <1>2 DEF PoolInvariant, RequestRuns
<1>5. (p % N) + 1 \in Providers /\ p \in Providers
  BY <1>3, RotationStays
<1>6. /\ failed' \in [Providers -> 0..AuthCooldown]
      /\ rests' \in [Providers -> 0..AuthCooldown]
      /\ current' \in Providers
      /\ mode = "injected" => failed' = rests'
  <2>1. CASE AttemptFails(p, answer)
    <3>1. Cooldown(answer) = Rest(answer) /\ Cooldown(answer) \in 0..AuthCooldown
      BY <2>1, CooldownIsRest DEF AttemptFails
    <3> QED BY <1>4, <1>5, <2>1, <3>1 DEF AttemptFails, MarkFailure, TypeOK,
               PoolInvariant, PoolIsRest
  <2>2. CASE AttemptAnswers(p, answer)
    <3>1. 0 \in 0..AuthCooldown
      BY VisionAssumption
    <3> QED BY <1>4, <1>5, <2>2, <3>1 DEF AttemptAnswers, MarkSuccess, TypeOK,
               PoolInvariant, PoolIsRest
  <2>3. CASE AttemptBreaks(answer)
    BY <1>4, <2>3 DEF AttemptBreaks, poolVars, TypeOK, PoolInvariant, PoolIsRest
  <2> QED BY <1>1, <2>1, <2>2, <2>3
<1>7. PoolIsRest'
  BY <1>2, <1>6 DEF PoolInvariant, PoolIsRest
<1>8. CASE AttemptFails(p, answer) /\ left # {p}
  <2>1. /\ left' = left \ {p}
        /\ answer \in Failures
        /\ UNCHANGED <<asking, result, latched, upgradeWait, report, quiet>>
    BY <1>8 DEF AttemptFails
  <2>2. TypeOK'
    BY <1>2, <1>3, <1>4, <1>6, <1>8, <2>1 DEF TypeOK
  <2>3. RequestRuns'
    BY <1>3, <1>4, <2>1 DEF RequestRuns
  <2>4. GivesUpAfterAll'
    BY <1>3, <1>4, <2>1 DEF GivesUpAfterAll
  <2> QED BY <1>3, <1>7, <2>2, <2>3, <2>4 DEF PoolInvariant
<1>9. CASE \E how \in Results :
             Conclude(how) /\ (how = "all_failed" => left = {p} /\ answer \in Failures)
  <2>1. PICK how \in Results :
          Conclude(how) /\ (how = "all_failed" => left = {p} /\ answer \in Failures)
    BY <1>9
  <2>2. /\ asking' = "nobody" /\ left' = {} /\ result' = how
        /\ upgradeWait' \in 0..UpgradeCooldown
        /\ quiet' \in 0..UpgradeCooldown
        /\ latched' \in BOOLEAN
        /\ report' \in Reports
    BY <1>2, <1>4, <2>1, ConcludeKeepsTypes
  <2>3. TypeOK'
    BY <1>2, <1>3, <1>4, <1>6, <2>2 DEF TypeOK
  <2>4. RequestRuns'
    BY <2>2 DEF RequestRuns
  <2>5. how = "all_failed" => Tried' = Providers /\ Last(answers').answer \in Failures
    <3>1. \A i \in DOMAIN answers : answers[i].provider \in Providers
      <4> DEFINE S == [provider : Providers, answer : Answers]
      <4>1. answers \in Seq(S)
        BY <1>4 DEF TypeOK
      <4>2. \A i \in DOMAIN answers : answers[i] \in S
        <5> HIDE DEF S
        <5> QED BY <4>1, ElementOfSeq
      <4> QED BY <4>2
    <3>2. Tried \subseteq Providers
      BY <3>1 DEF Tried
    <3> QED BY <1>3, <1>4, <2>1, <3>2
  <2>6. GivesUpAfterAll'
    BY <1>3, <2>2, <2>5 DEF GivesUpAfterAll
  <2> QED BY <1>3, <1>7, <2>3, <2>4, <2>6 DEF PoolInvariant
<1>10. answer \in {"ok", "unparsable", "formless"} => Parsed(answer) \in Results \ {"all_failed"}
  BY DEF Parsed, Results
<1> QED BY <1>1, <1>8, <1>9, <1>10 DEF AttemptFails, AttemptAnswers, AttemptBreaks, Results

-----------------------------------------------------------------------------
(* The theorems *)

LEMMA NextKeepsPoolInvariant == PoolInvariant /\ [Next]_vars => PoolInvariant'
<1> SUFFICES ASSUME PoolInvariant, [Next]_vars PROVE PoolInvariant'
  OBVIOUS
<1>0. TypeOK /\ "none" \in Reports /\ "cooldown" \in Reports /\ "unavailable" \in Reports
  BY DEF PoolInvariant, Reports
<1>1. CASE AskPlain
  BY <1>0, <1>1, StartKeepsPoolInvariant DEF AskPlain, TypeOK, Clients, escalationVars
<1>2. CASE ObserveThin
  <2>1. CASE SuppressLatched
    BY <1>0, <1>2, <2>1, IdleKeepsPoolInvariant DEF ObserveThin, SuppressLatched, TypeOK
  <2>2. CASE BuildFails
    BY <1>0, <1>2, <2>2, IdleKeepsPoolInvariant DEF ObserveThin, BuildFails, TypeOK
  <2>3. CASE WaitsForCooldown
    BY <1>0, <1>2, <2>3, IdleKeepsPoolInvariant DEF ObserveThin, WaitsForCooldown, TypeOK
  <2>4. CASE AskUpgrade
    BY <1>0, <1>2, <2>4, StartKeepsPoolInvariant DEF ObserveThin, AskUpgrade, TypeOK, Clients
  <2> QED BY <1>2, <2>1, <2>2, <2>3, <2>4 DEF ObserveThin
<1>3. CASE Attempt
  BY <1>3, AttemptKeepsPoolInvariant
<1>4. CASE Tick
  BY <1>4, TickKeepsPoolInvariant
<1>5. CASE UNCHANGED vars
  BY <1>0, <1>5, IdleKeepsPoolInvariant DEF vars, escalationVars, TypeOK
<1> QED BY <1>1, <1>2, <1>3, <1>4, <1>5 DEF Next

\* The inductive invariant holds in every reachable state.
THEOREM PoolInvariantHolds == Spec => []PoolInvariant
<1> QED BY InitPoolInvariant, NextKeepsPoolInvariant, PTL DEF Spec

\* Type correctness of pool, request and escalation, for every number of
\* providers and every cooldown.
THEOREM VisionTypeCorrect == Spec => []TypeOK
<1>1. PoolInvariant => TypeOK
  BY DEF PoolInvariant
<1> QED BY <1>1, PoolInvariantHolds, PTL

\* A shared pool never asks a resting provider before one that rests less.
THEOREM SharedPoolFailsOverHolds == Spec => []SharedPoolFailsOver
<1>1. PoolInvariant => SharedPoolFailsOver
  BY DEF PoolInvariant, SharedPoolFailsOver, TriedByCooling, TriedByRest, PoolIsRest,
     AskedBefore
<1> QED BY <1>1, PoolInvariantHolds, PTL

\* A request gives up only after it has asked every provider, each once, and
\* each failed.
THEOREM GivesUpAfterAllHolds == Spec => []GivesUpAfterAll
<1>1. PoolInvariant => GivesUpAfterAll
  BY DEF PoolInvariant
<1> QED BY <1>1, PoolInvariantHolds, PTL


-----------------------------------------------------------------------------
(* Escalation. *)

\* The escalation's timer and the time since the last upgrade make up the
\* cooldown: while one runs down, the other runs up.
WaitInv ==
    /\ upgradeWait \in 0..UpgradeCooldown
    /\ quiet = UpgradeCooldown - upgradeWait

LEMMA ConcludeKeepsWait == ASSUME WaitInv, NEW how, Conclude(how) PROVE WaitInv'
<1>1. CASE asking = "upgrade" /\ how = "served"
  <2>1. upgradeWait' = UpgradeCooldown /\ quiet' = 0
    BY <1>1 DEF Conclude
  <2> QED BY <2>1, VisionAssumption DEF WaitInv
<1>2. CASE ~(asking = "upgrade" /\ how = "served")
  <2>1. UNCHANGED <<upgradeWait, quiet>>
    BY <1>2 DEF Conclude
  <2> QED BY <2>1 DEF WaitInv
<1> QED BY <1>1, <1>2

LEMMA WaitKept == WaitInv /\ [Next]_vars => WaitInv'
<1> SUFFICES ASSUME WaitInv, [Next]_vars PROVE WaitInv'
  OBVIOUS
<1>1. CASE UNCHANGED <<upgradeWait, quiet>>
  BY <1>1 DEF WaitInv
<1>2. CASE AskPlain
  BY <1>1, <1>2 DEF AskPlain, escalationVars
<1>3. CASE ObserveThin
  BY <1>1, <1>3
  DEF ObserveThin, SuppressLatched, BuildFails, WaitsForCooldown, AskUpgrade
<1>4. CASE Attempt
  <2>1. PICK p \in left, answer \in Answers :
          AttemptFails(p, answer) \/ AttemptAnswers(p, answer) \/ AttemptBreaks(answer)
    BY <1>4 DEF Attempt
  <2>2. CASE AttemptFails(p, answer)
    BY <1>1, <2>2, ConcludeKeepsWait DEF AttemptFails
  <2>3. CASE AttemptAnswers(p, answer)
    BY <2>3, ConcludeKeepsWait DEF AttemptAnswers
  <2>4. CASE AttemptBreaks(answer)
    BY <2>4, ConcludeKeepsWait DEF AttemptBreaks
  <2> QED BY <2>1, <2>2, <2>3, <2>4
<1>5. CASE Tick
  BY <1>5, VisionAssumption DEF Tick, Less, WaitInv
<1>6. CASE UNCHANGED vars
  BY <1>1, <1>6 DEF vars, escalationVars
<1> QED BY <1>2, <1>3, <1>4, <1>5, <1>6 DEF Next

\* Only AskUpgrade begins an upgrade, and only when its timer has run out.
LEMMA UpgradeStarts ==
  ASSUME [Next]_vars, asking' = "upgrade", asking = "nobody"
  PROVE  upgradeWait = 0
<1>1. ASSUME UNCHANGED asking PROVE FALSE
  BY <1>1
<1>2. CASE AskPlain
  BY <1>2 DEF AskPlain, StartRequest
<1>3. CASE ObserveThin
  BY <1>1, <1>3
  DEF ObserveThin, SuppressLatched, BuildFails, WaitsForCooldown, AskUpgrade, requestVars
<1>4. CASE Attempt \/ Tick \/ UNCHANGED vars
  BY <1>1, <1>4 DEF Attempt, Tick, requestVars, vars
<1> QED BY <1>2, <1>3, <1>4 DEF Next

\* An upgrade is begun only a whole cooldown after the last one that came back.
THEOREM UpgradesKeepApartHolds == Spec => UpgradesKeepApart
<1>1. Init => WaitInv
  BY VisionAssumption DEF Init, WaitInv
<1>2. WaitInv /\ [Next]_vars =>
        [asking' = "upgrade" /\ asking = "nobody" => quiet = UpgradeCooldown]_vars
  BY UpgradeStarts, VisionAssumption DEF WaitInv
<1> QED BY <1>1, <1>2, WaitKept, PTL DEF Spec, UpgradesKeepApart
=============================================================================
