---------------------------- MODULE FacadeProofs ----------------------------
(***************************************************************************)
(* Proofs about the snapshot store, for any apps, TTL and capacity and any *)
(* behaviour of the wall clock; then about the facade, which works on it,  *)
(* for any apps, windows, budgets, batches and bounds, whatever the        *)
(* desktop, the clock and the upstream do.                                 *)
(***************************************************************************)
EXTENDS Facade, FiniteSetTheorems, TLAPS

-----------------------------------------------------------------------------
(* The store: types. *)

LEMMA InitTyped == StoreInit => StoreTypeOK
<1> SUFFICES ASSUME StoreInit PROVE StoreTypeOK
  OBVIOUS
<1>1. DOMAIN snapshots = {} /\ DOMAIN current = {}
  BY DEF StoreInit
<1>2. /\ snapshots = [i \in DOMAIN snapshots |-> snapshots[i]]
      /\ current = [a \in DOMAIN current |-> current[a]]
  BY Zenon DEF StoreInit
<1>3. latest \in [Apps -> 0 .. issued] /\ clock \in Nat /\ issued \in Nat
  BY DEF StoreInit
<1>4. setBack \in BOOLEAN
  BY Zenon DEF StoreInit
<1> QED BY <1>1, <1>2, <1>3, <1>4 DEF StoreTypeOK

\* A put keeps the tables well typed.
LEMMA PutTyped ==
  ASSUME StoreTypeOK, NEW app \in Apps, NEW view \in Views, Put(app, view)
  PROVE  StoreTypeOK'
<1> DEFINE id == NextId
           added == [i \in DOMAIN snapshots \cup {id} |->
                      IF i = id THEN [app |-> app, at |-> clock, view |-> view]
                                ELSE snapshots[i]]
           live == {i \in DOMAIN added : ~Expired(added[i].at)}
           named == [a \in DOMAIN current \cup {app} |->
                      IF a = app THEN id ELSE current[a]]
<1>1. /\ issued' = issued + 1
      /\ snapshots' = Restrict(added, Survivors(added, live))
      /\ current' = Restrict(named, {a \in DOMAIN named : named[a] \in live})
      /\ latest' = [latest EXCEPT ![app] = id]
      /\ UNCHANGED <<clock, setBack>>
  BY DEF Put
<1>2. issued \in Nat /\ id = issued + 1 /\ clock \in Nat
  BY DEF StoreTypeOK, NextId
<1>3. \A i \in DOMAIN added : added[i] \in Snapshot
  BY <1>2 DEF StoreTypeOK, Snapshot
<1>4. DOMAIN added \subseteq 1 .. issued + 1
  BY <1>2 DEF StoreTypeOK, Ids
<1>5. Survivors(added, live) \subseteq DOMAIN added
  BY DEF Survivors
<1>6. /\ DOMAIN snapshots' \subseteq Ids'
      /\ \A i \in DOMAIN snapshots' : snapshots'[i] \in Snapshot
      /\ snapshots' = [i \in DOMAIN snapshots' |-> snapshots'[i]]
  <2> HIDE DEF added, live
  <2> QED BY <1>1, <1>3, <1>4, <1>5 DEF Restrict, Ids
<1>7. \A a \in DOMAIN named : named[a] \in 1 .. issued + 1
  BY <1>2 DEF StoreTypeOK, Ids
<1>8. /\ DOMAIN current' \subseteq Apps
      /\ \A a \in DOMAIN current' : current'[a] \in Ids'
      /\ current' = [a \in DOMAIN current' |-> current'[a]]
  <2>1. DOMAIN named \subseteq Apps
    BY DEF StoreTypeOK
  <2> HIDE DEF named, live
  <2> QED BY <1>1, <1>7, <2>1 DEF Restrict, Ids
<1>9. latest' \in [Apps -> 0 .. issued']
  <2>1. \A a \in Apps : latest[a] \in 0 .. issued /\ latest \in [Apps -> 0 .. issued]
    BY DEF StoreTypeOK
  <2> QED BY <1>1, <1>2, <2>1
<1>10. clock' \in Nat /\ issued' \in Nat
  BY <1>1, <1>2
<1>11. setBack' \in BOOLEAN
  BY <1>1, Zenon DEF StoreTypeOK
<1> QED
  <2> HIDE DEF added, live, named, id
  <2> QED BY <1>6, <1>8, <1>9, <1>10, <1>11 DEF StoreTypeOK

\* So does every answer of get, and every change of the clock.
LEMMA GetTyped ==
  ASSUME StoreTypeOK, NEW app \in Apps, NEW id \in 0 .. issued, Get(app, id)
  PROVE  StoreTypeOK'
BY DEF StoreTypeOK, Get, GetServed, GetSuperseded, GetLost, Refuse, Restrict, Ids,
       Snapshot

LEMMA SetClockTyped ==
  ASSUME StoreTypeOK, NEW t \in Clocks, SetClock(t)
  PROVE  StoreTypeOK'
BY StoreAssumption DEF StoreTypeOK, SetClock, Clocks, Ids, Snapshot

LEMMA StepTyped == StoreTypeOK /\ [StoreNext]_storeVars => StoreTypeOK'
<1> SUFFICES ASSUME StoreTypeOK, [StoreNext]_storeVars PROVE StoreTypeOK'
  OBVIOUS
<1>1. ASSUME NEW app \in Apps, NEW view \in Views, Put(app, view) PROVE StoreTypeOK'
  BY <1>1, PutTyped
<1>2. ASSUME NEW app \in Apps, NEW id \in 0 .. issued, Get(app, id) PROVE StoreTypeOK'
  BY <1>2, GetTyped
<1>3. ASSUME NEW t \in Clocks, SetClock(t) PROVE StoreTypeOK'
  BY <1>3, SetClockTyped
<1>4. CASE UNCHANGED storeVars
  BY <1>4 DEF storeVars, StoreTypeOK, Ids
<1> QED BY <1>1, <1>2, <1>3, <1>4 DEF StoreNext

\* The store's tables stay well typed (put, get, invalidate and _purge of
\* state/store.py).
THEOREM StoreTypeCorrect == StoreSpec => []StoreTypeOK
BY InitTyped, StepTyped, PTL DEF StoreSpec

-----------------------------------------------------------------------------
(* The answers of get. *)

\* An app's current entry names its most recent put, and while that snapshot
\* is stored it is a snapshot of the app.  get invalidates what it finds lost,
\* so the entry never falls back to an older snapshot.
CurrentIsOwn ==
  \A a \in DOMAIN current :
    /\ current[a] = latest[a]
    /\ current[a] \in DOMAIN snapshots => snapshots[current[a]].app = a

StoreInv == StoreTypeOK /\ CurrentIsOwn /\ AnswersNameLatest

LEMMA InitInv == StoreInit => StoreInv
<1> SUFFICES ASSUME StoreInit PROVE CurrentIsOwn /\ AnswersNameLatest
  BY InitTyped DEF StoreInv
<1>1. DOMAIN current = {} /\ reply = NoReply
  BY DEF StoreInit
<1> QED BY <1>1 DEF CurrentIsOwn, AnswersNameLatest, NoReply

\* After a put the app's entry names the new snapshot, and every other entry
\* that is left names what it named before.
LEMMA PutInv ==
  ASSUME StoreInv, NEW app \in Apps, NEW view \in Views, Put(app, view)
  PROVE  CurrentIsOwn' /\ AnswersNameLatest'
<1> DEFINE id == NextId
           added == [i \in DOMAIN snapshots \cup {id} |->
                      IF i = id THEN [app |-> app, at |-> clock, view |-> view]
                                ELSE snapshots[i]]
           live == {i \in DOMAIN added : ~Expired(added[i].at)}
           named == [a \in DOMAIN current \cup {app} |->
                      IF a = app THEN id ELSE current[a]]
<1>1. /\ snapshots' = Restrict(added, Survivors(added, live))
      /\ current' = Restrict(named, {a \in DOMAIN named : named[a] \in live})
      /\ latest' = [latest EXCEPT ![app] = id]
      /\ reply' = [NoReply EXCEPT !.op = "put", !.app = app, !.id = id]
  BY DEF Put
<1>2. Survivors(added, live) \subseteq DOMAIN added
  BY DEF Survivors
<1>3. \A a \in DOMAIN current' :
        /\ a \in DOMAIN current \cup {app}
        /\ current'[a] = IF a = app THEN id ELSE current[a]
  BY <1>1 DEF Restrict
<1>4. \A i \in DOMAIN snapshots' :
        /\ i \in DOMAIN snapshots \cup {id}
        /\ snapshots'[i].app = IF i = id THEN app ELSE snapshots[i].app
  <2>1. DOMAIN snapshots' = Survivors(added, live)
    BY <1>1 DEF Restrict
  <2>2. \A i \in DOMAIN snapshots' : snapshots'[i] = added[i]
    BY <1>1, <2>1 DEF Restrict
  <2> QED BY <1>2, <2>1, <2>2
<1>5. \A a \in DOMAIN current : current[a] # id
  BY DEF StoreInv, StoreTypeOK, Ids, NextId
<1>6. CurrentIsOwn'
  <2> SUFFICES ASSUME NEW a \in DOMAIN current'
               PROVE  /\ current'[a] = latest'[a]
                      /\ current'[a] \in DOMAIN snapshots' =>
                           snapshots'[current'[a]].app = a
    BY DEF CurrentIsOwn
  <2>1. latest'[a] = IF a = app THEN id ELSE latest[a]
    BY <1>1, <1>3 DEF StoreInv, StoreTypeOK
  <2>2. CASE a = app
    BY <1>3, <1>4, <2>1, <2>2
  <2>3. CASE a # app
    <3>1. a \in DOMAIN current /\ current'[a] = current[a] /\ current[a] # id
      BY <1>3, <1>5, <2>3
    <3>2. current[a] = latest[a]
      BY <3>1 DEF StoreInv, CurrentIsOwn
    <3>3. current[a] \in DOMAIN snapshots => snapshots[current[a]].app = a
      BY <3>1 DEF StoreInv, CurrentIsOwn
    <3> HIDE DEF id
    <3> QED BY <1>4, <2>1, <2>3, <3>1, <3>2, <3>3
  <2> QED BY <2>2, <2>3
<1>7. reply'.named = 0 /\ reply'.result = "none"
  BY <1>1 DEF NoReply
<1> QED BY <1>6, <1>7 DEF AnswersNameLatest

LEMMA GetInv ==
  ASSUME StoreInv, NEW app \in Apps, NEW id \in 0 .. issued, Get(app, id)
  PROVE  CurrentIsOwn' /\ AnswersNameLatest'
<1> USE DEF StoreInv
<1>1. CASE GetServed(app, id)
  BY <1>1, StoreAssumption DEF GetServed, Serves, IsCurrent, HasCurrent, Expired, CurrentIsOwn,
              AnswersNameLatest, StoreTypeOK, Snapshot
<1>2. CASE GetSuperseded(app, id)
  BY <1>2 DEF GetSuperseded, Refuse, HasCurrent, CurrentIsOwn, AnswersNameLatest,
              StoreTypeOK, Ids
<1>3. CASE GetLost(app, id)
  BY <1>3 DEF GetLost, Refuse, Restrict, CurrentIsOwn, AnswersNameLatest, StoreTypeOK
<1> QED BY <1>1, <1>2, <1>3 DEF Get

LEMMA StepInv == StoreInv /\ [StoreNext]_storeVars => StoreInv'
<1> SUFFICES ASSUME StoreInv, [StoreNext]_storeVars
             PROVE  CurrentIsOwn' /\ AnswersNameLatest'
  BY StepTyped DEF StoreInv
<1>1. ASSUME NEW app \in Apps, NEW view \in Views, Put(app, view)
      PROVE  CurrentIsOwn' /\ AnswersNameLatest'
  BY <1>1, PutInv
<1>2. ASSUME NEW app \in Apps, NEW id \in 0 .. issued, Get(app, id)
      PROVE  CurrentIsOwn' /\ AnswersNameLatest'
  BY <1>2, GetInv
<1>3. ASSUME NEW t \in Clocks, SetClock(t)
      PROVE  CurrentIsOwn' /\ AnswersNameLatest'
  BY <1>3 DEF SetClock, StoreInv, CurrentIsOwn, AnswersNameLatest
<1>4. CASE UNCHANGED storeVars
  BY <1>4 DEF storeVars, StoreInv, CurrentIsOwn, AnswersNameLatest
<1> QED BY <1>1, <1>2, <1>3, <1>4 DEF StoreNext

THEOREM StoreInvariant == StoreSpec => []StoreInv
BY InitInv, StepInv, PTL DEF StoreSpec

\* Whatever get answers, it answers about the app's most recent put.
THEOREM AnswersCorrect == StoreSpec => []AnswersNameLatest
<1>1. StoreInv => AnswersNameLatest
  BY DEF StoreInv
<1> QED BY <1>1, StoreInvariant, PTL

-----------------------------------------------------------------------------
(* What was just put can be got back. *)

\* As long as the clock never ran backwards, no snapshot is of a later time.
TimesPast == ~setBack => \A i \in DOMAIN snapshots : snapshots[i].at <= clock

NewestInv == StoreTypeOK /\ TimesPast /\ NewestSurvives

\* The new snapshot has not expired and none is newer, so _purge leaves it, and
\* with it the entry of its app.
LEMMA PutNewest ==
  ASSUME NewestInv, NEW app \in Apps, NEW view \in Views, Put(app, view)
  PROVE  TimesPast' /\ NewestSurvives'
<1> DEFINE id == NextId
           added == [i \in DOMAIN snapshots \cup {id} |->
                      IF i = id THEN [app |-> app, at |-> clock, view |-> view]
                                ELSE snapshots[i]]
           live == {i \in DOMAIN added : ~Expired(added[i].at)}
           named == [a \in DOMAIN current \cup {app} |->
                      IF a = app THEN id ELSE current[a]]
<1>1. /\ snapshots' = Restrict(added, Survivors(added, live))
      /\ current' = Restrict(named, {a \in DOMAIN named : named[a] \in live})
      /\ reply' = [NoReply EXCEPT !.op = "put", !.app = app, !.id = id]
      /\ issued' = id /\ UNCHANGED <<clock, setBack>>
  BY DEF Put, NextId
<1>2. issued \in Nat /\ id = issued + 1 /\ clock \in Nat
  BY DEF NewestInv, StoreTypeOK, NextId
<1>3. \A i \in DOMAIN snapshots : i \in 1 .. issued /\ snapshots[i].at \in Nat
  BY DEF NewestInv, StoreTypeOK, Ids, Snapshot
<1>4. /\ DOMAIN added = DOMAIN snapshots \cup {id} /\ added[id].at = clock
      /\ \A i \in DOMAIN snapshots : added[i] = snapshots[i]
  BY <1>2, <1>3
<1>5. id \in live
  BY <1>2, <1>4, StoreAssumption DEF Expired
<1>6. live \subseteq DOMAIN added /\ \A a \in DOMAIN named : a = app => named[a] = id
  OBVIOUS
<1>7. DOMAIN named = DOMAIN current \cup {app}
  OBVIOUS
<1>8. reply'.app = app /\ reply'.id = id
  BY <1>1 DEF NoReply
<1> HIDE DEF added, live, named, id
<1>9. TimesPast'
  <2> SUFFICES ASSUME ~setBack, NEW i \in DOMAIN snapshots' PROVE snapshots'[i].at <= clock
    BY <1>1 DEF TimesPast
  <2>1. i \in DOMAIN added /\ snapshots'[i] = added[i]
    BY <1>1, <1>6 DEF Restrict, Survivors
  <2>2. CASE i = id
    BY <1>2, <1>4, <2>1, <2>2
  <2>3. CASE i \in DOMAIN snapshots
    BY <1>4, <2>1, <2>3 DEF NewestInv, TimesPast
  <2> QED BY <1>4, <2>1, <2>2, <2>3
<1>10. NewestSurvives'
  <2> SUFFICES ASSUME ~setBack, MaxEntries > 0
               PROVE  app \in DOMAIN current' /\ current'[app] = id /\ id \in DOMAIN snapshots'
    BY <1>1, <1>8 DEF NewestSurvives, IsCurrent, HasCurrent
  <2>1. app \in DOMAIN current' /\ current'[app] = id
    BY <1>1, <1>5, <1>6, <1>7 DEF Restrict
  <2>2. {j \in live : Newer(added, j, id)} = {}
    <3> SUFFICES ASSUME NEW j \in live, Newer(added, j, id) PROVE FALSE
      OBVIOUS
    <3>1. CASE j = id
      BY <1>2, <1>4, <3>1 DEF Newer
    <3>2. CASE j \in DOMAIN snapshots
      BY <1>2, <1>3, <1>4, <3>2 DEF Newer, NewestInv, TimesPast
    <3> QED BY <1>4, <1>6, <3>1, <3>2
  <2>3. Cardinality({j \in live : Newer(added, j, id)}) = 0
    BY <2>2, FS_EmptySet
  <2>4. id \in Survivors(added, live)
    BY <1>5, <2>3 DEF Survivors
  <2>5. id \in DOMAIN snapshots'
    BY <1>1, <2>4 DEF Restrict
  <2> QED BY <2>1, <2>5
<1> QED BY <1>9, <1>10

LEMMA NewestStep == NewestInv /\ [StoreNext]_storeVars => NewestInv'
<1> SUFFICES ASSUME NewestInv, [StoreNext]_storeVars PROVE TimesPast' /\ NewestSurvives'
  BY StepTyped DEF NewestInv
<1>1. ASSUME NEW app \in Apps, NEW view \in Views, Put(app, view)
      PROVE  TimesPast' /\ NewestSurvives'
  BY <1>1, PutNewest
<1>2. ASSUME NEW app \in Apps, NEW id \in 0 .. issued, Get(app, id)
      PROVE  TimesPast' /\ NewestSurvives'
  <2>1. /\ reply'.op = "get" /\ UNCHANGED <<clock, setBack>>
        /\ DOMAIN snapshots' \subseteq DOMAIN snapshots
        /\ \A i \in DOMAIN snapshots' : snapshots'[i] = snapshots[i]
    BY <1>2 DEF Get, GetServed, GetSuperseded, GetLost, Refuse, Restrict
  <2> QED BY <2>1 DEF NewestInv, TimesPast, NewestSurvives
<1>3. ASSUME NEW t \in Clocks, SetClock(t) PROVE TimesPast' /\ NewestSurvives'
  <2>1. /\ UNCHANGED <<snapshots, current, issued, reply>> /\ clock' = t
        /\ setBack' = (setBack \/ t < clock) /\ t \in Nat /\ clock \in Nat
    BY <1>3, StoreAssumption DEF SetClock, Clocks, NewestInv, StoreTypeOK
  <2>2. \A i \in DOMAIN snapshots : snapshots[i].at \in Nat
    BY DEF NewestInv, StoreTypeOK, Snapshot
  <2>3. ~setBack' => ~setBack /\ ~(t < clock)
    BY <2>1, Zenon
  <2> QED BY <2>1, <2>2, <2>3 DEF NewestInv, TimesPast, NewestSurvives, IsCurrent, HasCurrent
<1>4. CASE UNCHANGED storeVars
  BY <1>4 DEF storeVars, NewestInv, TimesPast, NewestSurvives, IsCurrent, HasCurrent
<1> QED BY <1>1, <1>2, <1>3, <1>4 DEF StoreNext

\* A snapshot just put can be got back, as long as the clock never ran backwards
\* and there is room for one.
THEOREM NewestSurvivesHolds == StoreSpec => []NewestSurvives
<1>1. StoreInit => NewestInv
  BY InitTyped DEF StoreInit, NewestInv, TimesPast, NewestSurvives, NoReply
<1>2. NewestInv => NewestSurvives
  BY DEF NewestInv
<1> QED BY <1>1, <1>2, NewestStep, PTL DEF StoreSpec

-----------------------------------------------------------------------------
(* The store implements one plan per app. *)

LEMMA PlanInit == StoreInit => Plan!Init
<1> SUFFICES ASSUME StoreInit PROVE Plan!Init
  OBVIOUS
<1>1. DOMAIN current = {} /\ issued = 0 /\ reply = NoReply
  BY DEF StoreInit
<1> QED BY <1>1 DEF Plan!Init, PlanOf, HasCurrent, NoReply

\* Where an app's plan comes from after a put: it is the new snapshot, or the
\* old plan, or nothing.
LEMMA PutPlans ==
  ASSUME StoreInv, NEW app \in Apps, NEW view \in Views, Put(app, view),
         NEW a \in Apps
  PROVE  IF a = app THEN PlanOf(a)' \in {0, issued'}
                    ELSE PlanOf(a)' \in {0, PlanOf(a)}
<1> DEFINE id == NextId
           added == [i \in DOMAIN snapshots \cup {id} |->
                      IF i = id THEN [app |-> app, at |-> clock, view |-> view]
                                ELSE snapshots[i]]
           live == {i \in DOMAIN added : ~Expired(added[i].at)}
           named == [b \in DOMAIN current \cup {app} |->
                      IF b = app THEN id ELSE current[b]]
<1>1. /\ snapshots' = Restrict(added, Survivors(added, live))
      /\ current' = Restrict(named, {b \in DOMAIN named : named[b] \in live})
      /\ issued' = id
  BY DEF Put, NextId
<1>2. DOMAIN snapshots' \subseteq DOMAIN snapshots \cup {id}
  BY <1>1 DEF Restrict, Survivors
<1>3. \A b \in DOMAIN current' :
        /\ b \in DOMAIN current \cup {app}
        /\ current'[b] = IF b = app THEN id ELSE current[b]
  BY <1>1 DEF Restrict
<1>4. \A b \in DOMAIN current : current[b] # id
  BY DEF StoreInv, StoreTypeOK, Ids, NextId
<1> HIDE DEF id
<1> QED BY <1>1, <1>2, <1>3, <1>4 DEF PlanOf, HasCurrent

LEMMA PutObserves ==
  ASSUME StoreInv, NEW app \in Apps, NEW view \in Views, Put(app, view)
  PROVE  Plan!Observe(app)
<1>1. issued' = issued + 1 /\ reply'.result = "none" /\ issued \in Nat
  BY DEF Put, NoReply, StoreInv, StoreTypeOK
<1>2. \A a \in Apps : PlanOf(a)' \in 0 .. issued'
  <2> TAKE a \in Apps
  <2>1. PlanOf(a) \in 0 .. issued
    BY <1>1 DEF PlanOf, HasCurrent, StoreInv, StoreTypeOK, Ids
  <2> QED BY <1>1, <2>1, PutPlans
<1> QED BY <1>1, <1>2, PutPlans DEF Plan!Observe

LEMMA GetAnswers ==
  ASSUME StoreInv, NEW app \in Apps, NEW id \in 0 .. issued, Get(app, id)
  PROVE  Plan!Accept(app, id) \/ Plan!Reject(app, id)
<1>1. CASE GetServed(app, id)
  <2>1. id # 0 /\ PlanOf(app) = id
    BY <1>1 DEF GetServed, Serves, IsCurrent, HasCurrent, PlanOf, StoreInv, StoreTypeOK,
                Ids
  <2>2. UNCHANGED <<current, snapshots, issued>>
    BY <1>1 DEF GetServed
  <2>3. \A a \in Apps : PlanOf(a)' = PlanOf(a)
    BY <2>2 DEF PlanOf, HasCurrent
  <2>4. reply' = [op |-> "get", result |-> "served", app |-> app, id |-> id,
                  named |-> id, age |-> reply'.age]
    BY <1>1 DEF GetServed
  <2> QED BY <2>1, <2>2, <2>3, <2>4 DEF Plan!Accept
<1>2. CASE GetSuperseded(app, id)
  <2>1. /\ reply'.result = "stale" /\ reply'.app = app
        /\ reply'.named = IF HasCurrent(app) THEN current[app] ELSE 0
        /\ UNCHANGED <<current, snapshots, issued>>
    BY <1>2 DEF GetSuperseded, Refuse
  <2>2. \A a \in Apps : PlanOf(a)' = PlanOf(a)
    BY <2>1 DEF PlanOf, HasCurrent
  <2>3. PlanOf(app) = id => id = 0
    BY <1>2 DEF GetSuperseded, IsCurrent, HasCurrent, PlanOf
  <2>4. PlanOf(app) \in {0, reply'.named}
    BY <2>1 DEF PlanOf
  <2> QED BY <2>1, <2>2, <2>3, <2>4 DEF Plan!Reject
<1>3. CASE GetLost(app, id)
  <2>1. /\ reply'.result = "stale" /\ reply'.app = app /\ issued' = issued
        /\ current' = Restrict(current, DOMAIN current \ {app})
        /\ snapshots' = Restrict(snapshots, DOMAIN snapshots \ {id})
        /\ app \in DOMAIN current /\ current[app] = id
    BY <1>3 DEF GetLost, Refuse, IsCurrent, HasCurrent
  <2>2. PlanOf(app)' = 0
    BY <2>1 DEF PlanOf, HasCurrent, Restrict
  <2>3. PlanOf(app) \in {0, id}
    BY <2>1 DEF PlanOf, HasCurrent
  <2>4. ASSUME NEW a \in Apps, a # app PROVE PlanOf(a)' = PlanOf(a)
    <3>1. a \in DOMAIN current => current[a] # id \/ id \notin DOMAIN snapshots
      BY <2>1, <2>4 DEF StoreInv, CurrentIsOwn
    <3> QED BY <2>1, <2>4, <3>1 DEF PlanOf, HasCurrent, Restrict
  <2> QED BY <2>1, <2>2, <2>3, <2>4 DEF Plan!Reject
<1> QED BY <1>1, <1>2, <1>3 DEF Get

\* Every behaviour of the store is one in which each app has at most one plan
\* and a plan once refused, replaced or forgotten never returns.
THEOREM StoreImplementsFreshPlan == StoreSpec => PlanSpec
<1>1. ASSUME StoreInv, [StoreNext]_storeVars
      PROVE  [Plan!Next]_<<[app \in Apps |-> PlanOf(app)], issued, reply>>
  <2>1. ASSUME NEW app \in Apps, NEW view \in Views, Put(app, view) PROVE Plan!Next
    BY <1>1, <2>1, PutObserves DEF Plan!Next
  <2>2. ASSUME NEW app \in Apps, NEW id \in 0 .. issued, Get(app, id) PROVE Plan!Next
    BY <1>1, <2>2, GetAnswers DEF Plan!Next
  <2>3. ASSUME UNCHANGED <<snapshots, current, issued, reply>>
        PROVE  UNCHANGED <<[app \in Apps |-> PlanOf(app)], issued, reply>>
    BY <2>3 DEF PlanOf, HasCurrent
  <2>4. ASSUME NEW t \in Clocks, SetClock(t)
        PROVE  UNCHANGED <<snapshots, current, issued, reply>>
    BY <2>4 DEF SetClock
  <2>5. CASE UNCHANGED storeVars
    BY <2>5, <2>3 DEF storeVars
  <2> QED BY <1>1, <2>1, <2>2, <2>3, <2>4, <2>5 DEF StoreNext
<1> QED BY <1>1, PlanInit, StoreInvariant, PTL DEF StoreSpec, PlanSpec, Plan!Spec

Acting == call.pc \notin {"idle", "next", "done"}

-----------------------------------------------------------------------------
(* The facade: types, and what the place of a call says of it. *)

CallType ==
  [pc : Pcs, app : Apps \cup {NoPic}, id : Nat, commit : BOOLEAN, real : BOOLEAN,
   plan : AllViews \cup {NoView}, seen : AllViews \cup {NoView}, sends : 0 .. 2,
   moved : BOOLEAN]
BatchType ==
  [on : BOOLEAN, app : Apps \cup {NoPic}, id : 0 .. issued, left : Int,
   failFast : BOOLEAN, spoilt : BOOLEAN]
ResponseType == [code : Codes, id : 0 .. issued]

CallTyped ==
  /\ call \in CallType
  /\ Acting => call.app \in Apps
  /\ call.pc \in {"gate", "light", "send", "fallback", "refresh"} => call.plan \in AllViews
  /\ call.pc = "finish" => call.seen \in AllViews
  /\ call.pc \in {"gate", "light", "send"} => call.sends = 0
  /\ call.pc = "fallback" => call.sends <= 1

BatchTyped ==
  /\ batch \in BatchType
  /\ batch.on => batch.app \in Apps
  /\ call.pc = "next" => batch.on

\* The types of the facade's state: the plan an act compares with and the
\* reading it stores are readings of windows, and at most one input was sent
\* before a fallback.
StateTyped ==
  /\ desk \in [Apps -> Screens] /\ overlay \in {"off", "lit", "adrift"}
  /\ CallTyped /\ BatchTyped
  /\ response \in ResponseType
FacadeTypeOK == StoreTypeOK /\ StateTyped

LEMMA ReadingTyped ==
  ASSUME desk \in [Apps -> Screens],
         NEW app \in Apps, NEW budget \in Budgets, NEW glowing \in Glowing, NEW decoded \in BOOLEAN
  PROVE  Reading(app, budget, glowing, decoded) \in Views
<1>1. glowing \in BOOLEAN
  BY Zenon DEF Glowing
<1> QED BY <1>1, FacadeAssumption, ViewsAssumption DEF Reading, Screens, AllViews

LEMMA PutIssues ==
  ASSUME NEW app, NEW view, Put(app, view)
  PROVE  issued' = issued + 1
BY DEF Put

\* A call of get hands out no id, and a refusal names an id handed out before.
LEMMA GetNames ==
  ASSUME StoreTypeOK, NEW app \in Apps, NEW id \in 0 .. issued, Get(app, id)
  PROVE  /\ issued' = issued /\ reply'.named \in 0 .. issued
         /\ Serves(app, id) => snapshots[id].view \in Views
<1>1. issued' = issued
  BY DEF Get, GetServed, GetSuperseded, GetLost, Refuse
<1>2. reply'.named \in 0 .. issued
  BY DEF Get, GetServed, GetSuperseded, GetLost, Refuse, HasCurrent, StoreTypeOK, Ids
<1>3. Serves(app, id) => snapshots[id].view \in Views
  BY DEF Serves, StoreTypeOK, Snapshot
<1> QED BY <1>1, <1>2, <1>3

-----------------------------------------------------------------------------
(* The facade works on the store through the store's operations alone. *)

LEMMA NextIsStoreStep ==
  ASSUME FacadeTypeOK, [Next]_vars
  PROVE  [StoreNext]_storeVars
<1> USE DEF FacadeTypeOK, StateTyped
<1>1. ASSUME NEW app \in Apps, NEW budget \in Budgets, NEW glowing \in Glowing,
             NEW decoded \in BOOLEAN, Observe(app, budget, glowing, decoded)
      PROVE  StoreNext
  BY <1>1, ReadingTyped DEF Observe, StoreNext
<1>2. ASSUME NEW app \in Apps, NEW id \in 0 .. issued, NEW commit, NEW real,
             Begin(app, id, commit, real)
      PROVE  [StoreNext]_storeVars
  BY <1>2 DEF Begin, StoreNext
<1>3. ASSUME NEW glowing \in Glowing, NEW decoded \in BOOLEAN, GateRead(glowing, decoded)
      PROVE  [StoreNext]_storeVars
  <2>1. call.app \in Apps /\ call.plan.budget \in Budgets
    BY <1>3 DEF GateRead, CallTyped, Acting, AllViews
  <2>2. Reading(call.app, GateBudget(call.plan), glowing, decoded) \in Views
    BY <2>1, ReadingTyped DEF GateBudget
  <2> QED BY <1>3, <2>1, <2>2 DEF GateRead, StoreNext
<1>4. ASSUME Finish PROVE StoreNext
  BY <1>4, ViewsAssumption DEF Finish, CallTyped, Acting, StoreNext
<1>5. ASSUME TimePasses PROVE StoreNext
  BY <1>5, StoreAssumption DEF TimePasses, StoreNext, StoreTypeOK, Clocks
<1>6. ASSUME FacadeStep PROVE [StoreNext]_storeVars
  <2>1. ASSUME NEW commit \in BOOLEAN, NEW real \in BOOLEAN, BatchStep(commit, real)
        PROVE  [StoreNext]_storeVars
    BY <1>2, <2>1 DEF BatchStep, BatchTyped, BatchType
  <2>2. CASE GateFails \/ LightUp \/ LightUpFails \/ FinishFails \/ Fail \/ Return
    BY <2>2 DEF GateFails, LightUp, LightUpFails, FinishFails, Fail, Return
  <2>3. CASE SendPlain \/ SendReal \/ Fallback \/ RefreshFails
    BY <2>3 DEF SendPlain, SendReal, Fallback, Deliver, RefreshFails
  <2>4. CASE BatchAdvance \/ BatchEnd
    BY <2>4 DEF BatchAdvance, BatchEnd
  <2>5. CASE \E glowing \in Glowing, decoded \in BOOLEAN : RefreshRead(glowing, decoded)
    BY <2>5 DEF RefreshRead
  <2> HIDE DEF FacadeTypeOK, StateTyped
  <2> QED
    BY <1>3, <1>4, <1>6, <2>1, <2>2, <2>3, <2>4, <2>5 DEF FacadeStep
<1>7. ASSUME NEW app \in Apps, NEW id \in 0 .. issued, NEW commit \in BOOLEAN,
             NEW real \in BOOLEAN, Act(app, id, commit, real)
      PROVE  [StoreNext]_storeVars
  BY <1>2, <1>7 DEF Act
<1>8. ASSUME NEW app \in Apps, NEW id \in 0 .. issued, NEW failFast \in BOOLEAN,
             NEW length \in BatchLengths, NEW limit \in BatchLimits,
             BatchCall(app, id, length, limit, failFast)
      PROVE  UNCHANGED storeVars
  BY <1>8 DEF BatchCall
<1>9. ASSUME NEW app \in Apps, NEW screen \in Screens, DesktopChange(app, screen)
      PROVE  UNCHANGED storeVars
  BY <1>9 DEF DesktopChange
<1>10. CASE UNCHANGED vars
  BY <1>10 DEF vars
<1> HIDE DEF FacadeTypeOK, StateTyped
<1> QED
  BY <1>1, <1>5, <1>6, <1>7, <1>8, <1>9, <1>10 DEF Next

-----------------------------------------------------------------------------
(* Every step keeps the types. *)

LEMMA InitTypes == Init => FacadeTypeOK
<1> SUFFICES ASSUME Init PROVE FacadeTypeOK
  OBVIOUS
<1>1. StoreTypeOK /\ issued = 0
  BY InitTyped DEF Init, StoreInit
<1>2. CallTyped
  BY DEF Init, NoCall, CallTyped, CallType, Acting, Pcs
<1>3. BatchTyped
  BY <1>1 DEF Init, NoCall, NoBatch, BatchTyped, BatchType
<1>4. response \in ResponseType
  BY <1>1 DEF Init, NoResponse, ResponseType, Codes
<1> QED BY <1>1, <1>2, <1>3, <1>4 DEF Init, FacadeTypeOK, StateTyped

\* Ids are never taken back, so what is typed stays typed.
LEMMA IssuedGrows ==
  ASSUME FacadeTypeOK, [Next]_vars
  PROVE  StoreTypeOK' /\ issued \in Nat /\ issued' \in Nat /\ issued <= issued'
<1>1. StoreTypeOK /\ [StoreNext]_storeVars
  BY NextIsStoreStep DEF FacadeTypeOK
<1>2. StoreTypeOK' /\ issued \in Nat /\ issued' \in Nat
  BY <1>1, StepTyped DEF StoreTypeOK
<1>3. CASE UNCHANGED storeVars
  BY <1>2, <1>3 DEF storeVars
<1>4. CASE StoreNext
  <2>1. ASSUME NEW app \in Apps, NEW view \in Views, Put(app, view) PROVE issued <= issued'
    BY <1>2, <2>1, PutIssues
  <2>2. ASSUME NEW app \in Apps, NEW id \in 0 .. issued, Get(app, id) PROVE issued <= issued'
    BY <1>1, <1>2, <2>2, GetNames
  <2>3. ASSUME NEW t \in Clocks, SetClock(t) PROVE issued <= issued'
    BY <1>2, <2>3 DEF SetClock
  <2> QED BY <1>2, <1>4, <2>1, <2>2, <2>3 DEF StoreNext
<1> QED BY <1>1, <1>2, <1>3, <1>4

LEMMA AnsweredTyped == Answered \in CallType /\ Answered.pc = "done"
<1>1. NoCall \in CallType
  BY DEF NoCall, CallType, Pcs
<1>2. ASSUME NEW c \in CallType
      PROVE  [c EXCEPT !.pc = "done"] \in CallType /\ [c EXCEPT !.pc = "done"].pc = "done"
  BY DEF CallType, Pcs
<1> QED BY <1>1, <1>2 DEF Answered

\* The act answers.
LEMMA RespondTyped ==
  ASSUME FacadeTypeOK, issued \in Nat, issued' \in Nat, issued <= issued',
         NEW code \in Codes, NEW id \in 0 .. issued', Respond(code, id), UNCHANGED batch
  PROVE  CallTyped' /\ BatchTyped' /\ response' \in ResponseType'
<1>1. call' \in CallType /\ call'.pc = "done"
  BY AnsweredTyped DEF Respond
<1>2. response' \in ResponseType'
  BY DEF Respond, ResponseType
<1> QED
  BY <1>1, <1>2 DEF FacadeTypeOK, StateTyped, CallTyped, BatchTyped, BatchType, Acting

LEMMA LoggedTyped ==
  ASSUME NEW code \in Codes, NEW id \in Nat, NEW n \in Nat, id <= n, NEW answer \in Logged(code, id)
  PROVE  answer.code \in Codes /\ answer.id \in 0 .. n /\ answer = [code |-> answer.code, id |-> answer.id]
BY DEF Logged, Codes

LEMMA ErrorCodeTyped == \A commit : ErrorCode(commit) \in Codes
BY DEF ErrorCode, Codes

\* An act is let in or refused, alone or in a batch.
LEMMA BeginTyped ==
  ASSUME FacadeTypeOK, NEW app \in Apps, NEW id \in 0 .. issued,
         NEW commit \in BOOLEAN, NEW real \in BOOLEAN, Begin(app, id, commit, real)
  PROVE  /\ CallTyped' /\ issued' = issued /\ response' \in ResponseType
         /\ call'.pc \in {"gate", "done"}
<1>0. issued \in Nat
  BY DEF FacadeTypeOK, StoreTypeOK
<1>1. issued' = issued
  BY GetNames DEF Begin, FacadeTypeOK, storeVars
<1>2. ASSUME Serves(app, id), Get(app, id), response' = NoResponse,
             call' = [NoCall EXCEPT !.app = app, !.id = id, !.commit = commit, !.real = real,
                                    !.pc = "gate", !.plan = snapshots[id].view]
      PROVE  CallTyped' /\ response' \in ResponseType /\ call'.pc = "gate"
  <2>1. snapshots[id].view \in AllViews
    BY <1>2, GetNames, ViewsAssumption DEF FacadeTypeOK
  <2>2. id \in Nat
    BY <1>0
  <2>3. call' = [pc |-> "gate", app |-> app, id |-> id, commit |-> commit, real |-> real,
                 plan |-> snapshots[id].view, seen |-> NoView, sends |-> 0, moved |-> FALSE]
    BY <1>2 DEF NoCall
  <2>4. call' \in CallType /\ call'.pc = "gate" /\ call'.app \in Apps /\ call'.plan \in AllViews
        /\ call'.sends = 0
    BY <2>1, <2>2, <2>3 DEF CallType, Pcs
  <2>5. response' \in ResponseType
    BY <1>0, <1>2 DEF NoResponse, ResponseType, Codes
  <2> QED BY <2>4, <2>5 DEF CallTyped
<1>3. ASSUME call' = Answered PROVE CallTyped' /\ call'.pc = "done"
  BY <1>3, AnsweredTyped DEF CallTyped, Acting
<1>4. ASSUME Get(app, id), response' \in Logged("STALE_STATE", reply'.named)
      PROVE  response' \in ResponseType
  <2>1. reply'.named \in 0 .. issued
    BY <1>4, GetNames DEF FacadeTypeOK
  <2> QED BY <1>0, <1>4, <2>1 DEF Logged, ResponseType, Codes
<1>5. [code |-> "INVALID", id |-> 0] \in ResponseType
  BY <1>0 DEF ResponseType, Codes
<1> QED BY <1>1, <1>2, <1>3, <1>4, <1>5 DEF Begin

LEMMA NextCallTyped ==
  [NoCall EXCEPT !.pc = "next"] \in CallType /\ [NoCall EXCEPT !.pc = "next"].pc = "next"
<1>1. NoCall \in CallType
  BY DEF NoCall, CallType, Pcs
<1>2. ASSUME NEW c \in CallType
      PROVE  [c EXCEPT !.pc = "next"] \in CallType /\ [c EXCEPT !.pc = "next"].pc = "next"
  BY DEF CallType, Pcs
<1> QED BY <1>1, <1>2

LEMMA TypesKept ==
  ASSUME FacadeTypeOK, [Next]_vars
  PROVE  FacadeTypeOK'
<1>1. StoreTypeOK' /\ issued \in Nat /\ issued' \in Nat /\ issued <= issued'
  BY IssuedGrows
<1>2. /\ desk \in [Apps -> Screens] /\ overlay \in {"off", "lit", "adrift"}
      /\ CallTyped /\ BatchTyped /\ response \in ResponseType
  BY DEF FacadeTypeOK, StateTyped
<1> SUFFICES StateTyped'
  BY <1>1 DEF FacadeTypeOK
\* What a step leaves alone stays typed.
<1>3. UNCHANGED response => response' \in ResponseType'
  BY <1>1, <1>2 DEF ResponseType
<1>4. (UNCHANGED batch /\ call'.pc # "next") => BatchTyped'
  BY <1>1, <1>2 DEF BatchTyped, BatchType
<1>6. CASE GateFails
  <2>1. PICK code \in {ErrorCode(call.commit), "EXCEPTION"} : Respond(code, 0)
    BY <1>6 DEF GateFails
  <2>2. code \in Codes /\ 0 \in 0 .. issued'
    BY <1>1, ErrorCodeTyped DEF Codes
  <2> QED BY <1>1, <1>2, <1>6, <2>1, <2>2, RespondTyped DEF GateFails, StateTyped
<1>7. ASSUME NEW glowing \in Glowing, NEW decoded \in BOOLEAN, GateRead(glowing, decoded)
      PROVE  StateTyped'
  <2> DEFINE gate == Reading(call.app, GateBudget(call.plan), glowing, decoded)
  <2>1. CASE Changed(call.plan, gate)
    <3>1. PICK answer \in Logged("STALE_STATE", issued') : Respond(answer.code, answer.id)
      BY <1>7, <2>1 DEF GateRead
    <3>2. answer.code \in Codes /\ answer.id \in 0 .. issued'
      BY <1>1, <3>1 DEF Logged, Codes
    <3> QED BY <1>1, <1>2, <1>7, <3>1, <3>2, RespondTyped DEF GateRead, StateTyped
  <2>2. CASE ~Changed(call.plan, gate)
    <3>1. gate \in AllViews
      BY <1>2, <1>7, ReadingTyped, ViewsAssumption DEF GateRead, GateBudget, CallTyped, Acting, AllViews
    <3>2. call' = [call EXCEPT !.pc = "light", !.seen = gate] /\ call.pc = "gate"
      BY <1>7, <2>2 DEF GateRead
    <3>3. CallTyped'
      BY <1>2, <3>1, <3>2 DEF CallTyped, CallType, Acting, Pcs
    <3>4. call'.pc # "next"
      BY <1>2, <3>2 DEF CallTyped, CallType
    <3> QED BY <1>2, <1>3, <1>4, <1>7, <2>2, <3>3, <3>4 DEF GateRead, StateTyped
  <2> QED BY <2>1, <2>2
<1>8. CASE LightUp
  <2>1. CallTyped' /\ call'.pc # "next" /\ overlay' \in {"off", "lit", "adrift"}
    BY <1>2, <1>8 DEF LightUp, CallTyped, CallType, Acting, Pcs
  <2> QED BY <1>2, <1>3, <1>4, <1>8, <2>1 DEF LightUp, StateTyped
<1>9. CASE LightUpFails
  <2>1. CallTyped' /\ BatchTyped' /\ response' \in ResponseType'
    BY <1>1, <1>9, RespondTyped DEF LightUpFails, Codes
  <2> QED BY <1>2, <1>9, <2>1 DEF LightUpFails, StateTyped
<1>10. ASSUME NEW n \in {0, 1}, NEW pc \in {"refresh", "fallback", "fail"}, Deliver(n, pc),
              call.pc \in {"send", "fallback"}, call.pc = "fallback" => pc # "fallback"
       PROVE  StateTyped'
  <2>1. call' = [call EXCEPT !.pc = pc, !.sends = @ + n, !.seen = NoView,
                             !.real = FALSE, !.moved = FALSE]
    BY <1>10 DEF Deliver
  <2>4. /\ call \in CallType /\ call.app \in Apps /\ call.plan \in AllViews
        /\ call.sends \in 0 .. 1 /\ (call.pc = "send" => call.sends = 0)
    BY <1>2, <1>10 DEF CallTyped, CallType, Acting
  <2>5. call.sends + n \in 0 .. 2 /\ (pc = "fallback" => call.sends + n <= 1)
    BY <1>10, <2>4
  <2>6. call' \in CallType
    BY <2>1, <2>4, <2>5 DEF CallType, Pcs
  <2>7. /\ call'.pc = pc /\ call'.app = call.app /\ call'.plan = call.plan
        /\ call'.sends = call.sends + n
    BY <2>1, <2>4 DEF CallType
  <2>2. CallTyped' /\ call'.pc # "next"
    BY <2>4, <2>5, <2>6, <2>7 DEF CallTyped, Acting
  <2>3. desk' \in [Apps -> Screens]
    BY <1>2, <1>10 DEF Deliver
  <2> QED BY <1>2, <1>3, <1>4, <1>10, <2>2, <2>3 DEF Deliver, StateTyped
<1>11. CASE SendPlain \/ SendReal \/ Fallback
  BY <1>10, <1>11 DEF SendPlain, SendReal, Fallback
<1>12. ASSUME NEW glowing \in Glowing, NEW decoded \in BOOLEAN, RefreshRead(glowing, decoded)
       PROVE  StateTyped'
  <2> DEFINE after == Reading(call.app, GateBudget(call.plan), glowing, decoded)
  <2>1. after \in AllViews
    BY <1>2, <1>12, ReadingTyped, ViewsAssumption DEF RefreshRead, GateBudget, CallTyped, Acting, AllViews
  <2>2. call' = [call EXCEPT !.pc = "finish", !.plan = NoView, !.moved = FALSE, !.seen = after]
    BY <1>12 DEF RefreshRead
  <2> HIDE DEF after
  <2>3. CallTyped' /\ call'.pc # "next"
    BY <1>2, <1>12, <2>1, <2>2 DEF RefreshRead, CallTyped, CallType, Acting, Pcs
  <2> QED BY <1>2, <1>3, <1>4, <1>12, <2>3 DEF RefreshRead, StateTyped
<1>13. CASE RefreshFails
  <2>1. CallTyped' /\ call'.pc # "next"
    BY <1>2, <1>13 DEF RefreshFails, CallTyped, CallType, Acting, Pcs
  <2> QED BY <1>2, <1>3, <1>4, <1>13, <2>1 DEF RefreshFails, StateTyped
<1>14. CASE Finish
  <2>1. PICK answer \in Logged("ok", issued') : Respond(answer.code, answer.id)
    BY <1>14 DEF Finish
  <2>2. answer.code \in Codes /\ answer.id \in 0 .. issued'
    BY <1>1, <2>1 DEF Logged, Codes
  <2> QED BY <1>1, <1>2, <1>14, <2>1, <2>2, RespondTyped DEF Finish, PutOut, StateTyped
<1>15. CASE FinishFails
  <2>1. CallTyped' /\ BatchTyped' /\ response' \in ResponseType'
    BY <1>1, <1>15, RespondTyped DEF FinishFails, Codes
  <2> QED BY <1>2, <1>15, <2>1 DEF FinishFails, PutOut, StateTyped
<1>16. CASE Fail
  <2>1. PICK code \in {ErrorCode(call.commit), "EXCEPTION"} : Respond(code, 0)
    BY <1>16 DEF Fail
  <2>2. code \in Codes /\ 0 \in 0 .. issued'
    BY <1>1, ErrorCodeTyped DEF Codes
  <2> QED BY <1>1, <1>2, <1>16, <2>1, <2>2, RespondTyped DEF Fail, PutOut, StateTyped
\* No call is left, or a batch that goes on.
<1>17. call' = NoCall => CallTyped' /\ call'.pc = "idle"
  BY DEF NoCall, CallTyped, CallType, Acting, Pcs
<1>18. call' = [NoCall EXCEPT !.pc = "next"] => CallTyped' /\ call'.pc = "next"
  <2> SUFFICES ASSUME call' = [NoCall EXCEPT !.pc = "next"] PROVE CallTyped' /\ call'.pc = "next"
    OBVIOUS
  <2>1. call' \in CallType /\ call'.pc = "next"
    BY NextCallTyped
  <2> QED BY <2>1 DEF CallTyped, Acting
<1>19. response' = NoResponse => response' \in ResponseType'
  BY <1>1 DEF NoResponse, ResponseType, Codes
<1>20. (batch' = NoBatch /\ call'.pc # "next") => BatchTyped'
  BY <1>1 DEF NoBatch, BatchTyped, BatchType
<1>21. CASE Return
  BY <1>2, <1>4, <1>17, <1>19, <1>21 DEF Return, StateTyped
<1>22. ASSUME NEW commit \in BOOLEAN, NEW real \in BOOLEAN, BatchStep(commit, real)
       PROVE  StateTyped'
  <2>1. batch.app \in Apps /\ batch.id \in 0 .. issued
    BY <1>2, <1>22 DEF BatchStep, BatchTyped, BatchType
  <2>2. /\ CallTyped' /\ issued' = issued /\ response' \in ResponseType
        /\ call'.pc \in {"gate", "done"}
    BY <1>22, <2>1, BeginTyped DEF BatchStep
  <2>3. BatchTyped' /\ response' \in ResponseType'
    BY <1>2, <1>22, <2>2 DEF BatchStep, BatchTyped, BatchType, ResponseType
  <2> QED BY <1>2, <1>22, <2>2, <2>3 DEF BatchStep, StateTyped
<1>23. CASE BatchAdvance
  <2>1. CallTyped'
    BY <1>17, <1>18, <1>23 DEF BatchAdvance
  <2>2. NextPlan \in 0 .. issued'
    BY <1>1, <1>2 DEF NextPlan, ResponseType, BatchTyped, BatchType
  <2>3. BatchTyped'
    <3>1. CASE batch' = NoBatch /\ call' = NoCall
      BY <1>17, <1>20, <3>1
    <3>2. ASSUME NEW spoils \in BOOLEAN,
                 batch' = [batch EXCEPT !.id = NextPlan, !.spoilt = @ \/ spoils]
          PROVE  BatchTyped'
      BY <1>1, <1>2, <1>23, <2>2, <3>2 DEF BatchAdvance, BatchTyped, BatchType
    <3>3. \/ batch' = NoBatch /\ call' = NoCall
          \/ \E spoils \in BOOLEAN :
               batch' = [batch EXCEPT !.id = NextPlan, !.spoilt = @ \/ spoils]
      BY <1>23, Zenon DEF BatchAdvance
    <3> QED BY <3>1, <3>2, <3>3, Zenon
  <2> QED BY <1>2, <1>19, <1>23, <2>1, <2>3 DEF BatchAdvance, StateTyped
<1>24. CASE BatchEnd
  BY <1>2, <1>3, <1>17, <1>20, <1>24 DEF BatchEnd, StateTyped
<1>25. ASSUME NEW app \in Apps, NEW id \in 0 .. issued, NEW commit \in BOOLEAN,
              NEW real \in BOOLEAN, Act(app, id, commit, real)
       PROVE  StateTyped'
  <2>1. /\ CallTyped' /\ issued' = issued /\ response' \in ResponseType
        /\ call'.pc \in {"gate", "done"}
    BY <1>25, BeginTyped DEF Act
  <2>2. response' \in ResponseType'
    BY <2>1 DEF ResponseType
  <2> QED BY <1>2, <1>4, <1>25, <2>1, <2>2 DEF Act, StateTyped
<1>26. ASSUME NEW app \in Apps, NEW id \in 0 .. issued, NEW failFast \in BOOLEAN,
              NEW length \in BatchLengths, NEW limit \in BatchLimits,
              BatchCall(app, id, length, limit, failFast)
       PROVE  StateTyped'
  <2>1. length \in Nat /\ limit \in Int
    BY FacadeAssumption
  <2>2. Steps(length, limit) \in Int
    BY <2>1 DEF Steps, SliceLength, Least
  <2>3. batch' = [on |-> TRUE, app |-> app, id |-> id, left |-> Steps(length, limit),
                  failFast |-> failFast, spoilt |-> FALSE]
    BY <1>26 DEF BatchCall, NoBatch
  <2>4. BatchTyped'
    BY <1>1, <2>2, <2>3 DEF BatchTyped, BatchType
  <2> QED BY <1>2, <1>3, <1>18, <1>26, <2>4 DEF BatchCall, StateTyped
<1>27. ASSUME NEW app \in Apps, NEW screen \in Screens, DesktopChange(app, screen)
       PROVE  StateTyped'
  <2>1. CallTyped' /\ call'.pc = call.pc
    BY <1>2, <1>27 DEF DesktopChange, CallTyped, CallType, Acting, Pcs
  <2>2. BatchTyped'
    BY <1>1, <1>2, <1>27, <2>1 DEF DesktopChange, BatchTyped, BatchType
  <2>3. desk' \in [Apps -> Screens]
    BY <1>2, <1>27 DEF DesktopChange
  <2> QED BY <1>2, <1>3, <1>27, <2>1, <2>2, <2>3 DEF DesktopChange, StateTyped
<1>28. CASE UNCHANGED facadeVars
  <2>1. CallTyped' /\ BatchTyped'
    BY <1>1, <1>2, <1>28 DEF facadeVars, CallTyped, Acting, BatchTyped, BatchType
  <2> QED BY <1>2, <1>3, <1>28, <2>1 DEF facadeVars, StateTyped
<1>29. CASE FacadeStep
  BY <1>6, <1>7, <1>8, <1>9, <1>11, <1>12, <1>13, <1>14, <1>15, <1>16, <1>21, <1>22, <1>23,
     <1>24, <1>29 DEF FacadeStep
<1> QED
  BY <1>25, <1>26, <1>27, <1>28, <1>29 DEF Next, Observe, TimePasses, vars

\* The facade's state keeps its types.
THEOREM FacadeTypesHold == Spec => []FacadeTypeOK
BY InitTypes, TypesKept, PTL DEF Spec

-----------------------------------------------------------------------------
(* The store's behaviour, and with it all that is proved of the store. *)

\* Observing, acting and batches go through put and get of the store alone.
THEOREM StoreBehaviourHolds == Spec => StoreBehaviour
<1>1. Init => StoreInit
  BY DEF Init
<1>2. FacadeTypeOK /\ [Next]_vars => [StoreNext]_storeVars
  BY NextIsStoreStep
<1> QED BY <1>1, <1>2, FacadeTypesHold, PTL DEF Spec, StoreBehaviour, StoreSpec

\* Whatever acts, batches and failures lie between, the store answers an act
\* about the most recent snapshot of its app.
THEOREM FacadeAnswersCorrect == Spec => []AnswersNameLatest
BY StoreBehaviourHolds, AnswersCorrect, PTL DEF StoreBehaviour

\* What the facade has just put can be got back, whatever acts and batches do
\* between (server.py, every put; state/store.py, _purge).
THEOREM FacadeNewestSurvives == Spec => []NewestSurvives
BY StoreBehaviourHolds, NewestSurvivesHolds, PTL DEF StoreBehaviour

\* Over its store the facade gives every app one plan at a time (module FreshPlan).
THEOREM FacadeImplementsFreshPlan == Spec => PlanSpec
BY StoreBehaviourHolds, StoreImplementsFreshPlan, PTL DEF StoreBehaviour

-----------------------------------------------------------------------------
(* The overlay. *)

\* Until a wait of the overlay ran out, the glow is on only while an act is
\* carried out; and an act has no answer before it is done.
GlowsOnlyWhileActing ==
  /\ overlay = "lit" => call.pc \in {"send", "fallback", "refresh", "finish", "fail"}
  /\ call.pc # "done" => response.code = "none"

LEMMA GlowKept ==
  ASSUME FacadeTypeOK, GlowsOnlyWhileActing, [Next]_vars
  PROVE  GlowsOnlyWhileActing'
<1>0. call \in CallType /\ NoResponse.code = "none"
  BY DEF FacadeTypeOK, StateTyped, CallTyped, NoResponse
\* The act goes on and the overlay stays.
<1>1. ASSUME call.pc \in {"gate", "send", "fallback", "refresh"},
             call'.pc \in {"light", "fallback", "refresh", "finish", "fail"},
             call'.pc = "light" => call.pc = "gate",
             UNCHANGED <<overlay, response>>
      PROVE  GlowsOnlyWhileActing'
  BY <1>1 DEF GlowsOnlyWhileActing
<1>2. ASSUME NEW code, NEW id, Respond(code, id),
             overlay' = "lit" => overlay' = overlay /\ call.pc \in {"gate", "light"}
      PROVE  GlowsOnlyWhileActing'
  BY <1>2 DEF GlowsOnlyWhileActing, Respond, Answered, NoCall
<1>3. CASE GateFails \/ LightUpFails \/ Finish \/ FinishFails \/ Fail
  BY <1>2, <1>3 DEF GateFails, LightUpFails, Finish, FinishFails, Fail, PutOut
<1>4. CASE LightUp
  BY <1>0, <1>4 DEF LightUp, GlowsOnlyWhileActing, CallType
<1>5. ASSUME NEW glowing, NEW decoded, GateRead(glowing, decoded)
      PROVE  GlowsOnlyWhileActing'
  BY <1>0, <1>1, <1>2, <1>5 DEF GateRead, CallType
<1>6. CASE SendPlain \/ SendReal \/ Fallback
  <2>1. ASSUME NEW n, NEW pc \in {"refresh", "fallback", "fail"}, Deliver(n, pc),
               call.pc \in {"send", "fallback"}
        PROVE  GlowsOnlyWhileActing'
    BY <1>0, <1>1, <2>1 DEF Deliver, CallType
  <2> QED BY <1>6, <2>1 DEF SendPlain, SendReal, Fallback
<1>7. ASSUME NEW glowing, NEW decoded, RefreshRead(glowing, decoded)
      PROVE  GlowsOnlyWhileActing'
  BY <1>0, <1>1, <1>7 DEF RefreshRead, CallType
<1>8. CASE RefreshFails
  BY <1>0, <1>1, <1>8 DEF RefreshFails, CallType
\* Between two acts the glow is off.
<1>9. ASSUME call.pc \in {"idle", "next", "done"}, overlay' = overlay,
             call'.pc # "done" => response'.code = "none"
      PROVE  GlowsOnlyWhileActing'
  BY <1>9 DEF GlowsOnlyWhileActing
<1>10. CASE Return \/ BatchAdvance
  BY <1>0, <1>9, <1>10 DEF Return, BatchAdvance
<1>11. CASE BatchEnd
  BY <1>9, <1>11 DEF BatchEnd, GlowsOnlyWhileActing
<1>12. ASSUME NEW app, NEW id, NEW length, NEW limit, NEW failFast,
              BatchCall(app, id, length, limit, failFast)
       PROVE  GlowsOnlyWhileActing'
  BY <1>9, <1>12 DEF BatchCall, GlowsOnlyWhileActing
<1>13. ASSUME NEW app, NEW id, NEW commit, NEW real, Begin(app, id, commit, real),
              call.pc \in {"idle", "next"}, overlay' = overlay
       PROVE  GlowsOnlyWhileActing'
  BY <1>0, <1>9, <1>13 DEF Begin, Answered, NoCall
<1>14. ASSUME NEW app, NEW screen, DesktopChange(app, screen)
       PROVE  GlowsOnlyWhileActing'
  BY <1>0, <1>14 DEF DesktopChange, GlowsOnlyWhileActing, CallType
<1>15. CASE UNCHANGED facadeVars
  BY <1>15 DEF facadeVars, GlowsOnlyWhileActing
<1>16. CASE FacadeStep
  BY <1>3, <1>4, <1>5, <1>6, <1>7, <1>8, <1>10, <1>11, <1>13, <1>16 DEF FacadeStep, BatchStep
<1> QED BY <1>12, <1>13, <1>14, <1>15, <1>16 DEF Next, Act, Observe, TimePasses, vars

\* A gate read without the glow that differs from a plan without it shows that
\* the window differs: the tree is cut at the plan's own budget.
LEMMA RefusalSeesChange ==
  ASSUME FacadeTypeOK, GlowsOnlyWhileActing, [Next]_vars, call.pc = "gate",
         response'.code = "STALE_STATE", overlay # "adrift", ~call.plan.glow
  PROVE  desk[call.app].tree # call.plan.tree \/ desk[call.app].pic # call.plan.pic
<1>1. /\ call.plan \in AllViews /\ overlay = "off" /\ response.code = "none"
      /\ Glowing = {FALSE}
  BY DEF FacadeTypeOK, StateTyped, CallTyped, GlowsOnlyWhileActing, Glowing
<1>2. ASSUME NEW decoded \in BOOLEAN, GateRead(FALSE, decoded)
      PROVE  desk[call.app].tree # call.plan.tree \/ desk[call.app].pic # call.plan.pic
  <2> DEFINE gate == Reading(call.app, GateBudget(call.plan), FALSE, decoded)
  <2>1. Changed(call.plan, gate)
    <3>1. CASE ~Changed(call.plan, gate)
      BY <1>1, <1>2, <3>1 DEF GateRead
    <3> QED BY <3>1
  <2>2. /\ gate.tree = desk[call.app].tree /\ gate.budget = call.plan.budget
        /\ gate.pic # NoPic => gate.pic = desk[call.app].pic
        /\ gate.glow = FALSE /\ call.plan.glow = FALSE
    BY <1>1 DEF Reading, GateBudget, AllViews
  <2> QED BY <2>1, <2>2 DEF Changed, TreeChanged, PictureChanged
<1>3. CASE GateFails
  BY <1>3 DEF GateFails, Respond, ErrorCode
<1>4. CASE UNCHANGED response
  BY <1>1, <1>4
<1>5. CASE FacadeStep
  BY <1>1, <1>2, <1>3, <1>5 DEF FacadeStep, LightUp, LightUpFails, SendPlain, SendReal, Fallback,
     RefreshRead, RefreshFails, Finish, FinishFails, Fail, Return, BatchStep, BatchAdvance, BatchEnd
<1> QED
  BY <1>4, <1>5 DEF Next, Act, Observe, BatchCall, DesktopChange, TimePasses, facadeVars, vars

\* The gate of an act refuses a plan only if the window changed: whatever way
\* earlier acts ended, none of them left the glow for the gate's picture.
THEOREM RefusedOnlyIfChangedHolds == Spec => RefusedOnlyIfChanged
<1>1. Init => GlowsOnlyWhileActing
  BY DEF Init, NoCall, NoResponse, GlowsOnlyWhileActing
<1>2. FacadeTypeOK /\ GlowsOnlyWhileActing /\ [Next]_vars =>
        [(/\ call.pc = "gate" /\ response'.code = "STALE_STATE"
          /\ overlay # "adrift" /\ ~call.plan.glow)
          => \/ desk[call.app].tree # call.plan.tree
             \/ desk[call.app].pic # call.plan.pic]_vars
  BY RefusalSeesChange
<1> QED BY <1>1, <1>2, GlowKept, FacadeTypesHold, PTL DEF Spec, RefusedOnlyIfChanged

-----------------------------------------------------------------------------
(* A plan is good for one success. *)

\* The plan of the act in progress is its app's newest snapshot, no two apps
\* share one, and none that an act succeeded under is still an app's newest:
\* the success put a newer one.
PlanIsLatest ==
  /\ Acting => call.id # 0 /\ call.id = latest[call.app]
  /\ \A a, b \in Apps : latest[a] = latest[b] /\ latest[a] # 0 => a = b
  /\ \A a \in Apps : latest[a] \notin spent
  /\ spent \subseteq 1 .. issued

LEMMA PutKeepsPlans ==
  ASSUME StoreTypeOK, PlanIsLatest, NEW app \in Apps, NEW view, Put(app, view),
         spent' \subseteq spent \cup {latest[app]}, 0 \notin spent',
         ~Acting'
  PROVE  PlanIsLatest'
<1>1. latest \in [Apps -> 0 .. issued] /\ issued \in Nat
  BY DEF StoreTypeOK
<1>2. latest' = [latest EXCEPT ![app] = issued + 1] /\ issued' = issued + 1
  BY DEF Put, NextId
<1>3. \A a \in Apps : latest'[a] = IF a = app THEN issued + 1 ELSE latest[a]
  BY <1>1, <1>2
<1>4. \A a, b \in Apps : latest'[a] = latest'[b] /\ latest'[a] # 0 => a = b
  BY <1>1, <1>3 DEF PlanIsLatest
<1>5. \A a \in Apps : latest'[a] \notin spent'
  BY <1>1, <1>3 DEF PlanIsLatest
<1>6. spent' \subseteq 1 .. issued'
  BY <1>1, <1>2 DEF PlanIsLatest
<1> QED BY <1>4, <1>5, <1>6 DEF PlanIsLatest

\* An act that is let in is on its app's newest snapshot.
LEMMA BeginKeepsPlans ==
  ASSUME StoreInv, PlanIsLatest, NEW app \in Apps, NEW id \in 0 .. issued, NEW commit, NEW real,
         Begin(app, id, commit, real), UNCHANGED spent
  PROVE  PlanIsLatest'
<1>1. latest' = latest /\ issued' = issued
  BY DEF Begin, Get, GetServed, GetSuperseded, GetLost, Refuse, storeVars
<1>2. CASE Serves(app, id) /\ call'.id = id /\ call'.app = app
  <2>1. id = latest[app] /\ id # 0
    BY <1>2 DEF Serves, IsCurrent, HasCurrent, StoreInv, CurrentIsOwn, StoreTypeOK, Ids
  <2> QED BY <1>1, <1>2, <2>1 DEF PlanIsLatest
<1>3. CASE call'.pc = "done"
  BY <1>1, <1>3 DEF PlanIsLatest, Acting
<1> QED BY <1>2, <1>3 DEF Begin, Answered, NoCall

LEMMA PlansKept ==
  ASSUME FacadeTypeOK, StoreInv, PlanIsLatest, [Next]_vars
  PROVE  PlanIsLatest'
<1>1. /\ StoreTypeOK /\ call \in CallType
      /\ Acting => call.app \in Apps
      /\ batch.id \in 0 .. issued /\ (call.pc = "next" => batch.app \in Apps)
  BY DEF FacadeTypeOK, StateTyped, CallTyped, BatchTyped, BatchType
\* A step that issues no id and lets no act in keeps all.
<1>2. ASSUME UNCHANGED <<latest, issued, spent>>,
             Acting' => Acting /\ call'.id = call.id /\ call'.app = call.app
      PROVE  PlanIsLatest'
  BY <1>2 DEF PlanIsLatest
<1>3. ASSUME NEW app \in Apps, NEW budget, NEW glowing, NEW decoded, Observe(app, budget, glowing, decoded)
      PROVE  PlanIsLatest'
  <2>1. ~Acting' /\ spent' = spent
    BY <1>3 DEF Observe, facadeVars, Acting
  <2> QED BY <1>1, <1>3, <2>1, PutKeepsPlans DEF Observe, PlanIsLatest
<1>4. ASSUME NEW app \in Apps, NEW id \in 0 .. issued, NEW commit, NEW real,
             Act(app, id, commit, real)
      PROVE  PlanIsLatest'
  BY <1>4, BeginKeepsPlans DEF Act
<1>5. ASSUME NEW commit, NEW real, BatchStep(commit, real)
      PROVE  PlanIsLatest'
  BY <1>1, <1>5, BeginKeepsPlans DEF BatchStep
<1>6. ASSUME NEW glowing, NEW decoded, GateRead(glowing, decoded)
      PROVE  PlanIsLatest'
  <2> DEFINE gate == Reading(call.app, GateBudget(call.plan), glowing, decoded)
  <2>0. call.app \in Apps /\ spent' = spent
    BY <1>1, <1>6 DEF GateRead, Acting
  <2>1. CASE Changed(call.plan, gate)
    <3>1. Put(call.app, gate) /\ call'.pc = "done"
      BY <1>6, <2>1 DEF GateRead, Respond, Answered, NoCall
    <3> QED BY <1>1, <2>0, <3>1, PutKeepsPlans DEF PlanIsLatest, Acting
  <2>2. CASE ~Changed(call.plan, gate)
    BY <1>1, <1>2, <1>6, <2>2 DEF GateRead, storeVars, CallType, Acting
  <2> QED BY <2>1, <2>2
<1>7. ASSUME Finish PROVE PlanIsLatest'
  <2>1. call'.pc = "done" /\ Put(call.app, call.seen) /\ spent' = spent \cup {call.id}
    BY <1>7 DEF Finish, Respond, Answered, NoCall
  <2>2. Acting
    BY <1>7 DEF Finish, Acting
  <2> QED BY <1>1, <2>1, <2>2, PutKeepsPlans DEF PlanIsLatest, Acting
<1>8. ASSUME GateFails \/ LightUpFails \/ FinishFails \/ Fail
      PROVE  PlanIsLatest'
  <2>1. call'.pc = "done"
    BY <1>8 DEF GateFails, LightUpFails, FinishFails, Fail, Respond, Answered, NoCall
  <2> QED BY <1>2, <1>8, <2>1 DEF GateFails, LightUpFails, FinishFails, Fail, storeVars, Acting
<1>9. ASSUME LightUp \/ RefreshFails PROVE PlanIsLatest'
  BY <1>1, <1>2, <1>9 DEF LightUp, RefreshFails, storeVars, CallType, Acting
<1>10. ASSUME SendPlain \/ SendReal \/ Fallback PROVE PlanIsLatest'
  <2>1. ASSUME NEW n, NEW pc, Deliver(n, pc), Acting PROVE PlanIsLatest'
    BY <1>1, <1>2, <2>1 DEF Deliver, storeVars, CallType
  <2> QED BY <1>10, <2>1 DEF SendPlain, SendReal, Fallback, Acting
<1>11. ASSUME NEW glowing, NEW decoded, RefreshRead(glowing, decoded) PROVE PlanIsLatest'
  BY <1>1, <1>2, <1>11 DEF RefreshRead, storeVars, CallType, Acting
<1>12. ASSUME Return \/ BatchAdvance \/ BatchEnd PROVE PlanIsLatest'
  <2>1. call'.pc \in {"idle", "next"}
    BY <1>12 DEF Return, BatchAdvance, BatchEnd, NoCall
  <2> QED BY <1>2, <1>12, <2>1 DEF Return, BatchAdvance, BatchEnd, storeVars, Acting
<1>13. ASSUME NEW app, NEW id, NEW length, NEW limit, NEW failFast,
              BatchCall(app, id, length, limit, failFast)
       PROVE  PlanIsLatest'
  <2>1. call'.pc = "next"
    BY <1>13 DEF BatchCall, NoCall
  <2> QED BY <1>2, <1>13, <2>1 DEF BatchCall, storeVars, Acting
<1>14. ASSUME NEW app, NEW screen, DesktopChange(app, screen)
       PROVE  PlanIsLatest'
  BY <1>1, <1>2, <1>14 DEF DesktopChange, storeVars, CallType, Acting
<1>15. ASSUME TimePasses PROVE PlanIsLatest'
  BY <1>2, <1>15 DEF TimePasses, SetClock, facadeVars, Acting
<1>16. CASE UNCHANGED vars
  BY <1>2, <1>16 DEF vars, storeVars, facadeVars, Acting
<1>17. CASE FacadeStep
  BY <1>5, <1>6, <1>7, <1>8, <1>9, <1>10, <1>11, <1>12, <1>17 DEF FacadeStep
<1> QED BY <1>3, <1>4, <1>13, <1>14, <1>15, <1>16, <1>17 DEF Next

\* No act gets past the store with a plan that an act succeeded under.
THEOREM OneSuccessPerPlanHolds == Spec => []OneSuccessPerPlan
<1>1. Init => PlanIsLatest
  BY DEF Init, StoreInit, PlanIsLatest, Acting, NoCall
<1>2. FacadeTypeOK /\ PlanIsLatest => OneSuccessPerPlan
  BY DEF FacadeTypeOK, StateTyped, CallTyped, PlanIsLatest, Acting, OneSuccessPerPlan
<1>3. Spec => []StoreInv
  BY StoreBehaviourHolds, StoreInvariant, PTL DEF StoreBehaviour
<1> QED BY <1>1, <1>2, <1>3, PlansKept, FacadeTypesHold, PTL DEF Spec

-----------------------------------------------------------------------------
(* An act keeps its promise. *)

PromiseNext == Promise!Call \/ Promise!Send \/ Promise!Answer \/ Promise!Leave

\* What the caller of an act sees of its state.
Seen == <<Phase, call.commit, call.sends, IF call.pc = "done" THEN response.code ELSE "none">>

LEMMA PromiseStart == Init => Promise!PromiseInit
BY DEF Init, NoCall, Promise!PromiseInit, Phase

\* Every answer but an error code is one the promise allows, whatever was sent.
LEMMA AnswerAllowed ==
  ASSUME FacadeTypeOK, Acting, NEW code, NEW id, Respond(code, id),
         code \in {"ok", "STALE_STATE", ErrorCode(call.commit), "EXCEPTION"},
         code = "STALE_STATE" => call.sends = 0
  PROVE  Promise!Answer
<1>1. /\ call \in CallType /\ call.sends \in 0 .. 2 /\ call.commit \in BOOLEAN
      /\ Phase = "acting"
  BY DEF FacadeTypeOK, StateTyped, CallTyped, CallType, Acting, Phase
<1>2. /\ call'.pc = "done" /\ call'.commit = FALSE /\ call'.sends = 0
      /\ response'.code = code /\ Phase' = "done"
  BY DEF Respond, Answered, NoCall, Phase
<1>3. [code |-> code, sends |-> call.sends] \in Promise!Outcomes(call.commit)
  BY <1>1 DEF Promise!Outcomes, ErrorCode
<1>4. code \in {o.code : o \in {o \in Promise!Outcomes(call.commit) : o.sends = call.sends}}
  <2> DEFINE o == [code |-> code, sends |-> call.sends]
  <2>1. o.code = code /\ o.sends = call.sends
    OBVIOUS
  <2> QED BY <1>3, <2>1
<1> QED BY <1>1, <1>2, <1>4 DEF Promise!Answer

\* An act is let in with its plan, or over: its arguments were refused, which the
\* store does not notice, or its plan was.
LEMMA BeginEnds ==
  ASSUME NEW app, NEW id, NEW commit, NEW real, Begin(app, id, commit, real)
  PROVE  \/ /\ Serves(app, id) /\ Get(app, id)
            /\ call'.pc = "gate" /\ call'.app = app /\ call'.commit = commit /\ call'.sends = 0
         \/ /\ ~Serves(app, id) /\ Get(app, id) /\ call' = Answered /\ call'.pc = "done"
            /\ response'.code \in {"STALE_STATE", "EXCEPTION"}
         \/ /\ UNCHANGED storeVars /\ call' = Answered /\ call'.pc = "done"
            /\ response'.code = "INVALID"
<1> DEFINE begun == [NoCall EXCEPT !.app = app, !.id = id, !.commit = commit, !.real = real]
           gated == [begun EXCEPT !.pc = "gate", !.plan = snapshots[id].view]
<1>1. gated.pc = "gate" /\ gated.app = app /\ gated.commit = commit /\ gated.sends = 0
  BY DEF NoCall
<1>2. Answered.pc = "done"
  BY DEF Answered, NoCall
<1>3. \A answer \in Logged("STALE_STATE", reply'.named) : answer.code \in {"STALE_STATE", "EXCEPTION"}
  BY DEF Logged
<1>4. [code |-> "INVALID", id |-> 0].code = "INVALID"
  OBVIOUS
<1>5. \/ UNCHANGED storeVars /\ call' = Answered /\ response' = [code |-> "INVALID", id |-> 0]
      \/ Serves(app, id) /\ Get(app, id) /\ call' = gated
      \/ /\ ~Serves(app, id) /\ Get(app, id) /\ call' = Answered
         /\ response' \in Logged("STALE_STATE", reply'.named)
  BY Zenon DEF Begin
<1> HIDE DEF gated
<1> QED BY <1>1, <1>2, <1>3, <1>4, <1>5

\* The call is let in, or refused before anything was sent.
LEMMA BeginCalls ==
  ASSUME Phase = "idle", NEW app, NEW id, NEW commit \in BOOLEAN, NEW real,
         Begin(app, id, commit, real)
  PROVE  Promise!Call
<1>1. CASE call'.pc = "gate" /\ call'.commit = commit /\ call'.sends = 0
  BY <1>1 DEF Promise!Call, Phase
<1>2. CASE call' = Answered /\ response'.code \in {"INVALID", "STALE_STATE", "EXCEPTION"}
  <2>1. call'.pc = "done" /\ call'.commit = FALSE /\ call'.sends = 0
    BY <1>2 DEF Answered, NoCall
  <2> QED BY <1>2, <2>1 DEF Promise!Call, Phase
<1> QED BY <1>1, <1>2, BeginEnds

\* Between two acts nothing is sent and nothing is to be committed.
Between == call.pc \in {"idle", "next", "done"} => call.commit = FALSE /\ call.sends = 0

LEMMA BetweenKept ==
  ASSUME FacadeTypeOK, Between, [Next]_vars
  PROVE  Between'
<1>1. call \in CallType
  BY DEF FacadeTypeOK, StateTyped, CallTyped
<1>2. ASSUME call'.pc \notin {"idle", "next", "done"} \/ UNCHANGED call \/ call' = NoCall
               \/ call' = [NoCall EXCEPT !.pc = "next"] \/ call' = Answered
      PROVE  Between'
  BY <1>2 DEF Between, NoCall, Answered
<1>3. ASSUME NEW app, NEW id, NEW commit, NEW real, Begin(app, id, commit, real)
      PROVE  Between'
  BY <1>2, <1>3 DEF Begin, Answered, NoCall
<1>4. ASSUME NEW code, NEW id, Respond(code, id) PROVE Between'
  BY <1>2, <1>4 DEF Respond, Answered, NoCall
<1>5. CASE GateFails \/ LightUpFails \/ Finish \/ FinishFails \/ Fail
  BY <1>4, <1>5 DEF GateFails, LightUpFails, Finish, FinishFails, Fail
<1>6. ASSUME NEW glowing, NEW decoded, GateRead(glowing, decoded) PROVE Between'
  BY <1>1, <1>2, <1>4, <1>6 DEF GateRead, CallType
<1>7. CASE SendPlain \/ SendReal \/ Fallback
  <2>1. ASSUME NEW n, NEW pc \in {"refresh", "fallback", "fail"}, Deliver(n, pc) PROVE Between'
    BY <1>1, <1>2, <2>1 DEF Deliver, CallType
  <2> QED BY <1>7, <2>1 DEF SendPlain, SendReal, Fallback
<1>8. CASE LightUp \/ RefreshFails
  BY <1>1, <1>2, <1>8 DEF LightUp, RefreshFails, CallType
<1>9. ASSUME NEW glowing, NEW decoded, RefreshRead(glowing, decoded) PROVE Between'
  BY <1>1, <1>2, <1>9 DEF RefreshRead, CallType
<1>10. CASE Return \/ BatchAdvance \/ BatchEnd
  BY <1>2, <1>10 DEF Return, BatchAdvance, BatchEnd
<1>11. ASSUME NEW app, NEW id, NEW length, NEW limit, NEW failFast,
              BatchCall(app, id, length, limit, failFast)
       PROVE  Between'
  BY <1>2, <1>11 DEF BatchCall
<1>12. ASSUME NEW app, NEW screen, DesktopChange(app, screen) PROVE Between'
  <2>1. call'.pc = call.pc /\ call'.commit = call.commit /\ call'.sends = call.sends
    BY <1>1, <1>12 DEF DesktopChange, CallType
  <2> QED BY <2>1 DEF Between
<1>13. CASE FacadeStep
  BY <1>3, <1>5, <1>6, <1>7, <1>8, <1>9, <1>10, <1>13 DEF FacadeStep, BatchStep
<1>14. CASE TimePasses \/ UNCHANGED vars
  BY <1>2, <1>14 DEF TimePasses, facadeVars, vars
<1> QED BY <1>2, <1>3, <1>11, <1>12, <1>13, <1>14 DEF Next, Act, Observe, facadeVars

LEMMA PromiseStep ==
  ASSUME FacadeTypeOK, Between, [Next]_vars
  PROVE  PromiseNext \/ UNCHANGED Seen
<1>1. call \in CallType /\ CallTyped
  BY DEF FacadeTypeOK, StateTyped, CallTyped
\* What the caller does not notice.
<1>2. ASSUME call'.pc = call.pc \/ (Acting /\ Acting') \/ {call.pc, call'.pc} \subseteq {"idle", "next"},
             call'.commit = call.commit, call'.sends = call.sends,
             call.pc = "done" => response' = response
      PROVE  UNCHANGED Seen
  BY <1>1, <1>2 DEF Seen, Phase, Acting, CallType, Pcs
<1>3. ASSUME NEW app, NEW id, NEW commit \in BOOLEAN, NEW real,
             Act(app, id, commit, real)
      PROVE  Promise!Call
  BY <1>3, BeginCalls DEF Act, Phase
<1>4. ASSUME NEW commit \in BOOLEAN, NEW real, BatchStep(commit, real)
      PROVE  Promise!Call
  BY <1>4, BeginCalls DEF BatchStep, Phase
<1>5. CASE GateFails \/ Fail
  <2>1. PICK code \in {ErrorCode(call.commit), "EXCEPTION"} : Respond(code, 0)
    BY <1>5 DEF GateFails, Fail
  <2>2. Acting /\ code # "STALE_STATE"
    BY <1>5 DEF GateFails, Fail, Acting, ErrorCode
  <2> QED BY <2>1, <2>2, AnswerAllowed DEF PromiseNext
<1>6. CASE LightUpFails \/ FinishFails
  BY <1>6, AnswerAllowed DEF LightUpFails, FinishFails, Acting, PromiseNext
<1>7. CASE Finish
  <2>1. PICK answer \in Logged("ok", issued') : Respond(answer.code, answer.id)
    BY <1>7 DEF Finish
  <2>2. answer.code \in {"ok", "EXCEPTION"} /\ Acting
    BY <1>7, <2>1 DEF Logged, Finish, Acting
  <2> QED BY <2>1, <2>2, AnswerAllowed DEF PromiseNext
<1>8. ASSUME NEW glowing, NEW decoded, GateRead(glowing, decoded)
      PROVE  PromiseNext \/ UNCHANGED Seen
  <2> DEFINE gate == Reading(call.app, GateBudget(call.plan), glowing, decoded)
  <2>1. CASE Changed(call.plan, gate)
    <3>1. PICK answer \in Logged("STALE_STATE", issued') : Respond(answer.code, answer.id)
      BY <1>8, <2>1 DEF GateRead
    <3>2. answer.code \in {"STALE_STATE", "EXCEPTION"} /\ Acting /\ call.sends = 0
      BY <1>1, <1>8, <3>1 DEF Logged, GateRead, Acting, CallTyped
    <3> QED BY <3>1, <3>2, AnswerAllowed DEF PromiseNext
  <2>2. CASE ~Changed(call.plan, gate)
    BY <1>1, <1>2, <1>8, <2>2 DEF GateRead, Acting, CallType
  <2> QED BY <2>1, <2>2
<1>9. ASSUME NEW n \in {0, 1}, NEW pc \in {"refresh", "fallback", "fail"}, Deliver(n, pc),
             call.pc \in {"send", "fallback"}
      PROVE  PromiseNext \/ UNCHANGED Seen
  <2>1. /\ call'.pc = pc /\ call'.commit = call.commit /\ call'.sends = call.sends + n
        /\ response' = response
    BY <1>1, <1>9 DEF Deliver, CallType
  <2>2. Acting /\ Acting' /\ call.sends \in 0 .. 1
    BY <1>1, <1>9, <2>1 DEF Acting, CallTyped, CallType
  <2>3. CASE n = 0
    BY <1>2, <2>1, <2>2, <2>3
  <2>4. CASE n = 1
    <3>1. Phase = "acting" /\ Phase' = "acting" /\ call.pc # "done" /\ call'.pc # "done"
      BY <2>2 DEF Phase, Acting
    <3> QED BY <2>1, <2>2, <2>4, <3>1 DEF PromiseNext, Promise!Send
  <2> QED BY <2>3, <2>4
<1>10. CASE SendPlain \/ SendReal \/ Fallback
  BY <1>9, <1>10 DEF SendPlain, SendReal, Fallback
<1>11. CASE LightUp \/ RefreshFails
  BY <1>1, <1>2, <1>11 DEF LightUp, RefreshFails, CallType, Acting
<1>12. ASSUME NEW glowing, NEW decoded, RefreshRead(glowing, decoded) PROVE UNCHANGED Seen
  BY <1>1, <1>2, <1>12 DEF RefreshRead, CallType, Acting
<1>13. CASE Return \/ BatchAdvance
  <2>1. /\ call.pc = "done" /\ call'.pc \in {"idle", "next"}
        /\ call'.commit = FALSE /\ call'.sends = 0
    BY <1>13 DEF Return, BatchAdvance, NoCall
  <2> QED BY <2>1 DEF PromiseNext, Promise!Leave, Phase, Between
<1>14. ASSUME call.pc \in {"idle", "next"}, call'.pc \in {"idle", "next"},
              call' = [NoCall EXCEPT !.pc = "next"] \/ call' = NoCall,
              call.commit = FALSE, call.sends = 0
       PROVE  UNCHANGED Seen
  <2>1. call'.commit = FALSE /\ call'.sends = 0
    BY <1>14 DEF NoCall
  <2> QED BY <1>14, <2>1 DEF Seen, Phase
<1>15. ASSUME NEW app, NEW id, NEW length, NEW limit, NEW failFast,
              BatchCall(app, id, length, limit, failFast)
       PROVE  UNCHANGED Seen
  BY <1>14, <1>15 DEF BatchCall, Between, NoCall
<1>16. CASE BatchEnd
  BY <1>14, <1>16 DEF BatchEnd, Between, NoCall
<1>17. ASSUME NEW app, NEW screen, DesktopChange(app, screen) PROVE UNCHANGED Seen
  BY <1>1, <1>2, <1>17 DEF DesktopChange, CallType
<1>18. ASSUME UNCHANGED facadeVars PROVE UNCHANGED Seen
  BY <1>2, <1>18 DEF facadeVars
<1>19. CASE FacadeStep
  BY <1>4, <1>5, <1>6, <1>7, <1>8, <1>10, <1>11, <1>12, <1>13, <1>16, <1>19
  DEF FacadeStep, PromiseNext
<1>20. CASE TimePasses \/ UNCHANGED vars
  BY <1>18, <1>20 DEF TimePasses, vars
<1>21. ASSUME NEW app, NEW budget, NEW glowing, NEW decoded, Observe(app, budget, glowing, decoded)
       PROVE  UNCHANGED Seen
  BY <1>18, <1>21 DEF Observe
<1> QED BY <1>3, <1>15, <1>17, <1>19, <1>20, <1>21 DEF Next, PromiseNext

\* Acting implements what the caller of an act is promised (module ActPromise):
\* its answer tells whether the desktop may have been touched.
THEOREM KeepsPromiseHolds == Spec => KeepsPromise
<1>1. PromiseNext \/ UNCHANGED Seen
        <=> [Promise!Call \/ Promise!Send \/ Promise!Answer \/ Promise!Leave]_(Promise!promiseVars)
  BY DEF PromiseNext, Seen, Promise!promiseVars
<1>2. Init => Between
  BY DEF Init, NoCall, Between
<1> QED
  BY <1>1, <1>2, PromiseStart, PromiseStep, BetweenKept, FacadeTypesHold, PTL
  DEF Spec, KeepsPromise, Promise!PromiseSpec

-----------------------------------------------------------------------------
(* What is sent is sent on the screen it was planned on. *)

\* Since the gate read the window shows the plan's screen, unless it moved.
OnPlannedScreen ==
  (call.pc \in {"light", "send"} /\ ~call.moved) =>
    /\ desk[call.app].tree = call.plan.tree
    /\ (call.plan.tree \in TrivialTrees /\ call.plan.pic # NoPic /\ call.seen.pic # NoPic)
         => desk[call.app].pic = call.plan.pic

LEMMA UnchangedGate ==
  ASSUME NEW before, NEW app, NEW budget, NEW glowing, NEW decoded,
         ~Changed(before, Reading(app, budget, glowing, decoded))
  PROVE  /\ desk[app].tree = before.tree
         /\ (/\ before.tree \in TrivialTrees /\ before.pic # NoPic
             /\ Reading(app, budget, glowing, decoded).pic # NoPic) => desk[app].pic = before.pic
BY DEF Changed, TreeChanged, PictureChanged, Reading

LEMMA ScreenKept ==
  ASSUME FacadeTypeOK, OnPlannedScreen, [Next]_vars
  PROVE  OnPlannedScreen'
<1>1. /\ call \in CallType /\ desk \in [Apps -> Screens]
      /\ call.pc \in {"light", "send"} => call.app \in Apps
  BY DEF FacadeTypeOK, StateTyped, CallTyped, Acting
<1>2. ASSUME call'.pc \notin {"light", "send"} PROVE OnPlannedScreen'
  BY <1>2 DEF OnPlannedScreen
<1>3. ASSUME UNCHANGED <<desk, call>> PROVE OnPlannedScreen'
  BY <1>3 DEF OnPlannedScreen
<1>4. ASSUME NEW app, NEW id, NEW commit, NEW real, Begin(app, id, commit, real)
      PROVE  OnPlannedScreen'
  BY <1>2, <1>4 DEF Begin, Answered, NoCall
<1>5. ASSUME NEW code, NEW id, Respond(code, id) PROVE OnPlannedScreen'
  BY <1>2, <1>5 DEF Respond, Answered, NoCall
<1>6. CASE GateFails \/ LightUpFails \/ Finish \/ FinishFails \/ Fail
  BY <1>5, <1>6 DEF GateFails, LightUpFails, Finish, FinishFails, Fail
<1>7. ASSUME NEW glowing, NEW decoded, GateRead(glowing, decoded) PROVE OnPlannedScreen'
  <2> DEFINE gate == Reading(call.app, GateBudget(call.plan), glowing, decoded)
  <2>1. CASE Changed(call.plan, gate)
    BY <1>5, <1>7, <2>1 DEF GateRead
  <2>2. CASE ~Changed(call.plan, gate)
    <3>1. call' = [call EXCEPT !.pc = "light", !.seen = gate] /\ desk' = desk
      BY <1>7, <2>2 DEF GateRead
    <3>2. call'.app = call.app /\ call'.plan = call.plan /\ call'.seen = gate
      BY <1>1, <3>1 DEF CallType
    <3> QED BY <2>2, <3>1, <3>2, UnchangedGate DEF OnPlannedScreen
  <2> QED BY <2>1, <2>2
<1>8. CASE LightUp
  <2>1. /\ call'.app = call.app /\ call'.plan = call.plan /\ call'.seen = call.seen
        /\ call'.moved = call.moved /\ desk' = desk /\ call.pc = "light"
    BY <1>1, <1>8 DEF LightUp, CallType
  <2> QED BY <2>1 DEF OnPlannedScreen
<1>9. CASE SendPlain \/ SendReal \/ Fallback
  <2>1. ASSUME NEW n, NEW pc \in {"refresh", "fallback", "fail"}, Deliver(n, pc)
        PROVE  OnPlannedScreen'
    BY <1>1, <1>2, <2>1 DEF Deliver, CallType
  <2> QED BY <1>9, <2>1 DEF SendPlain, SendReal, Fallback
<1>10. CASE RefreshFails
  BY <1>1, <1>2, <1>10 DEF RefreshFails, CallType
<1>11. ASSUME NEW glowing, NEW decoded, RefreshRead(glowing, decoded) PROVE OnPlannedScreen'
  BY <1>1, <1>2, <1>11 DEF RefreshRead, CallType
<1>12. CASE Return \/ BatchAdvance \/ BatchEnd
  <2>1. call'.pc \in {"idle", "next"}
    BY <1>12 DEF Return, BatchAdvance, BatchEnd, NoCall
  <2> QED BY <1>2, <2>1
<1>13. ASSUME NEW app, NEW id, NEW length, NEW limit, NEW failFast,
              BatchCall(app, id, length, limit, failFast)
       PROVE  OnPlannedScreen'
  BY <1>2, <1>13 DEF BatchCall, NoCall
<1>14. ASSUME NEW app \in Apps, NEW screen, DesktopChange(app, screen) PROVE OnPlannedScreen'
  <2>1. /\ call'.pc = call.pc /\ call'.app = call.app /\ call'.plan = call.plan
        /\ call'.seen = call.seen
        /\ call'.moved = (call.moved \/ (call.pc \in {"light", "send"} /\ call.app = app))
    BY <1>1, <1>14 DEF DesktopChange, CallType
  <2>2. CASE call.pc \in {"light", "send"} /\ call.app # app
    <3>1. desk'[call.app] = desk[call.app]
      BY <1>1, <1>14, <2>2 DEF DesktopChange
    <3> QED BY <2>1, <2>2, <3>1 DEF OnPlannedScreen
  <2>3. CASE call.pc \notin {"light", "send"} \/ call.app = app
    BY <2>1, <2>3 DEF OnPlannedScreen
  <2> QED BY <2>2, <2>3
<1>15. CASE TimePasses \/ UNCHANGED vars
  BY <1>3, <1>15 DEF TimePasses, facadeVars, vars
<1>16. CASE FacadeStep
  BY <1>4, <1>6, <1>7, <1>8, <1>9, <1>10, <1>11, <1>12, <1>16 DEF FacadeStep, BatchStep
<1> QED BY <1>3, <1>4, <1>13, <1>14, <1>15, <1>16 DEF Next, Act, Observe, facadeVars

\* The first input of an act reaches the screen the plan was made on, unless
\* the window changed after the act's own gate read.
THEOREM SentOnPlannedScreenHolds == Spec => []SentOnPlannedScreen
<1>1. Init => OnPlannedScreen
  BY DEF Init, NoCall, OnPlannedScreen
<1>2. OnPlannedScreen => SentOnPlannedScreen
  BY DEF OnPlannedScreen, SentOnPlannedScreen
<1> QED BY <1>1, <1>2, ScreenKept, FacadeTypesHold, PTL DEF Spec

-----------------------------------------------------------------------------
(* A refused batch sends nothing more. *)

\* A step of a batch works on the batch's own plan; once one was refused that
\* plan is no longer current, and nothing but a success renews it.
Refused == call.pc = "done" /\ response.code = "STALE_STATE"
BatchInv ==
  /\ call.pc = "idle" => ~batch.on
  /\ batch.on /\ Acting => call.app = batch.app
  /\ batch.spoilt => batch.on /\ call.pc \in {"next", "done"}
  /\ batch.spoilt /\ call.pc = "done" => response.code \in {"INVALID", "STALE_STATE", "EXCEPTION"}
  /\ batch.spoilt \/ (batch.on /\ Refused) => ~IsCurrent(batch.app, batch.id)

\* No operation of the store makes an older plan current again.
LEMMA NeverCurrentAgain ==
  ASSUME FacadeTypeOK, [Next]_vars, NEW app \in Apps, NEW id \in 0 .. issued, ~IsCurrent(app, id)
  PROVE  ~IsCurrent(app, id)'
<1>1. [StoreNext]_storeVars /\ StoreTypeOK
  BY NextIsStoreStep DEF FacadeTypeOK
<1>2. ASSUME NEW a, NEW view, Put(a, view) PROVE ~IsCurrent(app, id)'
  <2> DEFINE named == [b \in DOMAIN current \cup {a} |-> IF b = a THEN issued + 1 ELSE current[b]]
  <2>1. PICK S : S \subseteq DOMAIN named /\ current' = Restrict(named, S)
    BY <1>2 DEF Put, NextId
  <2>2. id # issued + 1
    BY <1>1 DEF StoreTypeOK
  <2> QED BY <2>1, <2>2 DEF IsCurrent, HasCurrent, Restrict
<1>3. ASSUME NEW a, NEW i, Get(a, i) PROVE ~IsCurrent(app, id)'
  BY <1>3 DEF Get, GetServed, GetSuperseded, GetLost, IsCurrent, HasCurrent, Restrict
<1>4. ASSUME NEW t, SetClock(t) PROVE ~IsCurrent(app, id)'
  BY <1>4 DEF SetClock, IsCurrent, HasCurrent
<1>5. CASE UNCHANGED storeVars
  BY <1>5 DEF storeVars, IsCurrent, HasCurrent
<1> QED BY <1>1, <1>2, <1>3, <1>4, <1>5 DEF StoreNext

\* A plan that is refused, or superseded by what the gate read, is not current.
LEMMA RefusalForgets ==
  \A app, id : Get(app, id) /\ ~Serves(app, id) => ~IsCurrent(app, id)'
BY DEF Get, GetServed, GetSuperseded, GetLost, IsCurrent, HasCurrent, Restrict

LEMMA PutForgets ==
  StoreTypeOK => \A app, view : Put(app, view) => \A id \in 0 .. issued : ~IsCurrent(app, id)'
<1> SUFFICES ASSUME StoreTypeOK, NEW app, NEW view, Put(app, view), NEW id \in 0 .. issued
             PROVE  ~IsCurrent(app, id)'
  OBVIOUS
<1> DEFINE named == [b \in DOMAIN current \cup {app} |-> IF b = app THEN issued + 1 ELSE current[b]]
<1>1. PICK S : S \subseteq DOMAIN named /\ current' = Restrict(named, S)
  BY DEF Put, NextId
<1>2. id # issued + 1
  BY DEF StoreTypeOK
<1> QED BY <1>1, <1>2 DEF IsCurrent, HasCurrent, Restrict

LEMMA BatchKept ==
  ASSUME FacadeTypeOK, BatchInv, [Next]_vars
  PROVE  BatchInv'
<1>1. /\ call \in CallType /\ batch \in BatchType /\ StoreTypeOK
      /\ batch.on => batch.app \in Apps
      /\ call.pc = "next" => batch.on
  BY DEF FacadeTypeOK, StateTyped, CallTyped, BatchTyped
<1>2. ASSUME batch.on, ~IsCurrent(batch.app, batch.id),
             batch'.app = batch.app, batch'.id = batch.id
      PROVE  ~IsCurrent(batch.app, batch.id)'
  <2>1. batch.app \in Apps /\ batch.id \in 0 .. issued
    BY <1>1, <1>2 DEF BatchType
  <2>2. \A app \in Apps, id \in 0 .. issued : ~IsCurrent(app, id) => ~IsCurrent(app, id)'
    BY NeverCurrentAgain
  <2> QED BY <1>2, <2>1, <2>2 DEF IsCurrent, HasCurrent
\* The place of the call and the batch's plan stay.
<1>3. ASSUME UNCHANGED <<batch, response>>, call'.pc = call.pc, call'.app = call.app
      PROVE  BatchInv'
  BY <1>2, <1>3 DEF BatchInv, Acting, Refused
\* The act goes on.
<1>4. ASSUME UNCHANGED batch, Acting, Acting', call'.app = call.app
      PROVE  BatchInv'
  BY <1>4 DEF BatchInv, Acting, Refused
\* The act ends, not by a refusal.
<1>5. ASSUME UNCHANGED batch, Acting, NEW code, code # "STALE_STATE", NEW id, Respond(code, id)
      PROVE  BatchInv'
  <2>1. call'.pc = "done" /\ response'.code = code
    BY <1>5 DEF Respond, Answered, NoCall
  <2> QED BY <1>5, <2>1 DEF BatchInv, Acting, Refused
<1>6. CASE GateFails \/ LightUpFails \/ FinishFails \/ Fail
  <2>1. Acting /\ UNCHANGED batch
    BY <1>6 DEF GateFails, LightUpFails, FinishFails, Fail, Acting
  <2>2. PICK code : code # "STALE_STATE" /\ Respond(code, 0)
    BY <1>6 DEF GateFails, LightUpFails, FinishFails, Fail, ErrorCode
  <2> QED BY <1>5, <2>1, <2>2
<1>7. CASE Finish
  <2>1. PICK answer \in Logged("ok", issued') : Respond(answer.code, answer.id)
    BY <1>7 DEF Finish
  <2>2. answer.code # "STALE_STATE" /\ Acting /\ UNCHANGED batch
    BY <1>7, <2>1 DEF Logged, Finish, Acting
  <2> QED BY <1>5, <2>1, <2>2
<1>8. ASSUME NEW glowing, NEW decoded, GateRead(glowing, decoded) PROVE BatchInv'
  <2> DEFINE gate == Reading(call.app, GateBudget(call.plan), glowing, decoded)
  <2>0. Acting /\ UNCHANGED batch
    BY <1>8 DEF GateRead, Acting
  <2>1. CASE Changed(call.plan, gate)
    <3>1. PICK answer \in Logged("STALE_STATE", issued') : Respond(answer.code, answer.id)
      BY <1>8, <2>1 DEF GateRead
    <3>2. call'.pc = "done" /\ ~batch.spoilt
      BY <2>0, <3>1 DEF Respond, Answered, NoCall, BatchInv, Acting
    <3>3. ASSUME batch.on PROVE ~IsCurrent(batch.app, batch.id)'
      <4>1. Put(batch.app, gate) /\ batch.id \in 0 .. issued
        BY <1>1, <1>8, <2>0, <2>1, <3>3 DEF GateRead, BatchInv, BatchType
      <4>2. \A app, view : Put(app, view) => \A id \in 0 .. issued : ~IsCurrent(app, id)'
        BY <1>1, PutForgets
      <4> HIDE DEF gate
      <4> QED BY <2>0, <4>1, <4>2 DEF IsCurrent, HasCurrent
    <3> QED BY <2>0, <3>2, <3>3 DEF BatchInv, Acting
  <2>2. CASE ~Changed(call.plan, gate)
    BY <1>1, <1>4, <1>8, <2>0, <2>2 DEF GateRead, CallType, Acting
  <2> QED BY <2>1, <2>2
<1>9. CASE LightUp \/ RefreshFails
  BY <1>1, <1>4, <1>9 DEF LightUp, RefreshFails, CallType, Acting
<1>10. CASE SendPlain \/ SendReal \/ Fallback
  <2>1. ASSUME NEW n, NEW pc \in {"refresh", "fallback", "fail"}, Deliver(n, pc), Acting
        PROVE  BatchInv'
    BY <1>1, <1>4, <2>1 DEF Deliver, CallType, Acting
  <2> QED BY <1>10, <2>1 DEF SendPlain, SendReal, Fallback, Acting
<1>11. ASSUME NEW glowing, NEW decoded, RefreshRead(glowing, decoded) PROVE BatchInv'
  BY <1>1, <1>4, <1>11 DEF RefreshRead, CallType, Acting
<1>12. CASE Return
  BY <1>1, <1>12 DEF Return, NoCall, NoResponse, BatchInv, Acting, Refused
<1>13. CASE BatchAdvance
  <2>1. CASE batch' = NoBatch /\ call' = NoCall
    BY <2>1 DEF NoBatch, NoCall, BatchInv, Acting, Refused
  <2>2. CASE call' = [NoCall EXCEPT !.pc = "next"]
    <3>1. call'.pc = "next"
      BY <2>2 DEF NoCall
    <3>2. /\ batch' = [batch EXCEPT !.id = NextPlan,
                 !.spoilt = @ \/ (response.code = "STALE_STATE"
                                    \/ (response.code # "ok" /\ batch.failFast))]
          /\ ~(response.code = "EXCEPTION" \/ (response.code # "ok" /\ batch.failFast))
      BY <1>13, <2>2, <3>1 DEF BatchAdvance, NoCall
    <3>3. /\ batch'.on = batch.on /\ batch'.app = batch.app /\ batch'.id = NextPlan
          /\ batch'.spoilt = (batch.spoilt \/ response.code = "STALE_STATE")
      BY <1>1, <3>2 DEF BatchType
    <3>4. batch.on /\ call.pc = "done"
      BY <1>13 DEF BatchAdvance
    <3>5. ASSUME batch'.spoilt PROVE ~IsCurrent(batch.app, batch.id)'
      <4>1. batch.spoilt \/ Refused
        BY <3>3, <3>4, <3>5 DEF Refused
      <4>2. batch'.id = batch.id /\ ~IsCurrent(batch.app, batch.id)
        BY <3>3, <3>4, <4>1 DEF NextPlan, BatchInv, Refused
      <4> QED BY <1>2, <3>3, <3>4, <4>2
    <3> QED BY <3>1, <3>3, <3>4, <3>5 DEF BatchInv, Acting, Refused
  <2> QED BY <1>13, <2>1, <2>2 DEF BatchAdvance
<1>14. CASE BatchEnd
  BY <1>14 DEF BatchEnd, NoBatch, NoCall, BatchInv, Acting, Refused
<1>15. ASSUME NEW app, NEW id, NEW length, NEW limit, NEW failFast,
              BatchCall(app, id, length, limit, failFast)
       PROVE  BatchInv'
  BY <1>15 DEF BatchCall, NoBatch, NoCall, BatchInv, Acting, Refused
<1>16. ASSUME NEW app, NEW id, NEW commit, NEW real, Act(app, id, commit, real)
       PROVE  BatchInv'
  <2>1. call'.pc \in {"gate", "done"}
    BY <1>16 DEF Act, Begin, Answered, NoCall
  <2> QED BY <1>16, <2>1 DEF Act, BatchInv, Acting, Refused
<1>17. ASSUME NEW commit, NEW real, BatchStep(commit, real) PROVE BatchInv'
  <2>1. /\ batch'.on = batch.on /\ batch'.app = batch.app /\ batch'.id = batch.id
        /\ batch'.spoilt = batch.spoilt /\ Begin(batch.app, batch.id, commit, real)
    BY <1>1, <1>17 DEF BatchStep, BatchType
  <2>2. batch.on
    BY <1>1, <1>17 DEF BatchStep
  <2>3. CASE Serves(batch.app, batch.id) /\ call'.pc = "gate" /\ call'.app = batch.app
    <3>1. ~batch.spoilt
      BY <2>3 DEF Serves, BatchInv
    <3> QED BY <2>1, <2>2, <2>3, <3>1 DEF BatchInv, Refused
  <2>4. CASE /\ ~Serves(batch.app, batch.id) /\ Get(batch.app, batch.id)
             /\ call'.pc = "done" /\ response'.code \in {"STALE_STATE", "EXCEPTION"}
    <3>1. ~IsCurrent(batch.app, batch.id)'
      BY <2>1, <2>4, RefusalForgets DEF IsCurrent, HasCurrent
    <3> QED BY <2>1, <2>2, <2>4, <3>1 DEF BatchInv, Acting
  <2>5. CASE UNCHANGED storeVars /\ call'.pc = "done" /\ response'.code = "INVALID"
    <3>1. batch.spoilt => ~IsCurrent(batch.app, batch.id)'
      BY <2>1, <2>5 DEF storeVars, BatchInv, IsCurrent, HasCurrent
    <3> QED BY <2>1, <2>2, <2>5, <3>1 DEF BatchInv, Acting, Refused
  <2> QED BY <2>1, <2>3, <2>4, <2>5, BeginEnds
<1>18. ASSUME NEW app, NEW screen, DesktopChange(app, screen) PROVE BatchInv'
  BY <1>1, <1>3, <1>18 DEF DesktopChange, CallType
<1>19. CASE TimePasses \/ UNCHANGED vars
  BY <1>3, <1>19 DEF TimePasses, facadeVars, vars
<1>20. ASSUME NEW app, NEW budget, NEW glowing, NEW decoded, Observe(app, budget, glowing, decoded) PROVE BatchInv'
  BY <1>3, <1>20 DEF Observe, facadeVars
<1>21. CASE FacadeStep
  BY <1>6, <1>7, <1>8, <1>9, <1>10, <1>11, <1>12, <1>13, <1>14, <1>17, <1>21 DEF FacadeStep
<1> QED BY <1>15, <1>16, <1>18, <1>19, <1>20, <1>21 DEF Next

\* Once a step of a batch was refused as stale, no later step of it is let in.
THEOREM BatchStopsActingHolds == Spec => []BatchStopsActing
<1>1. Init => BatchInv
  BY DEF Init, NoCall, NoBatch, NoResponse, BatchInv, Acting, Refused
<1>2. BatchInv => BatchStopsActing
  BY DEF BatchInv, BatchStopsActing
<1> QED BY <1>1, <1>2, BatchKept, FacadeTypesHold, PTL DEF Spec
=============================================================================
