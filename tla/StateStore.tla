----------------------------- MODULE StateStore -----------------------------
(***************************************************************************)
(* The facade's snapshot store (state/store.py).  cu_observe and cu_act    *)
(* put snapshots of an app's window into it and hand their ids to the      *)
(* agent; cu_act gets a snapshot back before it acts.  The store keeps     *)
(* every snapshot until it is older than the TTL or until capacity forces  *)
(* it out, and remembers for each app which one is current.                *)
(*                                                                         *)
(* Ids are secrets.token_hex(6); they are modelled as the numbers          *)
(* 1, 2, 3, ... in the order of issue (no collisions), which is also the   *)
(* insertion order of the dict _snapshots.  The clock is time.time(): it   *)
(* normally advances, and may be set back.  One operation reads one clock  *)
(* value.  What a snapshot shows of the window is opaque to the store.     *)
(***************************************************************************)
EXTENDS Integers, FiniteSets, Functions

CONSTANTS
  Apps,          \* application names the agent uses
  Views,         \* what a snapshot may show of an application's window
  Ttl,           \* ttl_seconds
  MaxEntries,    \* max_entries
  MaxIssued,     \* bound: snapshots put during a behaviour
  MaxClock       \* bound: last clock value

ASSUME StoreAssumption ==
  /\ Ttl \in Nat
  /\ MaxEntries \in Nat
  /\ MaxIssued \in Nat
  /\ MaxClock \in Nat

VARIABLES
  clock,         \* time.time()
  snapshots,     \* _snapshots: id -> [app, at, view]
  current,       \* _current: app -> id
  issued,        \* how many ids have been handed out
  \* History: what the store answered, for the properties
  reply,         \* the last answer of the store
  latest,        \* app -> id of its most recent put, 0 before the first
  setBack        \* the clock has been set back at some time

storeVars == <<clock, snapshots, current, issued, reply, latest, setBack>>

Ids == 1 .. issued
Clocks == 0 .. MaxClock
Snapshot == [app : Apps, at : Nat, view : Views]

NoReply == [op |-> "none", result |-> "none", app |-> "none", id |-> 0,
            named |-> 0, age |-> 0]

-----------------------------------------------------------------------------
(* The questions the operations ask of the store. *)

\* _purge compares strictly: a snapshot exactly Ttl old still lives.
Expired(at) == clock - at > Ttl

\* sorted(..., key=created_at) is stable, so equal times keep insertion order.
Newer(s, i, j) == s[i].at > s[j].at \/ (s[i].at = s[j].at /\ i > j)

\* Faulty variant of Survivors: the sort is reversed.
OldestSurvive(s, live) ==
  {i \in live : Cardinality({j \in live : Newer(s, i, j)}) < MaxEntries}

\* The ids that _purge leaves: the MaxEntries newest.
Survivors(s, live) ==
  {i \in live : Cardinality({j \in live : Newer(s, j, i)}) < MaxEntries}

\* The next id.
NextId == issued + 1

HasCurrent(app) == app \in DOMAIN current
IsCurrent(app, id) == HasCurrent(app) /\ current[app] = id

\* Faulty variant of Serves: any stored snapshot of any age will do.
ServesStored(app, id) == id \in DOMAIN snapshots

\* get returns the snapshot: the id is the current one, stored, not expired.
Serves(app, id) ==
  /\ IsCurrent(app, id)
  /\ id \in DOMAIN snapshots
  /\ ~Expired(snapshots[id].at)

-----------------------------------------------------------------------------
(* The operations. *)

\* put: the snapshot becomes the app's current one; then _purge drops what
\* has expired, the current entries that no longer name a stored snapshot,
\* and the oldest snapshots beyond the capacity -- in this order, so that a
\* current entry may be left naming a snapshot the capacity evicted.
Put(app, view) ==
  LET id    == NextId
      added == [i \in DOMAIN snapshots \cup {id} |->
                  IF i = id THEN [app |-> app, at |-> clock, view |-> view]
                            ELSE snapshots[i]]
      live  == {i \in DOMAIN added : ~Expired(added[i].at)}
      named == [a \in DOMAIN current \cup {app} |->
                  IF a = app THEN id ELSE current[a]]
  IN  /\ issued < MaxIssued
      /\ issued' = issued + 1
      /\ snapshots' = Restrict(added, Survivors(added, live))
      /\ current' = Restrict(named, {a \in DOMAIN named : named[a] \in live})
      /\ reply' = [NoReply EXCEPT !.op = "put", !.app = app, !.id = id]
      /\ latest' = [latest EXCEPT ![app] = id]
      /\ UNCHANGED <<clock, setBack>>

\* get, when it returns the snapshot.
GetServed(app, id) ==
  /\ Serves(app, id)
  /\ reply' = [op |-> "get", result |-> "served", app |-> app, id |-> id,
               named |-> id, age |-> clock - snapshots[id].at]
  /\ UNCHANGED <<clock, snapshots, current, issued, latest, setBack>>

Refuse(app, named) ==
  /\ reply' = [op |-> "get", result |-> "stale", app |-> app, id |-> 0,
               named |-> named, age |-> 0]
  /\ UNCHANGED <<clock, issued, latest, setBack>>

\* get, when the app has no current snapshot, or another one: StaleStateError,
\* which names the current id if there is one.
GetSuperseded(app, id) ==
  /\ ~IsCurrent(app, id)
  /\ Refuse(app, IF HasCurrent(app) THEN current[app] ELSE 0)
  /\ UNCHANGED <<snapshots, current>>

\* Faulty variant of GetLost: the error path without its call of invalidate.
GetLostKept(app, id) ==
  /\ IsCurrent(app, id)
  /\ ~Serves(app, id)
  /\ Refuse(app, 0)
  /\ UNCHANGED <<snapshots, current>>

\* get, when the current snapshot was evicted or has expired: invalidate
\* forgets the app's entry and its snapshot, and the error names no id.
GetLost(app, id) ==
  /\ IsCurrent(app, id)
  /\ ~Serves(app, id)
  /\ Refuse(app, 0)
  /\ current' = Restrict(current, DOMAIN current \ {app})
  /\ snapshots' = Restrict(snapshots, DOMAIN snapshots \ {id})

Get(app, id) == GetServed(app, id) \/ GetSuperseded(app, id) \/ GetLost(app, id)

\* Time passes, or the wall clock is set.
SetClock(t) ==
  /\ t # clock
  /\ clock' = t
  /\ setBack' = (setBack \/ t < clock)
  /\ UNCHANGED <<snapshots, current, issued, reply, latest>>

-----------------------------------------------------------------------------

StoreInit ==
  /\ clock = 0
  /\ snapshots = [i \in {} |-> NoReply]
  /\ current = [a \in {} |-> 0]
  /\ issued = 0
  /\ reply = NoReply
  /\ latest = [a \in Apps |-> 0]
  /\ setBack = FALSE

\* The agent may present any id it was ever given, and 0 stands for an id
\* the store never issued.
StoreNext ==
  \/ \E app \in Apps, view \in Views : Put(app, view)
  \/ \E app \in Apps, id \in 0 .. issued : Get(app, id)
  \/ \E t \in Clocks : SetClock(t)

StoreSpec == StoreInit /\ [][StoreNext]_storeVars

-----------------------------------------------------------------------------
(* Properties. *)

\* The types of the store's state: both tables are partial functions over
\* ids and apps that have been used.
StoreTypeOK ==
  /\ clock \in Nat
  /\ issued \in Nat
  /\ DOMAIN snapshots \subseteq Ids
  /\ \A i \in DOMAIN snapshots : snapshots[i] \in Snapshot
  /\ snapshots = [i \in DOMAIN snapshots |-> snapshots[i]]
  /\ DOMAIN current \subseteq Apps
  /\ \A a \in DOMAIN current : current[a] \in Ids
  /\ current = [a \in DOMAIN current |-> current[a]]
  /\ latest \in [Apps -> 0 .. issued]
  /\ setBack \in BOOLEAN

\* An answer of get is about the newest snapshot of its own app: the snapshot
\* it returns, and the id a refusal names, is that app's most recent put,
\* however many puts for other apps, evictions, expiries and changes of the
\* clock lie between; and what it returns is not older than the TTL
\* (DESIGN.md section 6: "one current snapshot per app").
AnswersNameLatest ==
  /\ reply.named # 0 => reply.named = latest[reply.app]
  /\ reply.result = "served" =>
       /\ reply.id = reply.named
       /\ reply.age <= Ttl
       /\ reply.id \in DOMAIN snapshots => snapshots[reply.id].app = reply.app

\* An observe is worth something: the snapshot just put can be got back, as
\* long as the clock never ran backwards and there is room for one.
NewestSurvives ==
  (reply.op = "put" /\ reply.id = issued /\ ~setBack /\ MaxEntries > 0) =>
    /\ IsCurrent(reply.app, reply.id)
    /\ reply.id \in DOMAIN snapshots

\* The store implements one plan per app (module FreshPlan): an app's plan is
\* its current snapshot, if that is still stored.
PlanOf(app) ==
  IF HasCurrent(app) /\ current[app] \in DOMAIN snapshots THEN current[app] ELSE 0

Plan == INSTANCE FreshPlan WITH plan <- [app \in Apps |-> PlanOf(app)]
PlanSpec == Plan!Spec
=============================================================================
