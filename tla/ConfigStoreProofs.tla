--------------------------- MODULE ConfigStoreProofs ---------------------------
(***************************************************************************)
(* That the lock of the configuration store excludes, and that therefore   *)
(* every change of the file is one command applied to its present content, *)
(* for any number of writers and panels, whatever fails or dies.           *)
(*                                                                         *)
(* What makes it inductive: the lock belongs to the one writer inside      *)
(* update_config, and what a writer has read under the lock is still what  *)
(* the file holds until it writes.                                         *)
(*                                                                         *)
(* Then, from what each command makes of the list (Mutated), that no       *)
(* endpoint loses its key, that no page deletes what it did not show, and  *)
(* that the file is emptied only by a remove with --yes.  Inductive        *)
(* besides: whoever is on the way to the write carries a command of its    *)
(* user, and a clean page shows the file as it is or a version that the    *)
(* clock tells from it.                                                    *)
(***************************************************************************)
EXTENDS ConfigStore, FoldLemmas, SequenceTheorems

LockTypes ==
  /\ holder \in Writers \cup {NoWriter}
  /\ pc \in [Writers -> {"idle", "nodir", "waiting"} \cup Inside]
  /\ DOMAIN copy = Writers

CopyIsFresh == \A w \in Writers : pc[w] = "loaded" => copy[w] = file

LockInv == LockTypes /\ LockOwned /\ CopyIsFresh

\* The store starts with the lock free and nobody inside.
LEMMA LockInit == Init => LockInv
BY ConfigAssumption DEF Init, LockInv, LockTypes, LockOwned, CopyIsFresh, Inside

\* A writer's own steps keep the lock with whoever is inside.
LEMMA WriterLocked ==
  ASSUME LockInv, NEW w \in Writers, WriterStep(w)
  PROVE  LockInv'
<1> USE ConfigAssumption DEF LockInv, LockTypes, LockOwned, CopyIsFresh, Inside
<1>1. CASE FailsToOpen(w)
  BY <1>1 DEF FailsToOpen, End
<1>2. CASE Acquire(w)
  BY <1>2 DEF Acquire, LockFree
<1>3. CASE TimeOut(w)
  BY <1>3 DEF TimeOut, LockFree, End
<1>4. CASE Load(w)
  BY <1>4 DEF Load
<1>5. CASE Replace(w)
  <2>1. \A v \in Writers : pc[v] = "loaded" => v = w
    BY <1>5 DEF Replace
  <2>2. \A v \in Writers : pc'[v] # "loaded"
    BY <1>5, <2>1 DEF Replace
  <2> QED BY <1>5, <2>2 DEF Replace
<1>6. CASE ReplaceFails(w)
  BY <1>6 DEF ReplaceFails
<1>7. CASE Release(w)
  BY <1>7 DEF Release, End
<1> QED BY <1>1, <1>2, <1>3, <1>4, <1>5, <1>6, <1>7 DEF WriterStep

\* Beginning a command touches neither the lock nor what was read under it.
LEMMA BeginLocked ==
  ASSUME LockInv, NEW w \in Writers, NEW o, Begin(w, o)
  PROVE  LockInv'
BY DEF Begin, LockInv, LockTypes, LockOwned, CopyIsFresh, Inside

\* Every step keeps the invariant.
LEMMA LockStep == LockInv /\ [Next]_vars => LockInv'
<1> SUFFICES ASSUME LockInv, [Next]_vars PROVE LockInv'
  OBVIOUS
<1>1. CASE \E w \in Writers : CliRuns(w)
  BY <1>1, BeginLocked DEF CliRuns
<1>2. CASE \E w \in Writers : WriterStep(w)
  BY <1>2, WriterLocked
<1>3. CASE \E w \in Writers : Crash(w)
  BY <1>3, ConfigAssumption
     DEF Crash, End, LockInv, LockTypes, LockOwned, CopyIsFresh, Inside
<1>4. CASE \E p \in Panels : PageLoads(p) \/ PageStats(p)
  BY <1>4 DEF PageLoads, PageStats, procVars, LockInv, LockTypes, LockOwned, CopyIsFresh
<1>5. CASE \E p \in Panels, entries \in Payloads : PanelSaves(p, entries)
  BY <1>5, BeginLocked, ConfigAssumption DEF PanelSaves
<1>6. CASE Tick
  BY <1>6 DEF Tick, procVars, LockInv, LockTypes, LockOwned, CopyIsFresh
<1>7. CASE UNCHANGED vars
  BY <1>7 DEF vars, procVars, LockInv, LockTypes, LockOwned, CopyIsFresh
<1> QED BY <1>1, <1>2, <1>3, <1>4, <1>5, <1>6, <1>7 DEF Next

\* In every reachable state the lock belongs to the writer inside, and what a
\* writer read under it is what the file holds.
THEOREM LockInvariant == Spec => []LockInv
BY LockInit, LockStep, PTL DEF Spec

\* The lock is held exactly while its holder is inside update_config
\* (config_store.py lines 134-154), on every way out of it.
THEOREM LockExcludes == Spec => []LockOwned
<1>1. LockInv => LockOwned
  BY DEF LockInv
<1> QED BY <1>1, LockInvariant, PTL

\* Only Replace changes the file.
LEMMA OnlyReplaceWrites ==
  ASSUME Next, file' # file
  PROVE  \E w \in Writers : Replace(w)
<1>1. CASE \E w \in Writers : CliRuns(w)
  BY <1>1 DEF CliRuns, Begin
<1>2. CASE \E w \in Writers : WriterStep(w)
  BY <1>2 DEF WriterStep, FailsToOpen, Acquire, TimeOut, Load, ReplaceFails, Release
<1>3. CASE \E w \in Writers : Crash(w)
  BY <1>3 DEF Crash
<1>4. CASE \E p \in Panels : PageLoads(p) \/ PageStats(p)
  BY <1>4 DEF PageLoads, PageStats
<1>5. CASE \E p \in Panels, entries \in Payloads : PanelSaves(p, entries)
  BY <1>5 DEF PanelSaves, Begin
<1>6. CASE Tick
  BY <1>6 DEF Tick
<1> QED BY <1>1, <1>2, <1>3, <1>4, <1>5, <1>6 DEF Next

\* A change of the file applies one command to the file as it is.
LEMMA AtomicStep ==
  ASSUME LockInv, [Next]_vars
  PROVE  file' # file =>
           \E w \in Writers : Replaces(w) /\ file' = Mutated(op[w], file, ChangedSince(w))
<1> SUFFICES ASSUME file' # file
             PROVE  \E w \in Writers :
                      Replaces(w) /\ file' = Mutated(op[w], file, ChangedSince(w))
  OBVIOUS
<1>1. Next
  BY DEF vars
<1>2. PICK w \in Writers : Replace(w)
  BY <1>1, OnlyReplaceWrites
<1>3. copy[w] = file
  BY <1>2 DEF Replace, LockInv, CopyIsFresh
<1>4. Replaces(w)
  BY <1>2 DEF Replace, Replaces, LockInv, LockTypes
<1> QED BY <1>2, <1>3, <1>4 DEF Replace

\* Concurrent writers merge instead of clobbering each other (config_store.py
\* lines 12-15): each change is its command applied to the present content.
THEOREM AtomicUpdates == Spec => UpdatesAreAtomic
<1>1. LockInv /\ [Next]_vars =>
        [file' # file =>
           \E w \in Writers : Replaces(w) /\ file' = Mutated(op[w], file, ChangedSince(w))]_vars
  BY AtomicStep
<1> QED BY <1>1, LockInvariant, PTL DEF Spec, UpdatesAreAtomic

-----------------------------------------------------------------------------
(* What a command makes of the endpoints. *)

\* A sequence is one of its own elements.
LEMMA Elements ==
  ASSUME NEW S, NEW s \in Seq(S)
  PROVE  /\ s \in Seq(ToSet(s)) /\ ToSet(s) \subseteq S
         /\ \A i \in DOMAIN s : s[i] \in ToSet(s)
         /\ \A x \in ToSet(s) : \E i \in DOMAIN s : s[i] = x
BY DEF ToSet

\* InsertAt keeps every element, in its order, and adds one.
LEMMA Inserted ==
  ASSUME NEW S, NEW s \in Seq(S), NEW i \in 1 .. Len(s) + 1, NEW e \in S
  PROVE  /\ InsertAt(s, i, e) \in Seq(S) /\ Len(InsertAt(s, i, e)) = Len(s) + 1
         /\ ToSet(s) \cup {e} \subseteq ToSet(InsertAt(s, i, e))
         /\ \A k \in DOMAIN s :
              LET to == IF k < i THEN k ELSE k + 1
              IN  to \in DOMAIN InsertAt(s, i, e) /\ InsertAt(s, i, e)[to] = s[k]
<1> DEFINE left == SubSeq(s, 1, i - 1)
           right == SubSeq(s, i, Len(s))
           r == InsertAt(s, i, e)
<1>1. Len(s) \in Nat /\ DOMAIN s = 1 .. Len(s) /\ i \in Nat
  OBVIOUS
<1>2. /\ left \in Seq(S) /\ Len(left) = i - 1 /\ \A k \in 1 .. i - 1 : left[k] = s[k]
  BY <1>1
<1>3. /\ right \in Seq(S) /\ Len(right) = Len(s) - i + 1
      /\ \A k \in 1 .. Len(s) - i + 1 : right[k] = s[i + k - 1]
  BY <1>1
<1>4. r = (left \o <<e>>) \o right
  BY DEF InsertAt
<1> DEFINE head == left \o <<e>>
<1> HIDE DEF left, right, r
<1>5. /\ r \in Seq(S) /\ Len(r) = Len(s) + 1 /\ DOMAIN r = 1 .. Len(s) + 1
      /\ \A k \in 1 .. i - 1 : r[k] = left[k]
      /\ r[i] = e
      /\ \A k \in i + 1 .. Len(s) + 1 : r[k] = right[k - i]
  <2>1. <<e>> \in Seq(S) /\ Len(<<e>>) = 1 /\ <<e>>[1] = e
    OBVIOUS
  <2>2. /\ head \in Seq(S) /\ Len(head) = Len(left) + 1
        /\ \A k \in 1 .. Len(left) + 1 : head[k] = IF k <= Len(left) THEN left[k] ELSE <<e>>[k - Len(left)]
    BY <1>2, <2>1, ConcatProperties
  <2> HIDE DEF head
  <2>3. /\ r \in Seq(S) /\ Len(r) = Len(head) + Len(right)
        /\ \A k \in 1 .. Len(head) + Len(right) :
             r[k] = IF k <= Len(head) THEN head[k] ELSE right[k - Len(head)]
    BY <1>3, <1>4, <2>2, ConcatProperties DEF head
  <2>4. /\ Len(head) = i /\ Len(right) = Len(s) - i + 1 /\ Len(head) + Len(right) = Len(s) + 1
        /\ Len(left) = i - 1 /\ 1 .. Len(left) + 1 = 1 .. i
    BY <1>1, <1>2, <1>3, <2>2
  <2>5. Len(r) = Len(s) + 1 /\ DOMAIN r = 1 .. Len(s) + 1
    BY <2>3, <2>4
  <2>6. \A k \in 1 .. i - 1 : r[k] = left[k]
    <3>1. \A k \in 1 .. i - 1 : k \in 1 .. Len(s) + 1 /\ k \in 1 .. i /\ k <= i /\ k <= i - 1
      BY <1>1
    <3>2. QED
      BY <2>2, <2>3, <2>4, <3>1
  <2>7. r[i] = e
    <3>1. i \in 1 .. Len(s) + 1 /\ i \in 1 .. i /\ i <= i /\ ~(i <= i - 1) /\ i - (i - 1) = 1
      BY <1>1
    <3>2. QED
      BY <2>1, <2>2, <2>3, <2>4, <3>1
  <2>8. \A k \in i + 1 .. Len(s) + 1 : r[k] = right[k - i]
    <3>1. \A k \in i + 1 .. Len(s) + 1 : k \in 1 .. Len(s) + 1 /\ ~(k <= i)
      BY <1>1
    <3>2. QED
      BY <2>3, <2>4, <3>1
  <2>9. QED
    BY <2>3, <2>5, <2>6, <2>7, <2>8
<1>6. ASSUME NEW k \in 1 .. Len(s)
      PROVE  LET to == IF k < i THEN k ELSE k + 1 IN to \in DOMAIN r /\ r[to] = s[k]
  <2>1. CASE k < i
    <3>1. k \in 1 .. i - 1 /\ k \in 1 .. Len(s) + 1
      BY <1>1, <2>1
    <3>2. QED
      BY <1>2, <1>5, <2>1, <3>1
  <2>2. CASE k >= i
    <3>1. /\ k + 1 \in i + 1 .. Len(s) + 1 /\ k + 1 - i \in 1 .. Len(s) - i + 1
          /\ i + (k + 1 - i) - 1 = k
      BY <1>1, <2>2
    <3>a. r[k + 1] = right[k + 1 - i]
      BY <1>5, <3>1
    <3>b. right[k + 1 - i] = s[i + (k + 1 - i) - 1]
      BY <1>3, <3>1
    <3>2. r[k + 1] = right[k + 1 - i] /\ right[k + 1 - i] = s[k]
      BY <3>1, <3>a, <3>b
    <3>3. k + 1 \in DOMAIN r /\ ~(k < i)
      BY <1>1, <1>5, <2>2, <3>1
    <3>4. QED
      BY <3>2, <3>3
  <2>3. QED
    BY <1>1, <2>1, <2>2
<1>7. ToSet(s) \cup {e} \subseteq ToSet(r)
  <2>1. e \in ToSet(r)
    <3>1. i \in DOMAIN r
      BY <1>1, <1>5
    <3>2. QED
      BY <1>5, <3>1 DEF ToSet
  <2>2. ASSUME NEW k \in 1 .. Len(s) PROVE s[k] \in ToSet(r)
    <3>1. \E to \in DOMAIN r : r[to] = s[k]
      BY <1>6
    <3>2. QED
      BY <3>1 DEF ToSet
  <2>3. QED
    BY <1>1, <2>1, <2>2 DEF ToSet
<1>8. QED
  BY <1>1, <1>5, <1>6, <1>7 DEF r

\* RemoveAt loses one element at most.
LEMMA TakenOut ==
  ASSUME NEW S, NEW s \in Seq(S), NEW i \in 1 .. Len(s)
  PROVE  /\ RemoveAt(s, i) \in Seq(S) /\ Len(RemoveAt(s, i)) = Len(s) - 1
         /\ ToSet(s) \subseteq ToSet(RemoveAt(s, i)) \cup {s[i]}
<1> DEFINE left == SubSeq(s, 1, i - 1)
           right == SubSeq(s, i + 1, Len(s))
           r == RemoveAt(s, i)
<1>1. Len(s) \in Nat /\ DOMAIN s = 1 .. Len(s) /\ i \in Nat
  OBVIOUS
<1>2. /\ left \in Seq(S) /\ Len(left) = i - 1 /\ \A k \in 1 .. i - 1 : left[k] = s[k]
  BY <1>1
<1>3. /\ right \in Seq(S) /\ Len(right) = Len(s) - i
      /\ \A k \in 1 .. Len(s) - i : right[k] = s[i + k]
  <2>1. i + 1 \in Int /\ Len(s) \in Int /\ \A k \in i + 1 .. Len(s) : s[k] \in S
    BY <1>1
  <2>2. /\ right \in Seq(S) /\ Len(right) = IF i + 1 <= Len(s) THEN Len(s) - (i + 1) + 1 ELSE 0
        /\ \A k \in 1 .. Len(s) - (i + 1) + 1 : right[k] = s[i + 1 + k - 1]
    BY <2>1, SubSeqProperties
  <2> HIDE DEF right
  <2>3. Len(s) - (i + 1) + 1 = Len(s) - i
    BY <1>1
  <2>4. \A k \in 1 .. Len(s) - i : i + 1 + k - 1 = i + k
    BY <1>1
  <2>5. \A k \in 1 .. Len(s) - i : right[k] = s[i + k]
    BY <2>2, <2>3, <2>4
  <2>6. Len(right) = Len(s) - i
    <3>1. i <= Len(s) /\ i \in Int /\ Len(s) \in Int
      BY <1>1
    <3>2. CASE i + 1 <= Len(s)
      BY <2>2, <2>3, <3>2
    <3>3. CASE ~(i + 1 <= Len(s))
      <4>1. Len(right) = 0
        BY <2>2, <3>3
      <4>2. Len(s) - i = 0
        BY <3>1, <3>3
      <4>3. QED
        BY <4>1, <4>2
    <3>4. QED
      BY <3>2, <3>3
  <2>7. QED
    BY <2>2, <2>5, <2>6
<1>4. r = left \o right
  BY DEF RemoveAt
<1> HIDE DEF left, right, r
<1>5. /\ r \in Seq(S) /\ Len(r) = Len(s) - 1 /\ DOMAIN r = 1 .. Len(s) - 1
      /\ \A k \in 1 .. i - 1 : r[k] = left[k]
      /\ \A k \in i .. Len(s) - 1 : r[k] = right[k - i + 1]
  <2>1. /\ r \in Seq(S) /\ Len(r) = Len(left) + Len(right)
        /\ \A k \in 1 .. Len(left) + Len(right) :
             r[k] = IF k <= Len(left) THEN left[k] ELSE right[k - Len(left)]
    BY <1>2, <1>3, <1>4, ConcatProperties
  <2>2. Len(left) = i - 1 /\ Len(left) + Len(right) = Len(s) - 1
    BY <1>1, <1>2, <1>3
  <2>3. Len(r) = Len(s) - 1 /\ DOMAIN r = 1 .. Len(s) - 1
    BY <2>1, <2>2
  <2>4. \A k \in 1 .. i - 1 : k \in 1 .. Len(s) - 1 /\ k <= i - 1
    BY <1>1
  <2>5. ASSUME NEW k \in i .. Len(s) - 1
        PROVE  k \in 1 .. Len(s) - 1 /\ ~(k <= i - 1) /\ k - (i - 1) = k - i + 1
    <3>1. k \in Int /\ k >= i /\ k <= Len(s) - 1 /\ i >= 1
      BY <1>1
    <3>2. QED
      BY <1>1, <3>1
  <2>6. \A k \in 1 .. i - 1 : r[k] = left[k]
    BY <2>1, <2>2, <2>4
  <2>7. \A k \in i .. Len(s) - 1 : r[k] = right[k - i + 1]
    BY <2>1, <2>2, <2>5
  <2>8. QED
    BY <2>1, <2>3, <2>6, <2>7
<1>6. ASSUME NEW k \in 1 .. Len(s), k # i PROVE s[k] \in ToSet(r)
  <2>1. CASE k < i
    <3>0. k \in 1 .. i - 1 /\ k \in 1 .. Len(s) - 1
      BY <1>1, <2>1
    <3>1. k \in DOMAIN r /\ r[k] = s[k]
      BY <1>2, <1>5, <3>0
    <3>2. QED
      BY <3>1 DEF ToSet
  <2>2. CASE k > i
    <3>1. k - 1 \in i .. Len(s) - 1 /\ k - i \in 1 .. Len(s) - i /\ (k - 1) - i + 1 = k - i
          /\ i + (k - i) = k
      BY <1>1, <2>2
    <3>a. k - 1 \in 1 .. Len(s) - 1 /\ r[k - 1] = right[(k - 1) - i + 1]
      BY <1>1, <1>5, <3>1
    <3>b. right[k - i] = s[i + (k - i)]
      BY <1>3, <3>1
    <3>2. k - 1 \in DOMAIN r /\ r[k - 1] = s[k]
      BY <1>5, <3>1, <3>a, <3>b
    <3>3. QED
      BY <3>2 DEF ToSet
  <2>3. QED
    BY <1>1, <1>6, <2>1, <2>2
<1>7. ToSet(s) \subseteq ToSet(r) \cup {s[i]}
  BY <1>1, <1>6 DEF ToSet
<1>8. QED
  BY <1>5, <1>7 DEF r

PayloadEntries == [base : Bases, key : Keys \cup {NoKey}]

\* The stored key of an entry is that of an endpoint with its base URL.
LEMMA StoredIs ==
  ASSUME NEW config \in Seq(Endpoints), NEW entries, NEW i
  PROVE  \/ StoredKey(config, entries, i) = NoKey
         \/ \E k \in Occurs(entries[i].base, config) : StoredKey(config, entries, i) = config[k].key
<1> DEFINE I == {k \in 1 .. Len(config) : config[k].base = entries[i].base}
           last == IF I # {} THEN Max(I) ELSE 0
<1>1. StoredKey(config, entries, i) = IF last = 0 THEN NoKey ELSE config[last].key
  BY DEF StoredKey, SelectLastInSeq
<1>2. Len(config) \in Nat /\ DOMAIN config = 1 .. Len(config)
  OBVIOUS
<1>3. CASE I = {}
  BY <1>1, <1>3
<1>4. CASE I # {}
  <2>1. I \in SUBSET (1 .. Len(config))
    OBVIOUS
  <2>2. last = Max(I)
    BY <1>4
  <2> HIDE DEF I, last
  <2>3. last \in I
    BY <1>2, <1>4, <2>1, <2>2, LastOf
  <2>4. last \in Occurs(entries[i].base, config) /\ last # 0
    BY <1>2, <2>3 DEF I, Occurs
  <2>5. QED
    BY <1>1, <2>4
<1>5. QED
  BY <1>3, <1>4

\* Filling in the keys changes only the keys left out, and takes them from
\* the endpoint with the same base URL (config_ui.py, _save).
LEMMA WithKeysIs ==
  ASSUME NEW config \in Seq(Endpoints), NEW entries \in Seq(PayloadEntries)
  PROVE  /\ WithKeys(config, entries) \in Seq(PayloadEntries)
         /\ DOMAIN WithKeys(config, entries) = DOMAIN entries
         /\ \A i \in DOMAIN entries :
              LET e == WithKeys(config, entries)[i]
              IN  /\ e.base = entries[i].base
                  /\ entries[i].key = NoKey =>
                       \/ e.key = NoKey
                       \/ \E k \in Occurs(entries[i].base, config) : e.key = config[k].key
<1> DEFINE after == WithKeys(config, entries)
<1>1. /\ DOMAIN entries = 1 .. Len(entries) /\ Len(entries) \in Nat
      /\ \A i \in DOMAIN entries : entries[i] \in PayloadEntries
  OBVIOUS
<1>2. after = [i \in DOMAIN entries |->
               IF entries[i].key = NoKey
               THEN [entries[i] EXCEPT !.key = StoredKey(config, entries, i)]
               ELSE entries[i]]
  BY DEF WithKeys
<1> HIDE DEF after
<1>3. ASSUME NEW i \in DOMAIN entries
      PROVE  /\ after[i] \in PayloadEntries /\ after[i].base = entries[i].base
             /\ entries[i].key = NoKey =>
                  \/ after[i].key = NoKey
                  \/ \E k \in Occurs(entries[i].base, config) : after[i].key = config[k].key
  <2>1. CASE entries[i].key = NoKey
    <3> DEFINE stored == StoredKey(config, entries, i)
    <3>1. \/ stored = NoKey
          \/ \E k \in Occurs(entries[i].base, config) : stored = config[k].key
      BY StoredIs
    <3>2. stored \in Keys \cup {NoKey}
      <4>1. \A k \in DOMAIN config : config[k] \in Endpoints
        OBVIOUS
      <4>2. QED
        BY <3>1, <4>1 DEF Occurs, Endpoints
    <3> HIDE DEF stored
    <3>3. after[i] = [entries[i] EXCEPT !.key = stored]
      BY <1>2, <2>1 DEF stored
    <3>4. after[i] \in PayloadEntries /\ after[i].base = entries[i].base /\ after[i].key = stored
      BY <1>1, <3>2, <3>3 DEF PayloadEntries
    <3>5. QED
      BY <3>1, <3>4
  <2>2. CASE entries[i].key # NoKey
    BY <1>1, <1>2, <2>2
  <2>3. QED
    BY <2>1, <2>2
<1>4. DOMAIN after = DOMAIN entries /\ after \in Seq(PayloadEntries)
  <2>1. DOMAIN after = DOMAIN entries /\ after = [i \in 1 .. Len(entries) |-> after[i]]
    BY <1>1, <1>2
  <2>2. QED
    BY <1>1, <1>3, <2>1
<1>5. QED
  BY <1>3, <1>4 DEF after

\* What is preserved comes from the file; when the file changed, nothing the
\* payload lacks is lost.  By induction along the fold.
LEMMA PreservedIs ==
  ASSUME NEW config \in Seq(Endpoints), NEW entries, NEW changed
  PROVE  /\ Preserved(config, entries, changed) \in Seq(ToSet(config))
         /\ changed => \A i \in DOMAIN config :
              config[i].base \in BasesOf(entries) \/ config[i] \in ToSet(Preserved(config, entries, changed))
<1> DEFINE Y == ToSet(config)
           step == [p \in Seq(Y) \X Y |-> Spared(p[1], p[2], entries)]
           Steps(iter) == iter = [s \in SUBSET DOMAIN config |->
              IF s = {} THEN <<>> ELSE Spared(iter[s \ {Max(s)}], config[Max(s)], entries)]
           fold == CHOOSE iter : Steps(iter)
           X == [n \in 0 .. Len(config) |->
                  {kept \in Seq(Y) : \A i \in 1 .. n :
                     config[i].base \in BasesOf(entries) \/ config[i] \in ToSet(kept)}]
<1>1. /\ config \in Seq(Y) /\ DOMAIN config = 1 .. Len(config) /\ Len(config) \in Nat
      /\ \A i \in DOMAIN config : config[i] \in Y /\ config[i].key # NoKey
  <2>1. config \in Seq(Y) /\ \A i \in DOMAIN config : config[i] \in Y
    BY Elements
  <2>2. \A i \in DOMAIN config : config[i] \in Endpoints
    OBVIOUS
  <2>3. \A i \in DOMAIN config : config[i].key \in Keys
    BY <2>2 DEF Endpoints
  <2>4. QED
    BY <2>1, <2>3, MutatorAssumption
<1> HIDE DEF Y
<1>2. \A s \in SUBSET DOMAIN config : s # {} => Max(s) \in s /\ config[Max(s)] \in Y
  BY <1>1, LastOfSeq
<1>3. PICK iter \in [SUBSET DOMAIN config -> Seq(Y)] :
        IsFold(iter, <<>>, config, step, DOMAIN config)
  <2>1. step \in [Seq(Y) \X Y -> Seq(Y)] /\ <<>> \in Seq(Y)
    BY DEF Spared
  <2> HIDE DEF step
  <2>2. QED
    BY <1>1, <2>1, FoldExists
<1>4. Steps(iter)
  BY <1>2, <1>3 DEF IsFold
<1>5. Steps(fold)
  BY <1>4
<1>6. changed => Preserved(config, entries, changed) = fold[DOMAIN config]
  BY DEF Preserved, FoldLeft, MapThenFoldSet
<1> HIDE DEF fold
<1>7. fold[{}] \in X[0]
  <2>1. fold[{}] = <<>> /\ <<>> \in Seq(Y) /\ 1 .. 0 = {} /\ 0 \in 0 .. Len(config)
    BY <1>1, <1>5
  <2>2. QED
    BY <2>1
<1>8. ASSUME NEW n \in 1 .. Len(config), Max(1 .. n) = n, (1 .. n) \ {n} = 1 .. n - 1,
             fold[1 .. n - 1] \in X[n - 1]
      PROVE  fold[1 .. n] \in X[n]
  <2> DEFINE before == fold[1 .. n - 1]
             after == fold[1 .. n]
  <2>0. n \in Nat /\ n - 1 \in 0 .. Len(config) /\ n \in 0 .. Len(config)
    BY <1>1
  <2>1. before \in Seq(Y) /\ \A i \in 1 .. n - 1 :
          config[i].base \in BasesOf(entries) \/ config[i] \in ToSet(before)
    BY <1>8, <2>0
  <2>2. after = Spared(before, config[n], entries)
    <3>1. 1 .. n \in SUBSET DOMAIN config /\ 1 .. n # {}
      BY <1>1, <2>0
    <3>2. QED
      BY <1>5, <1>8, <3>1
  <2> HIDE DEF before, after
  <2>3. config[n] \in Y /\ config[n].key # NoKey
    BY <1>1
  <2>4. CASE config[n].base \in BasesOf(entries)
    <3>1. after = before
      BY <2>2, <2>4 DEF Spared
    <3>2. \A i \in 1 .. n : i = n \/ i \in 1 .. n - 1
      BY <2>0
    <3>3. after \in Seq(Y) /\ \A i \in 1 .. n :
            config[i].base \in BasesOf(entries) \/ config[i] \in ToSet(after)
      BY <2>1, <2>4, <3>1, <3>2
    <3>4. QED
      BY <2>0, <3>3 DEF after
  <2>5. CASE config[n].base \notin BasesOf(entries)
    <3>1. after = Append(before, config[n])
      BY <2>2, <2>3, <2>5 DEF Spared
    <3>0. /\ after \in Seq(Y) /\ Len(after) = Len(before) + 1 /\ after[Len(before) + 1] = config[n]
          /\ \A i \in 1 .. Len(before) : after[i] = before[i]
      BY <2>1, <2>3, <3>1, AppendProperties
    <3>a. /\ Len(before) \in Nat /\ DOMAIN before = 1 .. Len(before)
          /\ DOMAIN after = 1 .. Len(before) + 1
      BY <2>1, <3>0
    <3>b. config[n] \in ToSet(after)
      <4>1. Len(before) + 1 \in DOMAIN after
        BY <3>a
      <4>2. QED
        BY <3>0, <4>1 DEF ToSet
    <3>c. ToSet(before) \subseteq ToSet(after)
      <4>1. \A i \in DOMAIN before : i \in DOMAIN after /\ after[i] = before[i]
        BY <3>0, <3>a
      <4>2. QED
        BY <4>1 DEF ToSet
    <3>2. after \in Seq(Y) /\ ToSet(before) \subseteq ToSet(after) /\ config[n] \in ToSet(after)
      BY <3>0, <3>b, <3>c
    <3>3. \A i \in 1 .. n : i = n \/ i \in 1 .. n - 1
      BY <2>0
    <3>4. \A i \in 1 .. n : config[i].base \in BasesOf(entries) \/ config[i] \in ToSet(after)
      BY <2>1, <3>2, <3>3
    <3>5. QED
      BY <2>0, <3>2, <3>4 DEF after
  <2>6. QED
    BY <2>4, <2>5
<1>9. fold[DOMAIN config] \in X[Len(config)]
  <2> HIDE DEF X
  <2>1. QED
    BY <1>1, <1>7, <1>8, FoldAlong
<1>10. Len(config) \in 0 .. Len(config)
  BY <1>1
<1>11. fold[DOMAIN config] \in Seq(Y) /\ \A i \in 1 .. Len(config) :
         config[i].base \in BasesOf(entries) \/ config[i] \in ToSet(fold[DOMAIN config])
  BY <1>9, <1>10
<1>12. ~changed => Preserved(config, entries, changed) = <<>>
  BY DEF Preserved
<1>13. <<>> \in Seq(Y)
  OBVIOUS
<1>14. QED
  BY <1>1, <1>6, <1>11, <1>12, <1>13 DEF Y

IsCommand(o) ==
  \/ o \in AddOps(Indices) \/ o \in RemoveOps(Indices) \/ o \in ReorderOps(Indices)
  \/ o \in [kind : {"save"}, entries : Seq(PayloadEntries)]

\* The indices of the assumption, by themselves.
LEMMA IndicesAreNat == Indices \subseteq Nat
BY ConfigAssumption

\* config add loses nothing.
LEMMA AddedIs ==
  ASSUME NEW config \in Seq(Endpoints), NEW o \in AddOps(Indices)
  PROVE  /\ Added(config, o.entry, o.index) \in Seq(Endpoints)
         /\ Added(config, o.entry, o.index) # <<>>
         /\ ToSet(config) \subseteq ToSet(Added(config, o.entry, o.index))
<1> DEFINE at == IF o.index < Len(config) THEN o.index ELSE Len(config)
<1>1. o.entry \in Endpoints /\ o.index \in Nat /\ Len(config) \in Nat
  <2>1. o.entry \in Endpoints /\ o.index \in Indices
    BY DEF AddOps
  <2>2. Indices \subseteq Nat /\ Len(config) \in Nat
    BY IndicesAreNat
  <2>3. QED
    BY <2>1, <2>2
<1>2. at + 1 \in 1 .. Len(config) + 1
  BY <1>1
<1>3. Added(config, o.entry, o.index) = InsertAt(config, at + 1, o.entry)
  BY DEF Added
<1> HIDE DEF at
<1>4. /\ InsertAt(config, at + 1, o.entry) \in Seq(Endpoints)
      /\ Len(InsertAt(config, at + 1, o.entry)) = Len(config) + 1
      /\ ToSet(config) \subseteq ToSet(InsertAt(config, at + 1, o.entry))
  BY <1>1, <1>2, Inserted
<1>5. InsertAt(config, at + 1, o.entry) # <<>>
  BY <1>1, <1>4
<1>6. QED
  BY <1>3, <1>4, <1>5

\* config remove invents nothing, and empties the list only with --yes.
LEMMA RemovedIs ==
  ASSUME NEW config \in Seq(Endpoints), NEW o \in RemoveOps(Indices)
  PROVE  /\ Removed(config, o.index, o.yes) \in Seq(ToSet(config))
         /\ (config # <<>> /\ Removed(config, o.index, o.yes) = <<>>) => o.yes
<1> DEFINE r == Removed(config, o.index, o.yes)
<1>1. o.index \in Nat /\ Len(config) \in Nat /\ config \in Seq(ToSet(config))
  <2>1. o.index \in Indices
    BY DEF RemoveOps
  <2>2. config \in Seq(ToSet(config))
    BY Elements
  <2>3. Indices \subseteq Nat /\ Len(config) \in Nat
    BY IndicesAreNat
  <2>4. QED
    BY <2>1, <2>2, <2>3
<1>2. CASE MayRemove(config, o.index, o.yes)
  <2>1. /\ o.index + 1 \in 1 .. Len(config) /\ r = RemoveAt(config, o.index + 1)
        /\ Len(config) # 1 \/ o.yes
    BY <1>1, <1>2 DEF MayRemove, Removed
  <2>2. r \in Seq(ToSet(config)) /\ Len(r) = Len(config) - 1
    <3> DEFINE Y == ToSet(config)
    <3>1. config \in Seq(Y)
      BY <1>1
    <3> HIDE DEF Y, r
    <3>2. r \in Seq(Y) /\ Len(r) = Len(config) - 1
      BY <2>1, <3>1, TakenOut
    <3>3. QED
      BY <3>2 DEF Y
  <2> HIDE DEF r
  <2>3. r = <<>> => Len(r) = 0
    OBVIOUS
  <2>4. r = <<>> => o.yes
    BY <1>1, <2>1, <2>2, <2>3
  <2>5. QED
    BY <2>2, <2>4 DEF r
<1>3. CASE ~MayRemove(config, o.index, o.yes)
  BY <1>1, <1>3 DEF Removed
<1>4. QED
  BY <1>2, <1>3

\* config reorder neither loses nor invents anything.
LEMMA ReorderedIs ==
  ASSUME NEW config \in Seq(Endpoints), NEW o \in ReorderOps(Indices)
  PROVE  /\ Reordered(config, o.index, o.to) \in Seq(ToSet(config))
         /\ ToSet(config) \subseteq ToSet(Reordered(config, o.index, o.to))
<1> DEFINE Y == ToSet(config)
           r == Reordered(config, o.index, o.to)
           out == RemoveAt(config, o.index + 1)
<1>1. /\ o.index \in Nat /\ o.to \in Nat /\ Len(config) \in Nat
      /\ config \in Seq(Y) /\ \A i \in DOMAIN config : config[i] \in Y
  <2>1. o.index \in Indices /\ o.to \in Indices
    BY DEF ReorderOps
  <2>2. config \in Seq(Y) /\ \A i \in DOMAIN config : config[i] \in Y
    BY Elements
  <2>3. Indices \subseteq Nat /\ Len(config) \in Nat
    BY IndicesAreNat
  <2>4. QED
    BY <2>1, <2>2, <2>3
<1>2. CASE o.index < Len(config) /\ o.to < Len(config)
  <2>1. /\ o.index + 1 \in 1 .. Len(config) /\ o.to + 1 \in 1 .. (Len(config) - 1) + 1
        /\ r = InsertAt(out, o.to + 1, config[o.index + 1])
    BY <1>1, <1>2 DEF Reordered
  <2>2. config[o.index + 1] \in Y
    BY <1>1, <2>1
  <2> HIDE DEF Y, r
  <2>3. /\ out \in Seq(Y) /\ Len(out) = Len(config) - 1
        /\ ToSet(config) \subseteq ToSet(out) \cup {config[o.index + 1]}
    BY <1>1, <2>1, TakenOut
  <2> HIDE DEF out
  <2>4. o.to + 1 \in 1 .. Len(out) + 1
    BY <2>1, <2>3
  <2>5. r \in Seq(Y) /\ ToSet(out) \cup {config[o.index + 1]} \subseteq ToSet(r)
    BY <2>1, <2>2, <2>3, <2>4, Inserted
  <2>6. QED
    BY <2>3, <2>5 DEF r, Y
<1>3. CASE ~(o.index < Len(config) /\ o.to < Len(config))
  BY <1>1, <1>3 DEF Reordered
<1>4. QED
  BY <1>2, <1>3

\* What an accepted save makes of the file: nothing goes when the file changed
\* after the page had loaded it, and every endpoint of the result is one of
\* the file or one of the payload, with the key it had in the file.
LEMMA SavedIs ==
  ASSUME NEW config \in Seq(Endpoints), NEW entries \in Seq(PayloadEntries), NEW changed,
         Saved(config, entries, changed) # config
  PROVE  LET r == Saved(config, entries, changed)
         IN  /\ r \in Seq(Endpoints) /\ r # <<>>
             /\ \A base \in BasesOf(config) \ BasesOf(r) : ~changed
             /\ \A j \in DOMAIN r :
                  \/ r[j] \in ToSet(config)
                  \/ /\ j \in DOMAIN entries /\ entries[j].base = r[j].base
                     /\ entries[j].key = NoKey =>
                          \E k \in Occurs(r[j].base, config) : r[j].key = config[k].key
<1> DEFINE r == Saved(config, entries, changed)
           head == WithKeys(config, entries)
           tail == Preserved(config, entries, changed)
<1>1. r = head \o tail /\ r # <<>> /\ \A i \in DOMAIN r : r[i].key # NoKey
  BY DEF Saved
<1>2. /\ head \in Seq(PayloadEntries) /\ DOMAIN head = DOMAIN entries
      /\ \A i \in DOMAIN entries :
           /\ head[i].base = entries[i].base
           /\ entries[i].key = NoKey =>
                \/ head[i].key = NoKey
                \/ \E k \in Occurs(entries[i].base, config) : head[i].key = config[k].key
  BY WithKeysIs
<1>3. /\ tail \in Seq(ToSet(config))
      /\ changed => \A i \in DOMAIN config :
           config[i].base \in BasesOf(entries) \/ config[i] \in ToSet(tail)
  BY PreservedIs
<1> HIDE DEF head, tail, r
<1>4. /\ Endpoints \subseteq PayloadEntries /\ ToSet(config) \subseteq Endpoints
      /\ \A e \in PayloadEntries : e.key # NoKey => e \in Endpoints
  <2>1. ToSet(config) \subseteq Endpoints
    BY Elements
  <2>2. QED
    BY <2>1 DEF Endpoints, PayloadEntries
<1>5. tail \in Seq(PayloadEntries) /\ \A k \in DOMAIN tail : tail[k] \in ToSet(config)
  <2>1. \A k \in DOMAIN tail : tail[k] \in ToSet(config)
    BY <1>3
  <2>2. tail = [k \in 1 .. Len(tail) |-> tail[k]] /\ Len(tail) \in Nat /\ DOMAIN tail = 1 .. Len(tail)
    BY <1>3
  <2>3. \A k \in 1 .. Len(tail) : tail[k] \in PayloadEntries
    BY <1>4, <2>1, <2>2
  <2>4. QED
    BY <2>1, <2>2, <2>3
<1>6. /\ r \in Seq(PayloadEntries) /\ Len(r) = Len(head) + Len(tail)
      /\ \A i \in 1 .. Len(head) + Len(tail) :
           r[i] = IF i <= Len(head) THEN head[i] ELSE tail[i - Len(head)]
  BY <1>1, <1>2, <1>5, ConcatProperties
<1>7. /\ Len(head) \in Nat /\ DOMAIN head = 1 .. Len(head)
      /\ Len(tail) \in Nat /\ DOMAIN tail = 1 .. Len(tail)
      /\ DOMAIN r = 1 .. Len(head) + Len(tail)
      /\ \A i \in DOMAIN r : r[i] \in PayloadEntries
  BY <1>2, <1>5, <1>6
<1>8. r \in Seq(Endpoints)
  <2>1. \A i \in DOMAIN r : r[i] \in Endpoints
    BY <1>1, <1>4, <1>7
  <2>2. r = [i \in 1 .. Len(r) |-> r[i]] /\ Len(r) \in Nat /\ DOMAIN r = 1 .. Len(r)
    BY <1>6
  <2>3. QED
    BY <2>1, <2>2
<1>9. ASSUME NEW j \in DOMAIN r
      PROVE  \/ r[j] \in ToSet(config)
             \/ /\ j \in DOMAIN entries /\ entries[j].base = r[j].base
                /\ entries[j].key = NoKey =>
                     \E k \in Occurs(r[j].base, config) : r[j].key = config[k].key
  <2>0. j \in 1 .. Len(head) + Len(tail) /\ j \in Int
    BY <1>7
  <2>1. CASE j <= Len(head)
    <3>1. j \in DOMAIN entries /\ r[j] = head[j]
      BY <1>2, <1>6, <1>7, <2>0, <2>1
    <3>2. r[j].key # NoKey
      BY <1>1
    <3>3. QED
      BY <1>2, <3>1, <3>2
  <2>2. CASE ~(j <= Len(head))
    <3>1. j - Len(head) \in 1 .. Len(tail)
      BY <1>7, <2>0, <2>2
    <3>2. r[j] = tail[j - Len(head)]
      BY <1>6, <2>0, <2>2
    <3>3. QED
      BY <1>5, <1>7, <3>1, <3>2
  <2>3. QED
    BY <2>1, <2>2
<1>10. ASSUME NEW base \in BasesOf(config) \ BasesOf(r), changed PROVE FALSE
  <2>1. PICK i \in DOMAIN config : config[i].base = base
    BY DEF BasesOf
  <2>2. CASE base \in BasesOf(entries)
    <3>1. PICK k \in DOMAIN entries : entries[k].base = base
      BY <2>2 DEF BasesOf
    <3>2. k \in 1 .. Len(head) + Len(tail) /\ k <= Len(head)
      BY <1>2, <1>7
    <3>3. k \in DOMAIN r /\ r[k].base = base
      BY <1>2, <1>6, <1>7, <3>1, <3>2
    <3>4. QED
      BY <3>3 DEF BasesOf
  <2>3. CASE base \notin BasesOf(entries)
    <3>1. config[i] \in ToSet(tail)
      BY <1>3, <1>10, <2>1, <2>3
    <3>2. PICK k \in DOMAIN tail : tail[k] = config[i]
      BY <3>1 DEF ToSet
    <3>3. /\ k + Len(head) \in 1 .. Len(head) + Len(tail) /\ ~(k + Len(head) <= Len(head))
          /\ (k + Len(head)) - Len(head) = k
      BY <1>7
    <3>4. k + Len(head) \in DOMAIN r /\ r[k + Len(head)] = config[i]
      <4>1. r[k + Len(head)] = tail[(k + Len(head)) - Len(head)]
        BY <1>6, <3>3
      <4>2. QED
        BY <1>7, <3>2, <3>3, <4>1
    <3>5. QED
      BY <2>1, <3>4 DEF BasesOf
  <2>4. QED
    BY <2>2, <2>3
<1>11. \A base \in BasesOf(config) \ BasesOf(r) : ~changed
  BY <1>10
<1>12. QED
  BY <1>1, <1>8, <1>9, <1>11 DEF r

KeepsItsKey(base, config, r) ==
  \A i \in Occurs(base, config), j \in Occurs(base, r) :
    Occurs(base, config) = {i} /\ Occurs(base, r) = {j} => r[j].key = config[i].key

\* Where nothing is lost, or nothing invented, no key changes.
LEMMA KeptInPlace ==
  ASSUME NEW config \in Seq(Endpoints), NEW r, NEW o, NEW base,
         \/ ToSet(config) \subseteq ToSet(r)
         \/ \A j \in DOMAIN r : r[j] \in ToSet(config)
  PROVE  KeepsItsKey(base, config, r)
<1> SUFFICES ASSUME NEW i \in Occurs(base, config), NEW j \in Occurs(base, r),
                    Occurs(base, config) = {i}, Occurs(base, r) = {j}
             PROVE  r[j].key = config[i].key
  BY DEF KeepsItsKey
<1>1. i \in DOMAIN config /\ config[i].base = base /\ j \in DOMAIN r /\ r[j].base = base
  BY DEF Occurs
<1>2. CASE ToSet(config) \subseteq ToSet(r)
  <2>1. PICK k \in DOMAIN r : r[k] = config[i]
    BY <1>1, <1>2 DEF ToSet
  <2>2. k = j
    BY <1>1, <2>1 DEF Occurs
  <2>3. QED
    BY <2>1, <2>2
<1>3. CASE \A k \in DOMAIN r : r[k] \in ToSet(config)
  <2>1. PICK k \in DOMAIN config : config[k] = r[j]
    BY <1>1, <1>3 DEF ToSet
  <2>2. k = i
    BY <1>1, <2>1 DEF Occurs
  <2>3. QED
    BY <2>1, <2>2
<1>4. QED
  BY <1>2, <1>3

TypesKey(o, base) == o.kind = "save" /\ \E i \in Occurs(base, o.entries) : o.entries[i].key # NoKey

\* Fewer endpoints, fewer base URLs.
LEMMA SubsetBases ==
  ASSUME NEW s, NEW t, ToSet(s) \subseteq ToSet(t)
  PROVE  BasesOf(s) \subseteq BasesOf(t)
<1>1. ASSUME NEW i \in DOMAIN s PROVE s[i].base \in BasesOf(t)
  <2>1. PICK j \in DOMAIN t : t[j] = s[i]
    BY DEF ToSet
  <2>2. QED
    BY <2>1 DEF BasesOf
<1>2. QED
  BY <1>1 DEF BasesOf

\* What a command makes of the file, whatever the command and the file
\* (cli.py, _cmd_config; config_ui.py, _save): a list of endpoints again, that
\* only a remove with --yes empties, that loses an endpoint only to a remove or
\* to the save of a page up to date, and a key only to one that was typed.
THEOREM MutatedIs ==
  ASSUME NEW config \in Seq(Endpoints), NEW o, IsCommand(o), NEW changed
  PROVE  LET r == Mutated(o, config, changed)
         IN  /\ r \in Seq(Endpoints)
             /\ config # <<>> /\ r = <<>> => o.kind = "remove" /\ o.yes
             /\ \A base \in BasesOf(config) \ BasesOf(r) :
                  o.kind = "remove" \/ (o.kind = "save" /\ ~changed)
             /\ \A base \in Bases : TypesKey(o, base) \/ KeepsItsKey(base, config, r)
<1> DEFINE r == Mutated(o, config, changed)
<1>1. CASE o \in AddOps(Indices)
  <2>1. o.kind = "add" /\ r = Added(config, o.entry, o.index)
    BY <1>1 DEF AddOps, Mutated
  <2>2. r \in Seq(Endpoints) /\ r # <<>> /\ ToSet(config) \subseteq ToSet(r)
    BY <1>1, <2>1, AddedIs
  <2> HIDE DEF r
  <2>3. BasesOf(config) \subseteq BasesOf(r) /\ \A base : KeepsItsKey(base, config, r)
    BY <2>2, SubsetBases, KeptInPlace
  <2>4. QED
    BY <2>2, <2>3 DEF r
<1>2. CASE o \in RemoveOps(Indices)
  <2>1. o.kind = "remove" /\ r = Removed(config, o.index, o.yes)
    BY <1>2 DEF RemoveOps, Mutated
  <2>2. r \in Seq(ToSet(config)) /\ (config # <<>> /\ r = <<>> => o.yes)
    BY <1>2, <2>1, RemovedIs
  <2> HIDE DEF r
  <2>3. ToSet(config) \subseteq Endpoints /\ \A j \in DOMAIN r : r[j] \in ToSet(config)
    BY <2>2, Elements
  <2>4. \A base : KeepsItsKey(base, config, r)
    BY <2>3, KeptInPlace
  <2>5. r \in Seq(Endpoints)
    BY <2>2, <2>3, Elements
  <2>6. QED
    BY <2>1, <2>2, <2>4, <2>5 DEF r
<1>3. CASE o \in ReorderOps(Indices)
  <2>1. o.kind = "reorder" /\ r = Reordered(config, o.index, o.to)
    BY <1>3 DEF ReorderOps, Mutated
  <2>2. r \in Seq(ToSet(config)) /\ ToSet(config) \subseteq ToSet(r)
    BY <1>3, <2>1, ReorderedIs
  <2> HIDE DEF r
  <2>3. ToSet(config) \subseteq Endpoints
    BY Elements
  <2>4. BasesOf(config) \subseteq BasesOf(r) /\ \A base : KeepsItsKey(base, config, r)
    BY <2>2, SubsetBases, KeptInPlace
  <2>5. r \in Seq(Endpoints)
    BY <2>2, <2>3
  <2>6. config # <<>> => r # <<>>
    <3>1. SUFFICES ASSUME config # <<>>, r = <<>> PROVE FALSE
      OBVIOUS
    <3>2. 1 \in DOMAIN config
      BY <3>1
    <3>3. config[1] \in ToSet(r)
      BY <2>2, <3>2 DEF ToSet
    <3>4. QED
      BY <3>1, <3>3 DEF ToSet
  <2>7. QED
    BY <2>4, <2>5, <2>6 DEF r
<1>4. CASE o \in [kind : {"save"}, entries : Seq(PayloadEntries)]
  <2>1. o.kind = "save" /\ o.entries \in Seq(PayloadEntries) /\ r = Saved(config, o.entries, changed)
    BY <1>4 DEF Mutated
  <2>2. CASE r = config
    <3>1. \A base : KeepsItsKey(base, config, r)
      <4>1. ToSet(config) \subseteq ToSet(r)
        BY <2>2
      <4> HIDE DEF r
      <4>2. QED
        BY <4>1, KeptInPlace
    <3> HIDE DEF r
    <3>2. QED
      BY <2>2, <3>1 DEF r
  <2>3. CASE r # config
    <3>1. /\ r \in Seq(Endpoints) /\ r # <<>>
          /\ \A base \in BasesOf(config) \ BasesOf(r) : ~changed
          /\ \A j \in DOMAIN r :
               \/ r[j] \in ToSet(config)
               \/ /\ j \in DOMAIN o.entries /\ o.entries[j].base = r[j].base
                  /\ o.entries[j].key = NoKey =>
                       \E k \in Occurs(r[j].base, config) : r[j].key = config[k].key
      BY <2>1, <2>3, SavedIs
    <3> HIDE DEF r
    <3>2. ASSUME NEW base, ~TypesKey(o, base) PROVE KeepsItsKey(base, config, r)
      <4> SUFFICES ASSUME NEW i \in Occurs(base, config), NEW j \in Occurs(base, r),
                          Occurs(base, config) = {i}, Occurs(base, r) = {j}
                   PROVE  r[j].key = config[i].key
        BY DEF KeepsItsKey
      <4>1. j \in DOMAIN r /\ r[j].base = base
        BY DEF Occurs
      <4>2. CASE r[j] \in ToSet(config)
        <5>1. PICK k \in DOMAIN config : config[k] = r[j]
          BY <4>2 DEF ToSet
        <5>2. k = i
          BY <4>1, <5>1 DEF Occurs
        <5>3. QED
          BY <5>1, <5>2
      <4>3. CASE r[j] \notin ToSet(config)
        <5>1. /\ j \in DOMAIN o.entries /\ o.entries[j].base = base
              /\ o.entries[j].key = NoKey =>
                   \E k \in Occurs(base, config) : r[j].key = config[k].key
          BY <3>1, <4>1, <4>3
        <5>2. o.entries[j].key = NoKey
          BY <2>1, <3>2, <5>1 DEF TypesKey, Occurs
        <5>3. QED
          BY <5>1, <5>2
      <4>4. QED
        BY <4>2, <4>3
    <3>3. QED
      BY <2>1, <3>1, <3>2 DEF r
  <2>4. QED
    BY <2>2, <2>3
<1>5. QED
  BY <1>1, <1>2, <1>3, <1>4 DEF IsCommand

-----------------------------------------------------------------------------
Pages == [stage : {"closed", "half", "open"}, shown : SUBSET Bases,
          loadedAt : Nat \cup {NoTime}, clean : BOOLEAN]

StoreTypes ==
  /\ file \in Seq(Endpoints) /\ exists \in BOOLEAN
  /\ mtime \in Nat /\ now \in Nat /\ mtime <= now
  /\ DOMAIN op = Writers /\ view \in [Panels -> Pages]

\* Whoever is on the way to the write has a command; who saves has an open page.
CommandsGiven ==
  \A w \in Writers : pc[w] \in {"waiting", "locked", "loaded"} =>
    /\ IsCommand(op[w])
    /\ op[w].kind = "save" => w \in Panels /\ view[w].stage = "open"

\* A clean page shows the file as it is, or a version the clock tells from it.
PagesTrue ==
  \A p \in Panels : view[p].clean =>
    /\ view[p].stage = "half" => exists /\ view[p].shown = BasesOf(file)
    /\ view[p].stage = "open" =>
         /\ view[p].loadedAt # NoTime /\ view[p].loadedAt <= mtime
         /\ view[p].loadedAt = mtime => view[p].shown = BasesOf(file)

StoreInv == StoreTypes /\ CommandsGiven /\ PagesTrue

\* The invariant holds at the start, with every page closed.
LEMMA StoreInit == Init => StoreInv
<1> SUFFICES ASSUME Init PROVE StoreInv
  OBVIOUS
<1>1. StoreTypes
  <2>1. file \in Seq(Endpoints) /\ exists \in BOOLEAN
    <3>1. StartFiles \subseteq Seq(Endpoints) /\ DirAtStart \subseteq BOOLEAN
      BY ConfigAssumption
    <3>2. file \in StartFiles /\ dir \in DirAtStart /\ exists \in {dir, FALSE}
      BY DEF Init
    <3>3. dir \in BOOLEAN
      BY <3>1, <3>2
    <3>4. QED
      BY <3>1, <3>2, <3>3
  <2>2. mtime = 0 /\ now = 0 /\ DOMAIN op = Writers
    BY DEF Init
  <2>3. view \in [Panels -> Pages]
    BY DEF Init, NoPage, NoTime, Pages
  <2>4. QED
    BY <2>1, <2>2, <2>3 DEF StoreTypes
<1>2. CommandsGiven
  BY DEF Init, CommandsGiven
<1>3. PagesTrue
  BY DEF Init, NoPage, PagesTrue
<1>4. QED
  BY <1>1, <1>2, <1>3 DEF StoreInv

\* What the panel sends is a list of entries.
LEMMA PayloadIsOne ==
  ASSUME NEW entries \in Payloads
  PROVE  entries \in Seq(PayloadEntries)
<1>1. PICK n \in 0 .. 2 : entries \in [1 .. n -> [base : Bases, key : PanelKeys]]
  BY DEF Payloads, BoundedSeq, SeqOf
<1>2. PanelKeys \subseteq Keys \cup {NoKey}
  BY ConfigAssumption
<1>3. [base : Bases, key : PanelKeys] \subseteq PayloadEntries
  BY <1>2 DEF PayloadEntries
<1>4. entries \in [1 .. n -> PayloadEntries] /\ n \in Nat
  BY <1>1, <1>3
<1>5. QED
  BY <1>4

\* Beginning a command keeps the invariant.
LEMMA BeginsStore ==
  ASSUME StoreInv, LockInv, NEW w \in Writers, NEW o, IsCommand(o), Begin(w, o),
         o.kind = "save" => w \in Panels /\ view[w].stage = "open"
  PROVE  StoreInv'
<1>1. StoreTypes' /\ PagesTrue'
  BY DEF Begin, StoreInv, StoreTypes, PagesTrue
<1>2. CommandsGiven'
  BY DEF Begin, StoreInv, StoreTypes, CommandsGiven, LockInv, LockTypes
<1>3. QED
  BY <1>1, <1>2 DEF StoreInv

\* The steps that leave the file and the pages alone.
LEMMA QuietStore ==
  ASSUME StoreInv, LockInv, UNCHANGED <<exists, file, mtime, view>>,
         now' \in Nat, now' >= now, DOMAIN op' = Writers,
         \A w \in Writers : pc'[w] \in {"waiting", "locked", "loaded"} =>
           pc[w] \in {"waiting", "locked", "loaded"} /\ op'[w] = op[w]
  PROVE  StoreInv'
<1>1. StoreTypes'
  BY DEF StoreInv, StoreTypes
<1>2. PagesTrue'
  BY DEF StoreInv, PagesTrue
<1>3. CommandsGiven'
  BY DEF StoreInv, CommandsGiven
<1>4. QED
  BY <1>1, <1>2, <1>3 DEF StoreInv

\* Writing the file keeps it: every page left clean shows an older version.
LEMMA ReplacedStore ==
  ASSUME StoreInv, LockInv, NEW w \in Writers, Replace(w)
  PROVE  StoreInv'
<1>1. pc[w] = "loaded" /\ copy[w] = file /\ IsCommand(op[w])
  BY DEF Replace, LockInv, CopyIsFresh, StoreInv, CommandsGiven
<1>2. file' \in Seq(Endpoints)
  <2>1. file \in Seq(Endpoints) /\ file' = Mutated(op[w], file, ChangedSince(w))
    BY <1>1 DEF StoreInv, StoreTypes, Replace
  <2>2. QED
    BY <1>1, <2>1, MutatedIs
<1>3. /\ now' \in Nat /\ now <= now' /\ mtime' = now' /\ mtime \in Nat /\ mtime <= now /\ now \in Nat
  BY DEF Replace, StoreInv, StoreTypes
<1>4. ASSUME NEW p \in Panels
      PROVE  /\ view'[p] \in Pages /\ view'[p].stage = view[p].stage
             /\ view'[p].clean => /\ view[p].clean /\ view[p].stage = "open"
                                  /\ view'[p].loadedAt = view[p].loadedAt
                                  /\ now' # view[p].loadedAt
  <2>1. view[p] \in Pages
    BY DEF StoreInv, StoreTypes
  <2>2. view'[p] = [view[p] EXCEPT !.clean = @ /\ view[p].stage = "open" /\ now' # view[p].loadedAt]
    BY DEF Replace
  <2>3. QED
    BY <2>1, <2>2 DEF Pages
<1>5. StoreTypes'
  <2>1. view' \in [Panels -> Pages]
    BY <1>4 DEF Replace
  <2>2. QED
    BY <1>2, <1>3, <2>1 DEF StoreInv, StoreTypes, Replace
<1>6. CommandsGiven'
  <2>1. ASSUME NEW v \in Writers, pc'[v] \in {"waiting", "locked", "loaded"}
        PROVE  pc[v] \in {"waiting", "locked", "loaded"} /\ op'[v] = op[v]
    BY <2>1 DEF Replace, LockInv, LockTypes
  <2>2. QED
    BY <1>4, <2>1 DEF StoreInv, CommandsGiven
<1>7. PagesTrue'
  <2>1. ASSUME NEW p \in Panels, view'[p].clean
        PROVE  /\ view'[p].stage = "open" /\ view'[p].loadedAt # NoTime
               /\ view'[p].loadedAt <= mtime' /\ view'[p].loadedAt # mtime'
    <3>1. /\ view[p].clean /\ view[p].stage = "open" /\ view'[p].loadedAt = view[p].loadedAt
          /\ now' # view[p].loadedAt /\ view'[p].stage = "open"
      BY <1>4, <2>1
    <3>2. view[p].loadedAt # NoTime /\ view[p].loadedAt <= mtime
      BY <3>1 DEF StoreInv, PagesTrue
    <3>3. view[p].loadedAt \in Nat
      BY <3>2 DEF StoreInv, StoreTypes, Pages
    <3>4. QED
      BY <1>3, <3>1, <3>2, <3>3
  <2>2. QED
    BY <2>1 DEF PagesTrue
<1>8. QED
  BY <1>5, <1>6, <1>7 DEF StoreInv

\* Loading a page keeps it, also when the file is replaced between the reading
\* of the content and of the time.
LEMMA PageStore ==
  ASSUME StoreInv, LockInv, NEW p \in Panels, PageLoads(p) \/ PageStats(p)
  PROVE  StoreInv'
<1>1. view \in [Panels -> Pages] /\ mtime \in Nat /\ file \in Seq(Endpoints) /\ exists \in BOOLEAN
  BY DEF StoreInv, StoreTypes
<1>2. UNCHANGED <<exists, file, mtime, now, op, pc>>
  BY DEF PageLoads, PageStats, procVars
<1>3. CASE PageLoads(p)
  <2> DEFINE page == [stage |-> "half", shown |-> BasesOf(file), loadedAt |-> NoTime, clean |-> exists]
  <2>1. BasesOf(file) \subseteq Bases
    <3>1. \A i \in DOMAIN file : file[i] \in Endpoints
      BY <1>1
    <3>2. QED
      BY <3>1 DEF BasesOf, Endpoints
  <2>2. page \in Pages
    BY <1>1, <2>1 DEF Pages
  <2>3. view' = [view EXCEPT ![p] = page] /\ pc[p] = "idle"
    BY <1>3 DEF PageLoads
  <2>4. page.stage = "half" /\ page.shown = BasesOf(file) /\ page.clean = exists
    OBVIOUS
  <2> HIDE DEF page
  <2>5. /\ view' \in [Panels -> Pages] /\ view'[p] = page
        /\ \A q \in Panels : q # p => view'[q] = view[q]
    BY <1>1, <2>2, <2>3
  <2>6. StoreTypes'
    BY <1>2, <2>5 DEF StoreInv, StoreTypes
  <2>7. CommandsGiven'
    BY <1>2, <2>3, <2>5 DEF StoreInv, CommandsGiven
  <2>8. PagesTrue'
    BY <1>2, <2>4, <2>5 DEF StoreInv, PagesTrue
  <2>9. QED
    BY <2>6, <2>7, <2>8 DEF StoreInv
<1>4. CASE PageStats(p)
  <2> DEFINE page == [view[p] EXCEPT !.stage = "open", !.loadedAt = IF exists THEN mtime ELSE NoTime]
  <2>1. view[p] \in Pages /\ view[p].stage = "half"
    BY <1>1, <1>4 DEF PageStats
  <2>2. /\ page \in Pages /\ page.stage = "open" /\ page.shown = view[p].shown
        /\ page.clean = view[p].clean /\ (exists => page.loadedAt = mtime)
    BY <1>1, <2>1 DEF Pages, NoTime
  <2>3. view' = [view EXCEPT ![p] = page]
    BY <1>4 DEF PageStats
  <2> HIDE DEF page
  <2>5. /\ view' \in [Panels -> Pages] /\ view'[p] = page
        /\ \A q \in Panels : q # p => view'[q] = view[q]
    BY <1>1, <2>2, <2>3
  <2>6. StoreTypes'
    BY <1>2, <2>5 DEF StoreInv, StoreTypes
  <2>7. CommandsGiven'
    BY <1>2, <2>2, <2>5 DEF StoreInv, CommandsGiven
  <2>8. PagesTrue'
    <3>1. page.clean => exists /\ page.shown = BasesOf(file)
      BY <2>1, <2>2 DEF StoreInv, PagesTrue
    <3>2. mtime # NoTime /\ mtime <= mtime
      BY <1>1 DEF NoTime
    <3>3. QED
      BY <1>2, <2>2, <2>5, <3>1, <3>2 DEF StoreInv, PagesTrue
  <2>9. QED
    BY <2>6, <2>7, <2>8 DEF StoreInv
<1>5. QED
  BY <1>3, <1>4

\* A death keeps it: the page goes with the process.
LEMMA CrashedStore ==
  ASSUME StoreInv, LockInv, NEW w \in Writers, Crash(w)
  PROVE  StoreInv'
<1>1. /\ UNCHANGED <<exists, file, mtime, now>> /\ DOMAIN op' = Writers /\ pc'[w] = "idle"
      /\ \A v \in Writers : v # w => pc'[v] = pc[v] /\ op'[v] = op[v]
  BY DEF Crash, End, StoreInv, StoreTypes, LockInv, LockTypes
<1>2. view' = [p \in Panels |-> IF p = w THEN NoPage ELSE view[p]]
  BY DEF Crash
<1>3. NoPage \in Pages /\ ~NoPage.clean
  BY DEF NoPage, NoTime, Pages
<1>4. view' \in [Panels -> Pages]
  BY <1>2, <1>3 DEF StoreInv, StoreTypes
<1>5. StoreTypes'
  BY <1>1, <1>4 DEF StoreInv, StoreTypes
<1>6. CommandsGiven'
  BY <1>1, <1>2 DEF StoreInv, CommandsGiven
<1>7. PagesTrue'
  BY <1>1, <1>2, <1>3 DEF StoreInv, PagesTrue
<1>8. QED
  BY <1>5, <1>6, <1>7 DEF StoreInv

\* Every step keeps the invariant.
LEMMA StoreStep == LockInv /\ StoreInv /\ [Next]_vars => StoreInv'
<1> SUFFICES ASSUME LockInv, StoreInv, [Next]_vars PROVE StoreInv'
  OBVIOUS
<1>0. now \in Nat /\ DOMAIN op = Writers
  BY DEF StoreInv, StoreTypes
<1>1. CASE \E w \in Writers : CliRuns(w)
  <2>1. PICK w \in Writers, o \in AddOps(Indices) \cup RemoveOps(Indices) \cup ReorderOps(Indices) :
          Begin(w, o)
    BY <1>1 DEF CliRuns
  <2>2. IsCommand(o) /\ o.kind # "save"
    BY DEF IsCommand, AddOps, RemoveOps, ReorderOps
  <2>3. QED
    BY <2>1, <2>2, BeginsStore
<1>2. CASE \E p \in Panels, entries \in Payloads : PanelSaves(p, entries)
  <2>1. PICK p \in Panels, entries \in Payloads : PanelSaves(p, entries)
    BY <1>2
  <2>2. /\ view[p].stage = "open" /\ Begin(p, [kind |-> "save", entries |-> entries])
        /\ p \in Writers
    BY <2>1, ConfigAssumption DEF PanelSaves
  <2>3. entries \in Seq(PayloadEntries)
    BY PayloadIsOne
  <2>4. IsCommand([kind |-> "save", entries |-> entries])
    BY <2>3 DEF IsCommand
  <2>5. QED
    BY <2>2, <2>4, BeginsStore
<1>3. CASE \E w \in Writers : WriterStep(w)
  <2>1. PICK w \in Writers : WriterStep(w)
    BY <1>3
  <2>2. CASE Replace(w)
    BY <2>2, ReplacedStore
  <2>3. CASE FailsToOpen(w) \/ Acquire(w) \/ TimeOut(w) \/ Load(w) \/ ReplaceFails(w) \/ Release(w)
    <3>1. /\ UNCHANGED <<exists, file, mtime, view, now>> /\ DOMAIN op' = Writers
          /\ \A v \in Writers : pc'[v] \in {"waiting", "locked", "loaded"} =>
               pc[v] \in {"waiting", "locked", "loaded"} /\ op'[v] = op[v]
      <4> USE <1>0 DEF LockInv, LockTypes
      <4>1. CASE FailsToOpen(w)
        BY <4>1 DEF FailsToOpen, End
      <4>2. CASE Acquire(w)
        BY <4>2 DEF Acquire
      <4>3. CASE TimeOut(w)
        BY <4>3 DEF TimeOut, End
      <4>4. CASE Load(w)
        BY <4>4 DEF Load
      <4>5. CASE ReplaceFails(w)
        BY <4>5 DEF ReplaceFails
      <4>6. CASE Release(w)
        BY <4>6 DEF Release, End
      <4>7. QED
        BY <2>3, <4>1, <4>2, <4>3, <4>4, <4>5, <4>6
    <3>2. now' \in Nat /\ now' >= now
      BY <1>0, <3>1
    <3>3. QED
      BY <3>1, <3>2, QuietStore
  <2>4. QED
    BY <2>1, <2>2, <2>3 DEF WriterStep
<1>4. CASE \E w \in Writers : Crash(w)
  BY <1>4, CrashedStore
<1>5. CASE \E p \in Panels : PageLoads(p) \/ PageStats(p)
  BY <1>5, PageStore
<1>6. CASE Tick
  <2>1. UNCHANGED <<exists, file, mtime, view, op, pc>> /\ now' = now + 1
    BY <1>6 DEF Tick, procVars
  <2>2. now' \in Nat /\ now' >= now
    BY <1>0, <2>1
  <2>3. QED
    BY <1>0, <2>1, <2>2, QuietStore
<1>7. CASE UNCHANGED vars
  <2>1. UNCHANGED <<exists, file, mtime, view, op, pc, now>>
    BY <1>7 DEF vars, procVars
  <2>2. now' \in Nat /\ now' >= now
    BY <1>0, <2>1
  <2>3. QED
    BY <1>0, <2>1, <2>2, QuietStore
<1>8. QED
  BY <1>1, <1>2, <1>3, <1>4, <1>5, <1>6, <1>7 DEF Next

\* In every reachable state the file is a list of endpoints, whoever is about to
\* write has a command, and every clean page tells the truth.
THEOREM StoreInvariant == Spec => []StoreInv
BY LockInvariant, StoreInit, StoreStep, PTL DEF Spec

\* What AtomicStep and the invariant say together of a change of the file.
LEMMA ChangeIs ==
  ASSUME LockInv, StoreInv, [Next]_vars, file' # file
  PROVE  \E w \in Writers :
           /\ Replaces(w) /\ IsCommand(op[w]) /\ file \in Seq(Endpoints)
           /\ op[w].kind = "save" => w \in Panels /\ view[w].stage = "open"
           /\ file' = Mutated(op[w], file, ChangedSince(w))
<1>1. PICK w \in Writers : Replaces(w) /\ file' = Mutated(op[w], file, ChangedSince(w))
  BY AtomicStep
<1>2. IsCommand(op[w]) /\ (op[w].kind = "save" => w \in Panels /\ view[w].stage = "open")
  BY <1>1 DEF Replaces, StoreInv, CommandsGiven
<1>3. QED
  BY <1>1, <1>2 DEF StoreInv, StoreTypes

\* Only a remove with --yes leaves a configured machine without endpoints
\* (cli.py, _config_remove), also when two removes race for the last two.
THEOREM NeverEmptiedSilentlyHolds == Spec => NeverEmptiedSilently
<1>1. LockInv /\ StoreInv /\ [Next]_vars =>
        [(file # <<>> /\ file' = <<>>) =>
           \E w \in Writers : Replaces(w) /\ op[w].kind = "remove" /\ op[w].yes]_vars
  <2> SUFFICES ASSUME LockInv, StoreInv, [Next]_vars, file # <<>>, file' = <<>>
               PROVE  \E w \in Writers : Replaces(w) /\ op[w].kind = "remove" /\ op[w].yes
    OBVIOUS
  <2>1. PICK w \in Writers :
          /\ Replaces(w) /\ IsCommand(op[w]) /\ file \in Seq(Endpoints)
          /\ file' = Mutated(op[w], file, ChangedSince(w))
    BY ChangeIs
  <2>2. op[w].kind = "remove" /\ op[w].yes
    BY <2>1, MutatedIs
  <2>3. QED
    BY <2>1, <2>2
<1>2. QED
  BY <1>1, LockInvariant, StoreInvariant, PTL DEF Spec, NeverEmptiedSilently

\* A page that loaded the file in one piece, and that was not written past within
\* one tick of the clock, deletes no endpoint it did not show (config_ui.py, _save).
THEOREM OthersSurviveHolds == Spec => OthersSurviveCleanPages
<1>1. LockInv /\ StoreInv /\ [Next]_vars =>
        [\A base \in BasesOf(file) \ BasesOf(file') : \E w \in Writers :
           Replaces(w) /\ (GoesOnPurpose(w, base) \/ (w \in Panels /\ ~view[w].clean))]_vars
  <2> SUFFICES ASSUME LockInv, StoreInv, [Next]_vars, NEW base \in BasesOf(file) \ BasesOf(file')
               PROVE  \E w \in Writers :
                        Replaces(w) /\ (GoesOnPurpose(w, base) \/ (w \in Panels /\ ~view[w].clean))
    OBVIOUS
  <2>1. file' # file
    OBVIOUS
  <2>2. PICK w \in Writers :
          /\ Replaces(w) /\ IsCommand(op[w]) /\ file \in Seq(Endpoints)
          /\ op[w].kind = "save" => w \in Panels /\ view[w].stage = "open"
          /\ file' = Mutated(op[w], file, ChangedSince(w))
    BY <2>1, ChangeIs
  <2>3. op[w].kind = "remove" \/ (op[w].kind = "save" /\ ~ChangedSince(w))
    BY <2>2, MutatedIs
  <2>4. CASE op[w].kind = "remove"
    BY <2>2, <2>4 DEF GoesOnPurpose
  <2>5. CASE op[w].kind = "save" /\ ~ChangedSince(w) /\ view[w].clean
    <3>1. w \in Panels /\ view[w].stage = "open"
      BY <2>2, <2>5
    <3>2. /\ view[w].loadedAt # NoTime /\ view[w].loadedAt <= mtime
          /\ view[w].loadedAt = mtime => view[w].shown = BasesOf(file)
      BY <2>5, <3>1 DEF StoreInv, PagesTrue
    <3>3. view[w].loadedAt \in Nat /\ mtime \in Nat
      BY <3>1, <3>2 DEF StoreInv, StoreTypes, Pages
    <3>4. ~(mtime > view[w].loadedAt)
      BY <2>5, <3>1, <3>2 DEF ChangedSince
    <3>5. base \in view[w].shown
      BY <3>2, <3>3, <3>4
    <3>6. QED
      BY <2>2, <2>5, <3>5 DEF GoesOnPurpose
  <2>6. CASE op[w].kind = "save" /\ ~view[w].clean
    BY <2>2, <2>6
  <2>7. QED
    BY <2>3, <2>4, <2>5, <2>6
<1>2. QED
  BY <1>1, LockInvariant, StoreInvariant, PTL DEF Spec, OthersSurviveCleanPages

\* Whatever is added, removed, moved or saved around it, an endpoint keeps its
\* key unless the user typed another one for it (config_ui.py, _save).
THEOREM KeysKeptHolds == Spec => KeysKept
<1>1. LockInv /\ StoreInv /\ [Next]_vars =>
        [\A w \in Writers, base \in Bases : (Replaces(w) /\ ~Types(w, base)) =>
           \A i \in Occurs(base, file), j \in Occurs(base, file') :
             Occurs(base, file) = {i} /\ Occurs(base, file') = {j} => file'[j].key = file[i].key]_vars
  <2> SUFFICES ASSUME LockInv, StoreInv, [Next]_vars,
                      NEW w \in Writers, NEW base \in Bases, Replaces(w), ~Types(w, base),
                      NEW i \in Occurs(base, file), NEW j \in Occurs(base, file'),
                      Occurs(base, file) = {i}, Occurs(base, file') = {j}
               PROVE  file'[j].key = file[i].key
    OBVIOUS
  <2>1. CASE file' = file
    BY <2>1
  <2>2. CASE file' # file
    <3>1. PICK v \in Writers :
            /\ Replaces(v) /\ IsCommand(op[v]) /\ file \in Seq(Endpoints)
            /\ file' = Mutated(op[v], file, ChangedSince(v))
      BY <2>2, ChangeIs
    <3>2. v = w
      BY <3>1 DEF Replaces, LockInv, LockOwned, Inside
    <3>3. ~TypesKey(op[w], base)
      BY DEF Types, TypesKey
    <3>4. KeepsItsKey(base, file, file')
      BY <3>1, <3>2, <3>3, MutatedIs
    <3>5. QED
      BY <3>4 DEF KeepsItsKey
  <2>3. QED
    BY <2>1, <2>2
<1>2. QED
  BY <1>1, LockInvariant, StoreInvariant, PTL DEF Spec, KeysKept
=============================================================================
