---------------------------- MODULE ConfigMutators ----------------------------
(***************************************************************************)
(* What each command makes of the list of vision endpoints: the mutators   *)
(* that config_ui.py and cli.py hand to update_config.  An endpoint is its *)
(* base URL and its key; a payload of the panel leaves the key out         *)
(* (NoKey) to keep the stored one.  Indices count from 0, as on the        *)
(* command line.                                                           *)
(***************************************************************************)
EXTENDS Integers, Sequences, SequencesExt

CONSTANTS Bases, Keys, NoKey

ASSUME MutatorAssumption == NoKey \notin Keys

Endpoints == [base : Bases, key : Keys]

BasesOf(entries) == {entries[i].base : i \in DOMAIN entries}

\* config add: at an index, clamped to the list.
Added(config, entry, index) ==
  LET at == IF index < Len(config) THEN index ELSE Len(config)
  IN  InsertAt(config, at + 1, entry)

\* Faulty variant of MayRemove: the last endpoint goes without --yes.
MayRemoveAny(config, index, yes) == index < Len(config)
\* config remove refuses to leave nothing behind, unless told --yes.
MayRemove(config, index, yes) == index < Len(config) /\ (Len(config) # 1 \/ yes)

Removed(config, index, yes) ==
  IF MayRemove(config, index, yes) THEN RemoveAt(config, index + 1) ELSE config

Reordered(config, index, to) ==
  IF index < Len(config) /\ to < Len(config)
  THEN InsertAt(RemoveAt(config, index + 1), to + 1, config[index + 1])
  ELSE config

\* Faulty variant of StoredKey: the key at the position the entry has now.
KeyAt(config, entries, i) ==
  IF i <= Len(config) THEN config[i].key ELSE NoKey

\* The key the file has for the entry's base URL; of several, the last one.
StoredKey(config, entries, i) ==
  LET last == SelectLastInSeq(config, LAMBDA e : e.base = entries[i].base)
  IN  IF last = 0 THEN NoKey ELSE config[last].key

WithKeys(config, entries) ==
  [i \in DOMAIN entries |->
     IF entries[i].key = NoKey
     THEN [entries[i] EXCEPT !.key = StoredKey(config, entries, i)]
     ELSE entries[i]]

\* Faulty variant of Preserved: the panel's payload replaces the file.
PreservedNone(config, entries, changed) == <<>>
\* The endpoints of the file that the panel's payload lacks stay, in their
\* order, if the file changed after the panel had loaded it.
Spared(kept, entry, entries) ==
  IF entry.base \notin BasesOf(entries) /\ entry.key # NoKey THEN Append(kept, entry) ELSE kept
Preserved(config, entries, changed) ==
  IF changed THEN FoldLeft(LAMBDA kept, entry : Spared(kept, entry, entries), <<>>, config)
  ELSE <<>>

\* The panel's save; an empty result or an endpoint without key is refused.
Saved(config, entries, changed) ==
  LET merged == WithKeys(config, entries) \o Preserved(config, entries, changed)
  IN  IF merged # <<>> /\ \A i \in DOMAIN merged : merged[i].key # NoKey
      THEN merged ELSE config

\* The commands; a save carries what the panel showed when the user edited it.
AddOps(indices)     == [kind : {"add"}, entry : Endpoints, index : indices]
RemoveOps(indices)  == [kind : {"remove"}, index : indices, yes : BOOLEAN]
ReorderOps(indices) == [kind : {"reorder"}, index : indices, to : indices]

Mutated(op, config, changed) ==
  CASE op.kind = "add"     -> Added(config, op.entry, op.index)
    [] op.kind = "remove"  -> Removed(config, op.index, op.yes)
    [] op.kind = "reorder" -> Reordered(config, op.index, op.to)
    [] op.kind = "save"    -> Saved(config, op.entries, changed)
=============================================================================
