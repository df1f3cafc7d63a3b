------------------------------ MODULE Components ------------------------------
(***************************************************************************)
(* The procedural memory as data (memory/model.py, memory/extract.py) and  *)
(* what each operation makes of it (memory/library.py, apply_suggestions   *)
(* of memory/refine.py).  A component is known by its fingerprint, so two  *)
(* steps with one fingerprint are one component; of its fields the counts  *)
(* and the aliases are kept.  A template is the sequence of the components *)
(* a demonstrated task is made of.                                         *)
(***************************************************************************)
EXTENDS Integers, Sequences, SequencesExt, FiniteSetsExt, Functions

CONSTANTS
  Ids,        \* fingerprints of components; a component is named by its id
  Nicknames,  \* names a user or a model may add as aliases
  Tasks,      \* ids of templates
  AppOf,      \* the app of each component
  BaseName    \* a generalization that suggests no name

ASSUME ComponentsAssumption == BaseName \notin Tasks

EmptyLibrary == [comp |-> <<>>, tmpl |-> <<>>]
NewComponent == [hits |-> 0, misses |-> 0, aliases |-> {}]

With(f, k, v) == [x \in DOMAIN f \cup {k} |-> IF x = k THEN v ELSE f[x]]
Without(f, k) == Restrict(f, DOMAIN f \ {k})

\* What is new of a sequence is put behind what there is, once each, in the
\* order it first occurs in.
Added(seen, x) == IF Contains(seen, x) THEN seen ELSE Append(seen, x)
Joined(seen, seq) == FoldLeft(Added, seen, seq)
Distinct(seq) == Joined(<<>>, seq)

-----------------------------------------------------------------------------
(* Memory. *)

\* learn, with extract_components: a recording is its task and the
\* fingerprints of its steps.  Known components were used once more.
Learn(lib, recording) ==
  LET ids  == Distinct(recording.steps)
      used == [c \in DOMAIN lib.comp \cup ToSet(ids) |->
                 IF c \notin DOMAIN lib.comp THEN NewComponent
                 ELSE [lib.comp[c] EXCEPT !.hits = IF Contains(ids, c) THEN @ + 1 ELSE @]]
      old  == recording.task \in DOMAIN lib.tmpl
      hits == IF old THEN lib.tmpl[recording.task].hits + 1 ELSE 0
  IN  [comp |-> used,
       tmpl |-> With(lib.tmpl, recording.task, [ids |-> ids, hits |-> hits])]

\* record_use: one replayed step; an unknown component is made on the fly.
Used(lib, c, ok) ==
  LET known == IF c \in DOMAIN lib.comp THEN lib.comp[c] ELSE NewComponent
  IN  [lib EXCEPT !.comp = With(@, c,
         IF ok THEN [known EXCEPT !.hits = @ + 1] ELSE [known EXCEPT !.misses = @ + 1])]

\* add_alias.  (Faulty variant: an unknown component gets the alias, too.)
AliasedUnknown(lib, c, name) ==
  [lib EXCEPT !.comp = With(@, c, IF c \in DOMAIN @
                                  THEN [@[c] EXCEPT !.aliases = @ \cup {name}]
                                  ELSE [aliases |-> {name}])]
Aliased(lib, c, name) ==
  IF c \in DOMAIN lib.comp THEN [lib EXCEPT !.comp[c].aliases = @ \cup {name}] ELSE lib

-----------------------------------------------------------------------------
(* apply_suggestions: merges, then generalizations. *)

Substituted(seq, old, new) ==
  [i \in DOMAIN seq |-> IF seq[i] = old THEN new ELSE seq[i]]

\* A merge names the component that goes (keep) and the one it goes into.
Fits(lib, merge) ==
  /\ {merge.keep, merge.into} \subseteq DOMAIN lib.comp
  /\ AppOf[merge.keep] = AppOf[merge.into]

Folded(keep, into, name) ==
  [hits |-> into.hits + keep.hits, misses |-> into.misses + keep.misses,
   aliases |-> into.aliases \cup {name} \cup keep.aliases]

\* Faulty variants of Merge: the aliases of the component that goes are lost;
\* the templates still name it.
MergeNameOnly(lib, merge) ==
  IF ~Fits(lib, merge) THEN lib
  ELSE [comp |-> Without([lib.comp EXCEPT ![merge.into] =
                    Folded([lib.comp[merge.keep] EXCEPT !.aliases = {}], @, merge.keep)],
                  merge.keep),
        tmpl |-> [t \in DOMAIN lib.tmpl |->
                    [lib.tmpl[t] EXCEPT !.ids = Substituted(@, merge.keep, merge.into)]]]
MergeInPlace(lib, merge) ==
  IF ~Fits(lib, merge) THEN lib
  ELSE [lib EXCEPT !.comp = Without([@ EXCEPT ![merge.into] =
                    Folded(lib.comp[merge.keep], @, merge.keep)], merge.keep)]

Merge(lib, merge) ==
  IF ~Fits(lib, merge) THEN lib
  ELSE [comp |-> Without([lib.comp EXCEPT ![merge.into] =
                    Folded(lib.comp[merge.keep], @, merge.keep)], merge.keep),
        tmpl |-> [t \in DOMAIN lib.tmpl |->
                    [lib.tmpl[t] EXCEPT !.ids = Substituted(@, merge.keep, merge.into)]]]

\* The template with the most hits, the first one among equals.
Base(lib, tasks) ==
  LET best == {i \in DOMAIN tasks :
                 \A j \in DOMAIN tasks : lib.tmpl[tasks[j]].hits <= lib.tmpl[tasks[i]].hits}
  IN  tasks[Min(best)]

TmplHits(lib, tasks) == MapThenSumSet(LAMBDA t : lib.tmpl[t].hits, tasks)

\* The template a generalization ends in, and the templates folded into it.
KeptTask(lib, general) ==
  IF general.name = BaseName THEN Base(lib, general.tasks) ELSE general.name
Others(lib, general) == ToSet(general.tasks) \ {KeptTask(lib, general)}

\* The components of several templates.
StepsOf(lib, tasks) == FoldLeft(LAMBDA seen, t : Joined(seen, lib.tmpl[t].ids), <<>>, tasks)

\* Faulty variant of Collapsed: what the other templates counted is dropped.
CollapsedUncounted(lib, general) ==
  LET kept  == KeptTask(lib, general)
      there == kept \in DOMAIN lib.tmpl
      steps == StepsOf(lib, general.tasks)
      tmpl  == With(lib.tmpl, kept,
                 [ids  |-> Joined(IF there THEN lib.tmpl[kept].ids ELSE steps, steps),
                  hits |-> IF there THEN lib.tmpl[kept].hits ELSE 0])
  IN  [lib EXCEPT !.tmpl = Restrict(tmpl, DOMAIN tmpl \ Others(lib, general))]
Collapsed(lib, general) ==
  LET kept   == KeptTask(lib, general)
      others == Others(lib, general)
      there  == kept \in DOMAIN lib.tmpl
      steps  == StepsOf(lib, general.tasks)
      tmpl   == With(lib.tmpl, kept,
                  [ids  |-> Joined(IF there THEN lib.tmpl[kept].ids ELSE steps, steps),
                   hits |-> (IF there THEN lib.tmpl[kept].hits ELSE 0)
                             + TmplHits(lib, others)])
  IN  [lib EXCEPT !.tmpl = Restrict(tmpl, DOMAIN tmpl \ others)]

\* A template named twice is deleted twice: the second deletion raises, and
\* what was applied so far is not saved.
NamedTwice(tasks, t) == \E i, j \in DOMAIN tasks : i # j /\ tasks[i] = t /\ tasks[j] = t

Generalize(state, general) ==
  LET lib == state.lib
  IN  IF state.raised \/ general.tasks = <<>>
         \/ ~(ToSet(general.tasks) \subseteq DOMAIN lib.tmpl)
      THEN state
      ELSE IF \E t \in Others(lib, general) : NamedTwice(general.tasks, t)
      THEN [state EXCEPT !.raised = TRUE]
      ELSE [state EXCEPT !.lib = Collapsed(lib, general)]

Merged(lib, merges) == FoldLeft(Merge, lib, merges)
Curated(lib, review) ==
  FoldLeft(Generalize, [lib |-> Merged(lib, review.merges), raised |-> FALSE], review.generals)

-----------------------------------------------------------------------------
(* What can be told of a library. *)

\* Every name it can be searched by.
Names(lib) == DOMAIN lib.comp \cup UNION {lib.comp[c].aliases : c \in DOMAIN lib.comp}

\* What its components, and its templates, have counted.
Uses(lib) ==
  MapThenSumSet(LAMBDA c : lib.comp[c].hits + lib.comp[c].misses, DOMAIN lib.comp)
Runs(lib) == TmplHits(lib, DOMAIN lib.tmpl)

Resolves(lib) ==
  \A t \in DOMAIN lib.tmpl : ToSet(lib.tmpl[t].ids) \subseteq DOMAIN lib.comp

ComponentType == [hits : Nat, misses : Nat, aliases : SUBSET (Ids \cup Nicknames)]
TemplateType == [ids : Seq(Ids), hits : Nat]

LibraryType(lib) ==
  \E C \in SUBSET Ids, T \in SUBSET Tasks :
    lib \in [comp : [C -> ComponentType], tmpl : [T -> TemplateType]]
=============================================================================
