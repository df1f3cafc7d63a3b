-------------------------------- MODULE Library --------------------------------
(***************************************************************************)
(* The memory file and the commands that work on it (memory/library.py and *)
(* the compile, replay, components and refine commands of cli.py).         *)
(*                                                                         *)
(* A command reads the file once, changes its copy and writes the copy     *)
(* whole, after every operation that saves: the file is truncated, then    *)
(* written.  Commands of several processes overlap without a lock, and a   *)
(* process may die at any point.                                           *)
(***************************************************************************)
EXTENDS Components

CONSTANTS
  Processes,
  Recordings,    \* what users compile: a task and the fingerprints of its steps
  AliasWords,    \* what users add as aliases: <<component, name>>
  Reviews,       \* reviewed suggestions: aliases, merges and generalizations
  MaxCommands    \* bound: commands begun

\* Nothing keeps a reviewed file from merging a component into itself.
Merges == [keep : Ids, into : Ids]
Generals == [tasks : Seq(Tasks), name : Tasks \cup {BaseName}]

ASSUME LibraryAssumption ==
  /\ MaxCommands \in Nat
  /\ Recordings \subseteq [task : Tasks, steps : Seq(Ids)]
  /\ AliasWords \subseteq Ids \X (Ids \cup Nicknames)
  /\ Reviews \subseteq [aliases : Seq(Ids \X (Ids \cup Nicknames)), merges : Seq(Merges),
                        generals : Seq(Generals)]

VARIABLES
  disk,       \* what the file holds: TRUE and a library, or FALSE and half of one
  session,    \* per process: the command that runs and its copy of the library
  commands,   \* how many commands were begun
  whole,      \* history: the last library that was written in full
  swallowed   \* history: components some review merged into themselves

libraryVars == <<disk, session, commands, whole, swallowed>>

Torn == [readable |-> FALSE, lib |-> EmptyLibrary]
File(lib) == [readable |-> TRUE, lib |-> lib]

\* stale: another process has written, or begun to, since this one read the file.
\* mixed: another process has written since this one truncated it.
\* gone: history, the components its review merged into themselves.
NoSession == [pc |-> "idle", lib |-> EmptyLibrary, todo |-> <<>>, stale |-> FALSE,
              mixed |-> FALSE, gone |-> {}]

At(p, pc) == session[p].pc = pc
Working(p) == session[p].pc \in {"ready", "save", "write"}

-----------------------------------------------------------------------------
(* Operations, as a command has them to do. *)

LearnOp(recording) == [op |-> "learn", recording |-> recording]
AliasOp(word) == [op |-> "alias", word |-> word]
CurateOp(review) == [op |-> "curate", review |-> review]

CompileTodo(recording) == <<LearnOp(recording)>>
AliasTodo(word) == <<AliasOp(word)>>
\* apply_suggestions saves after each alias, and once after all the rest.
RefineTodo(review) ==
  [i \in DOMAIN review.aliases |-> AliasOp(review.aliases[i])] \o <<CurateOp(review)>>

Todos ==
  {CompileTodo(r) : r \in Recordings} \cup {AliasTodo(w) : w \in AliasWords}
    \cup {RefineTodo(v) : v \in Reviews}

\* What an operation makes of the copy, whether it saves, and whether it raises.
Effect(lib, op) ==
  CASE op.op = "learn" -> [lib |-> Learn(lib, op.recording), saves |-> TRUE, raises |-> FALSE]
    [] op.op = "alias" ->
         LET c == op.word[1]
             new == c \in DOMAIN lib.comp /\ op.word[2] \notin lib.comp[c].aliases
         IN  [lib |-> Aliased(lib, c, op.word[2]), saves |-> new, raises |-> FALSE]
    [] op.op = "curate" ->
         LET state == Curated(lib, op.review)
         IN  [lib |-> state.lib, saves |-> ~state.raised, raises |-> state.raised]

\* The components a review merges into themselves: each is deleted, with what
\* was folded into it.
SelfMerged(review) == {m.keep : m \in {n \in ToSet(review.merges) : n.keep = n.into}}
Swallows(op) == IF op.op = "curate" THEN SelfMerged(op.review) ELSE {}

-----------------------------------------------------------------------------
(* The steps of a command. *)

\* Faulty variant of Opened: a file that cannot be parsed is taken as empty.
OpenedForgiving == [disk EXCEPT !.readable = TRUE]
\* Memory(path): what is read from the file, if it can be parsed.
Opened == disk

\* The file is read; one that cannot be parsed ends the command.
Open(p, todo) ==
  /\ At(p, "idle") /\ commands < MaxCommands
  /\ commands' = commands + 1
  /\ session' = [session EXCEPT ![p] =
       IF Opened.readable THEN [NoSession EXCEPT !.pc = "ready", !.lib = Opened.lib, !.todo = todo]
                          ELSE NoSession]
  /\ UNCHANGED <<disk, whole, swallowed>>

\* The next operation, on the copy.
Operate(p) ==
  /\ At(p, "ready") /\ session[p].todo # <<>>
  /\ LET s == session[p]
         e == Effect(s.lib, Head(s.todo))
         gone == s.gone \cup Swallows(Head(s.todo))
     IN  /\ session' = [session EXCEPT ![p] =
              IF e.raises THEN NoSession
              ELSE [s EXCEPT !.lib = e.lib, !.todo = Tail(s.todo), !.gone = gone,
                             !.pc = IF e.saves THEN "save" ELSE "ready"]]
         /\ swallowed' = IF e.raises THEN swallowed ELSE swallowed \cup gone
  /\ UNCHANGED <<disk, commands, whole>>

\* MemoryLibrary.save: write_text opens the file, which empties it ...
Truncate(p) ==
  /\ At(p, "save")
  /\ disk' = Torn
  /\ session' = [q \in Processes |->
       IF q = p THEN [session[q] EXCEPT !.pc = "write", !.mixed = FALSE]
       ELSE IF Working(q) THEN [session[q] EXCEPT !.stale = TRUE]
       ELSE session[q]]
  /\ UNCHANGED <<commands, whole, swallowed>>

\* ... and writes the text.  Over the text of another process that truncated
\* the file later or wrote it meanwhile, what is longer of the other remains.
WriteOut(p) ==
  /\ At(p, "write")
  /\ \/ disk' = File(session[p].lib) /\ whole' = session[p].lib
     \/ session[p].mixed /\ disk' = Torn /\ UNCHANGED whole
  /\ session' = [q \in Processes |->
       IF q = p THEN [session[q] EXCEPT !.pc = "ready"]
       ELSE IF Working(q) THEN [session[q] EXCEPT !.stale = TRUE, !.mixed = @ \/ At(q, "write")]
       ELSE session[q]]
  /\ UNCHANGED <<commands, swallowed>>

Close(p) ==
  /\ At(p, "ready") /\ session[p].todo = <<>>
  /\ session' = [session EXCEPT ![p] = NoSession]
  /\ UNCHANGED <<disk, commands, whole, swallowed>>

\* The process dies, or its write fails: the file stays as it is.
Die(p) ==
  /\ Working(p)
  /\ session' = [session EXCEPT ![p] = NoSession]
  /\ UNCHANGED <<disk, commands, whole, swallowed>>

SessionStep(p) == Operate(p) \/ Truncate(p) \/ WriteOut(p) \/ Close(p)

-----------------------------------------------------------------------------

LibraryInit ==
  /\ disk = File(whole)
  /\ session = [p \in Processes |-> NoSession]
  /\ commands = 0 /\ swallowed = {}

-----------------------------------------------------------------------------
(* Properties. *)

\* Types: the file and every copy hold well-formed libraries, and who is not
\* working holds none.  (A conjunct of ReplayTypeOK.)
LibraryTypeOK ==
  /\ disk.readable \in BOOLEAN /\ LibraryType(disk.lib) /\ LibraryType(whole)
  /\ \A p \in Processes :
       /\ session[p].pc \in {"idle", "ready", "save", "write"}
       /\ LibraryType(session[p].lib)
       /\ At(p, "idle") => session[p] = NoSession
  /\ swallowed \subseteq Ids

\* A template never names a component that is not there, whatever was merged,
\* generalized, learnt or replayed, and in whatever order commands overlap --
\* but for a component that a review merged into itself, which
\* apply_suggestions does not refuse (refine.py:296-312): it is deleted, and
\* its name stays in the templates, as the name put in for itself.
TemplatesResolve ==
  LET Held(lib) == \A t \in DOMAIN lib.tmpl :
                     ToSet(lib.tmpl[t].ids) \subseteq DOMAIN lib.comp \cup swallowed
  IN  Held(disk.lib) /\ \A p \in Processes : Held(session[p].lib)

\* The step of a command that applies a review.
Curates(p) ==
  Operate(p) /\ Head(session[p].todo).op = "curate" /\ session'[p] # NoSession

\* MEMORY.md lines 183-186: merges fold hits and aliases, generalizations
\* collapse templates.  Curation moves counts about and loses none: what the
\* templates count whatever the review says, what the components count unless
\* it merges one into itself.
CountsFolded ==
  [][\A p \in Processes : Curates(p) =>
       /\ Runs(session'[p].lib) = Runs(session[p].lib)
       /\ Swallows(Head(session[p].todo)) = {} =>
            Uses(session'[p].lib) = Uses(session[p].lib)]_libraryVars

\* MEMORY.md lines 183-184: "merges fold hits and aliases into the surviving
\* component", whichever components a review names.
MergesFoldCounts ==
  [][\A p \in Processes :
       Curates(p) => Uses(session'[p].lib) = Uses(session[p].lib)]_libraryVars

\* What the memory has learnt -- counts, names, templates -- is still there
\* after a command wrote the file, if no other command wrote between its
\* reading and its writing and its review merged no component into itself; a
\* file that was torn is not replaced by less.
NothingForgotten ==
  [][\A p \in Processes :
       (WriteOut(p) /\ ~session[p].stale /\ session[p].gone = {} /\ disk'.readable) =>
         /\ Names(whole) \subseteq Names(disk'.lib)
         /\ Uses(whole) <= Uses(disk'.lib)
         /\ Runs(whole) <= Runs(disk'.lib)]_libraryVars
=============================================================================
