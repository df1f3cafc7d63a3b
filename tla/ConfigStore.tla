----------------------------- MODULE ConfigStore -----------------------------
(***************************************************************************)
(* The endpoint configuration ~/.lean-cu/config.json (config_store.py),    *)
(* shared by config commands (cli.py) and browser panels (config_ui.py) in *)
(* any number of processes.  A writer takes the lock file, reads, mutates, *)
(* replaces the file and lets the lock go; a panel reads without the lock, *)
(* first the content and then the modification time.  Writers may time out *)
(* on the lock, fail to write, or die anywhere; the system frees the lock  *)
(* of a dead process.                                                      *)
(*                                                                         *)
(* The modification time is the clock at the replacement; several writes   *)
(* may fall into one tick of it (CoarseClock).  The fields engine and      *)
(* model, and the commands that only read, are left out; so is a file that *)
(* is there but cannot be read or parsed (load_config takes it as empty).  *)
(***************************************************************************)
EXTENDS ConfigMutators

CONSTANTS
  Writers,       \* processes that run commands
  Panels,        \* those of them that are panels in a browser
  NoWriter,
  Indices,       \* indices a user passes
  PanelKeys,     \* keys a user types into the panel, or NoKey
  DirAtStart,    \* whether the directory ~/.lean-cu may exist, may not
  StartFiles,    \* what the file may hold at the start
  CoarseClock,   \* several writes may get the same modification time
  MaxCommands,   \* bound: commands begun
  MaxTime        \* bound: ticks of the clock

ASSUME ConfigAssumption ==
  /\ Panels \subseteq Writers
  /\ NoWriter \notin Writers
  /\ PanelKeys \subseteq Keys \cup {NoKey}
  /\ DirAtStart \subseteq BOOLEAN /\ CoarseClock \in BOOLEAN
  /\ StartFiles \subseteq Seq(Endpoints)
  /\ Indices \subseteq Nat /\ MaxCommands \in Nat /\ MaxTime \in Nat

VARIABLES
  dir, exists,   \* the directory and the file are there
  file,          \* the endpoints in the file, <<>> when there is none
  mtime, now,    \* modification time of the file, clock
  holder,        \* who holds the lock
  pc, op, copy,  \* of each writer: where it is, its command, what it read
  view,          \* of each panel: what the page shows
  commands       \* commands begun

procVars == <<pc, op, copy>>
vars == <<dir, exists, file, mtime, now, holder, procVars, view, commands>>

NoOp == [kind |-> "none"]
NoTime == -1
\* clean, history: the page loaded one version of an existing file, and the
\* clock ticked between that version and every later one so far.
NoPage == [stage |-> "closed", shown |-> {}, loadedAt |-> NoTime, clean |-> FALSE]

Payloads == BoundedSeq([base : Bases, key : PanelKeys], 2)

-----------------------------------------------------------------------------
(* update_config. *)

\* The lock file is opened first; without its directory that raises.
Begin(w, o) ==
  /\ pc[w] = "idle" /\ commands < MaxCommands
  /\ commands' = commands + 1
  /\ op' = [op EXCEPT ![w] = o]
  /\ pc' = [pc EXCEPT ![w] = IF dir THEN "waiting" ELSE "nodir"]
  /\ UNCHANGED <<dir, exists, file, mtime, now, holder, copy, view>>

\* Faulty variant of LockFree: whoever waits gets in.
LockIgnored == TRUE
LockFree == holder = NoWriter

Acquire(w) ==
  /\ pc[w] = "waiting" /\ LockFree
  /\ holder' = w
  /\ pc' = [pc EXCEPT ![w] = "locked"]
  /\ UNCHANGED <<dir, exists, file, mtime, now, op, copy, view, commands>>

End(w) ==
  /\ pc' = [pc EXCEPT ![w] = "idle"]
  /\ copy' = [copy EXCEPT ![w] = <<>>]
  /\ op' = [op EXCEPT ![w] = NoOp]
  /\ UNCHANGED commands

\* FileNotFoundError.
FailsToOpen(w) ==
  /\ pc[w] = "nodir"
  /\ End(w)
  /\ UNCHANGED <<dir, exists, file, mtime, now, holder, view>>

\* Ten seconds of trying, and the lock was taken each time.
TimeOut(w) ==
  /\ pc[w] = "waiting" /\ ~LockFree
  /\ End(w)
  /\ UNCHANGED <<dir, exists, file, mtime, now, holder, view>>

Load(w) ==
  /\ pc[w] = "locked"
  /\ copy' = [copy EXCEPT ![w] = file]
  /\ pc' = [pc EXCEPT ![w] = "loaded"]
  /\ UNCHANGED <<dir, exists, file, mtime, now, holder, op, view, commands>>

\* The file is newer than the page; without a time the page replaces all.
ChangedSince(w) ==
  w \in Panels /\ view[w].loadedAt # NoTime /\ mtime > view[w].loadedAt

\* Every command writes the file, also one that was refused.  A page that
\* somebody else wrote past, within one tick of what it shows, is not clean.
Replace(w) ==
  /\ pc[w] = "loaded"
  /\ file' = Mutated(op[w], copy[w], ChangedSince(w))
  /\ exists' = TRUE
  /\ now' = IF CoarseClock THEN now ELSE now + 1
  /\ mtime' = now'
  /\ view' = [p \in Panels |->
                [view[p] EXCEPT !.clean = @ /\ view[p].stage = "open" /\ now' # view[p].loadedAt]]
  /\ pc' = [pc EXCEPT ![w] = "written"]
  /\ UNCHANGED <<dir, holder, op, copy, commands>>

\* The temporary file or its renaming fails: the file is as before.
ReplaceFails(w) ==
  /\ pc[w] = "loaded"
  /\ pc' = [pc EXCEPT ![w] = "failing"]
  /\ UNCHANGED <<dir, exists, file, mtime, now, holder, op, copy, view, commands>>

\* Faulty variant of Release: a failed write is tried again.
ReleaseAndRetry(w) ==
  /\ pc[w] \in {"written", "failing"}
  /\ holder' = NoWriter
  /\ pc' = [pc EXCEPT ![w] = IF @ = "written" THEN "idle" ELSE "waiting"]
  /\ UNCHANGED <<dir, exists, file, mtime, now, op, copy, view, commands>>

Release(w) ==
  /\ pc[w] \in {"written", "failing"}
  /\ holder' = NoWriter
  /\ End(w)
  /\ UNCHANGED <<dir, exists, file, mtime, now, view>>

\* The process dies; its page, if it has one, goes with it.
Crash(w) ==
  /\ pc[w] # "idle"
  /\ holder' = IF holder = w THEN NoWriter ELSE holder
  /\ End(w)
  /\ view' = [p \in Panels |-> IF p = w THEN NoPage ELSE view[p]]
  /\ UNCHANGED <<dir, exists, file, mtime, now>>

-----------------------------------------------------------------------------
(* The panel's GET, in the two steps it takes, and its commands. *)

PageLoads(p) ==
  /\ pc[p] = "idle"
  /\ view' = [view EXCEPT ![p] =
                [stage |-> "half", shown |-> BasesOf(file), loadedAt |-> NoTime,
                 clean |-> exists]]
  /\ UNCHANGED <<dir, exists, file, mtime, now, holder, procVars, commands>>

PageStats(p) ==
  /\ view[p].stage = "half"
  /\ view' = [view EXCEPT ![p].stage = "open",
                          ![p].loadedAt = IF exists THEN mtime ELSE NoTime]
  /\ UNCHANGED <<dir, exists, file, mtime, now, holder, procVars, commands>>

PanelSaves(p, entries) ==
  /\ view[p].stage = "open"
  /\ Begin(p, [kind |-> "save", entries |-> entries])

CliRuns(w) ==
  /\ w \notin Panels
  /\ \E o \in AddOps(Indices) \cup RemoveOps(Indices) \cup ReorderOps(Indices) : Begin(w, o)

Tick ==
  /\ now < MaxTime
  /\ now' = now + 1
  /\ UNCHANGED <<dir, exists, file, mtime, holder, procVars, view, commands>>

-----------------------------------------------------------------------------

Init ==
  /\ dir \in DirAtStart
  /\ exists \in {dir, FALSE}
  /\ file \in StartFiles /\ (~exists => file = <<>>)
  /\ mtime = 0 /\ now = 0
  /\ holder = NoWriter
  /\ pc = [w \in Writers |-> "idle"]
  /\ op = [w \in Writers |-> NoOp]
  /\ copy = [w \in Writers |-> <<>>]
  /\ view = [p \in Panels |-> NoPage]
  /\ commands = 0

\* The steps a writer takes by itself.
WriterStep(w) ==
  \/ FailsToOpen(w) \/ Acquire(w) \/ TimeOut(w) \/ Load(w)
  \/ Replace(w) \/ ReplaceFails(w) \/ Release(w)

Next ==
  \/ \E w \in Writers : CliRuns(w) \/ WriterStep(w) \/ Crash(w)
  \/ \E p \in Panels :
       PageLoads(p) \/ PageStats(p) \/ \E entries \in Payloads : PanelSaves(p, entries)
  \/ Tick

Spec == Init /\ [][Next]_vars /\ \A w \in Writers : WF_vars(WriterStep(w))

-----------------------------------------------------------------------------
(* Properties. *)

Inside == {"locked", "loaded", "written", "failing"}

\* The lock is held exactly while its holder is inside update_config, on every
\* way out of it: an error of the write and a death free it.
LockOwned == \A w \in Writers : holder = w <=> pc[w] \in Inside

Replaces(w) == pc[w] = "loaded" /\ pc'[w] = "written"

\* Concurrent writers merge instead of clobbering each other (config_store.py
\* lines 12-15): whoever changes the file makes of its present content what
\* the command says, as if reading and writing were one step.
UpdatesAreAtomic ==
  [][file' # file =>
       \E w \in Writers : Replaces(w) /\ file' = Mutated(op[w], file, ChangedSince(w))]_vars

\* An endpoint leaves the file because a user removed it: by index, or on a
\* page that showed it.  A page that loaded a file in one piece, and that was
\* not written past within one tick, deletes nothing it did not show.
GoesOnPurpose(w, base) ==
  \/ op[w].kind = "remove"
  \/ op[w].kind = "save" /\ base \in view[w].shown
OthersSurviveCleanPages ==
  [][\A base \in BasesOf(file) \ BasesOf(file') : \E w \in Writers :
       Replaces(w) /\ (GoesOnPurpose(w, base) \/ (w \in Panels /\ ~view[w].clean))]_vars

\* Whatever is added, removed, moved or saved around it, an endpoint keeps its
\* key unless the user typed another one for it (given that the file has its
\* base URL only once: of two keys for one URL the panel keeps the last).
Occurs(base, entries) == {i \in DOMAIN entries : entries[i].base = base}
Types(w, base) ==
  op[w].kind = "save" /\ \E i \in Occurs(base, op[w].entries) : op[w].entries[i].key # NoKey
KeysKept ==
  [][\A w \in Writers, base \in Bases : (Replaces(w) /\ ~Types(w, base)) =>
       \A i \in Occurs(base, file), j \in Occurs(base, file') :
         Occurs(base, file) = {i} /\ Occurs(base, file') = {j} => file'[j].key = file[i].key]_vars

\* Only a remove with --yes leaves a configured machine without endpoints,
\* also when two removes race for the last two.
NeverEmptiedSilently ==
  [][(file # <<>> /\ file' = <<>>) =>
       \E w \in Writers : Replaces(w) /\ op[w].kind = "remove" /\ op[w].yes]_vars

\* No command hangs, whoever holds the lock.
CommandsEnd == \A w \in Writers : (pc[w] # "idle") ~> (pc[w] = "idle")
=============================================================================
