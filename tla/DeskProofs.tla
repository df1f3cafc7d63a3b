------------------------------ MODULE DeskProofs ------------------------------
(***************************************************************************)
(* Proofs about the glow: as long as no wait runs out, it is off whenever  *)
(* nobody acts, for any number of windows and of shows.                    *)
(***************************************************************************)
EXTENDS Desk, SequenceTheorems, TLAPS

Messages == {"update", "hide"}
ThreadPcs == {"start", "make", "pump", "animate", "quit", "ended"}
ThreadType == [pc : ThreadPcs, edge : Nat, queue : Seq(Messages)]
Mains == {"idle", "showing", "busy", "hiding", "over", "ended", "register", "waiting",
          "stopping"}

\* The types of the overlay, and of what decides over its use.  The windows on the
\* screen are those in the common list, until their thread destroys them.
OverlayTypes ==
  /\ threads \in Seq(ThreadType)
  /\ thread \in Nat /\ tid \in Nat /\ shows \in Nat
  /\ ready \in BOOLEAN
  /\ trouble \subseteq {"late", "failed"}
  /\ main \in Mains /\ command \in Commands
  /\ lit \subseteq windows

Newest == Len(threads)

\* A thread that has nothing to do with the present show: it has ended, or once
\* failed to make a window and has no message any more.
Quiet(t) ==
  /\ threads[t].queue = <<>>
  /\ threads[t].pc = "ended" \/ (threads[t].pc = "pump" /\ "failed" \in trouble)

\* No show has found the overlay yet, or the last one is over.
Dark == hwnds = {} /\ \A t \in Started : Quiet(t)

\* The newest thread is being waited for: it says that it is ready when it has made
\* what windows it could, or has given up.
Coming ==
  /\ thread = Newest /\ Newest > 0 /\ threads[Newest].queue = <<>>
  /\ threads[Newest].pc \in {"start", "make", "pump", "ended"}
  /\ ready => threads[Newest].pc \in {"pump", "ended"}
  /\ threads[Newest].pc = "pump" => tid = Newest
  /\ threads[Newest].pc \in {"start", "ended"} => hwnds = {}

\* The newest thread draws the windows, or will.
Glowing ==
  /\ thread = Newest /\ tid = Newest /\ Newest > 0
  /\ threads[Newest].pc \in {"pump", "animate"}
  /\ threads[Newest].queue \in {<<>>, <<"update">>}

\* There is no window to hide; a thread that waits for messages can be told.
Failed ==
  /\ Dark
  /\ thread = 0 \/ (thread = Newest /\ Newest > 0)
  /\ (thread # 0 /\ threads[thread].pc = "pump") => tid = Newest

\* The newest thread has been told to hide.
Going ==
  /\ thread = Newest /\ Newest > 0
  /\ \/ threads[Newest].pc \in {"pump", "animate"}
        /\ threads[Newest].queue \in {<<"hide">>, <<"update", "hide">>}
     \/ threads[Newest].pc = "quit" /\ threads[Newest].queue = <<>>
     \/ threads[Newest].pc = "ended" /\ threads[Newest].queue = <<>> /\ hwnds = {}

\* Windows are the newest thread's, and in the list.
Owned == windows \subseteq hwnds /\ \A w \in hwnds : w[1] = Newest

Places ==
  /\ \A t \in Started : t # Newest => Quiet(t)
  /\ Owned
  /\ main \in {"idle", "over"} => Dark
  /\ main = "showing" => Coming
  /\ main = "busy" => Glowing \/ Failed
  /\ main = "hiding" => Going
  /\ main \in {"register", "waiting", "stopping"} => Failed

Calm == OverlayTypes /\ Places

DeskInv == "late" \in trouble \/ (main = "ended" /\ lit = {}) \/ (main # "ended" /\ Calm)

-----------------------------------------------------------------------------
(* The threads. *)

LEMMA OneThreadChanges ==
  \A s \in Seq(ThreadType) : \A t \in 1 .. Len(s) : \A r \in ThreadType :
    LET u == [s EXCEPT ![t] = r]
    IN  /\ u \in Seq(ThreadType) /\ Len(u) = Len(s) /\ u[t] = r
        /\ \A i \in 1 .. Len(s) : i # t => u[i] = s[i]
OBVIOUS

\* A thread that is quiet takes no step.
LEMMA QuietStays ==
  ASSUME NEW t \in Started, Quiet(t), ThreadStep(t)
  PROVE  FALSE
BY DEF Quiet, ThreadStep, RegisterClass, MakeWindow, Announce, Take, Frame, EndThread

\* Where the newest thread is tells where the main thread waits.
LEMMA NewestOnly ==
  ASSUME Calm, main # "ended", NEW t \in Started, ThreadStep(t)
  PROVE  t = Newest /\ ~Quiet(Newest) /\ main \in {"showing", "busy", "hiding"}
         /\ (main = "busy" => Glowing)
<1>1. ~Quiet(t)
  BY QuietStays
<1>2. t = Newest
  BY <1>1 DEF Calm, Places
<1>3. main \in Mains \ {"idle", "over", "register", "waiting", "stopping", "ended"}
  BY <1>1 DEF Calm, Places, Dark, Failed, OverlayTypes
<1>4. main = "busy" => Glowing
  BY <1>1 DEF Calm, Places, Failed, Dark
<1> QED BY <1>1, <1>2, <1>3, <1>4 DEF Mains

\* The other threads stay quiet.
LEMMA OthersQuiet ==
  ASSUME Calm, Newest' = Newest, trouble \subseteq trouble',
         \A i \in Started : i # Newest => threads'[i] = threads[i]
  PROVE  \A i \in Started' : i # Newest' => Quiet(i)'
BY DEF Calm, Places, Quiet, Started, Newest

LEMMA ThreadKeeps ==
  ASSUME Calm, main # "ended", NEW t \in Started, OverlayThread(t)
  PROVE  Calm'
<1>1. ThreadStep(t) /\ UNCHANGED <<command, main, standbyVars>>
  BY DEF OverlayThread
<1>2. t = Newest /\ main \in {"showing", "busy", "hiding"} /\ (main = "busy" => Glowing)
  BY <1>1, NewestOnly
<1>3. threads \in Seq(ThreadType) /\ Newest \in Nat /\ Newest > 0 /\ threads[t] \in ThreadType
      /\ Started = 1 .. Newest /\ t \in 1 .. Len(threads)
  BY <1>2 DEF Calm, OverlayTypes, Started, Newest
<1>4. ASSUME NEW r \in ThreadType, threads' = [threads EXCEPT ![t] = r]
      PROVE  /\ threads' \in Seq(ThreadType) /\ Newest' = Newest /\ threads'[Newest] = r
             /\ \A i \in Started : i # Newest => threads'[i] = threads[i]
  BY <1>2, <1>3, <1>4, OneThreadChanges DEF Newest, Started
<1>5. ASSUME NEW pc \in ThreadPcs PROVE [threads[t] EXCEPT !.pc = pc] \in ThreadType
  BY <1>3 DEF ThreadType
<1>6. CASE RegisterClass(t)
  <2>1. /\ threads[t].pc = "start"
        /\ UNCHANGED <<hwnds, thread, tid, windows, lit, shows, trouble, main, command>>
    BY <1>1, <1>6 DEF RegisterClass
  <2>2. main = "showing" /\ Coming /\ hwnds = {}
    BY <1>2, <2>1 DEF Calm, Places, Glowing, Going, Coming
  <2>3. PICK pc \in {"make", "ended"} :
          /\ threads' = [threads EXCEPT ![t] = [threads[t] EXCEPT !.pc = pc]]
          /\ IF pc = "make" THEN ready' = ready ELSE ready' = TRUE
    BY <1>6 DEF RegisterClass, Goes
  <2>4. /\ threads' \in Seq(ThreadType) /\ Newest' = Newest
        /\ threads'[Newest] = [threads[Newest] EXCEPT !.pc = pc]
        /\ \A i \in Started : i # Newest => threads'[i] = threads[i]
    BY <1>2, <1>4, <1>5, <2>3 DEF ThreadPcs
  <2>5. threads'[Newest].pc = pc /\ threads'[Newest].queue = threads[Newest].queue
    BY <1>2, <1>3, <2>4 DEF ThreadType
  <2>6. Coming'
    BY <1>2, <2>1, <2>2, <2>3, <2>4, <2>5 DEF Coming, Calm, OverlayTypes
  <2>7. OverlayTypes'
    BY <2>1, <2>3, <2>4 DEF Calm, OverlayTypes
  <2>8. Owned'
    BY <2>1, <2>4 DEF Calm, Places, Owned
  <2>9. \A i \in Started' : i # Newest' => Quiet(i)'
    BY <2>1, <2>4, OthersQuiet
  <2> QED BY <2>1, <2>2, <2>6, <2>7, <2>8, <2>9 DEF Calm, Places
<1>7. CASE MakeWindow(t)
  <2>1. /\ threads[t].pc = "make" /\ windows \subseteq windows'
        /\ UNCHANGED <<thread, tid, ready, lit, shows, trouble, main, command>>
    BY <1>1, <1>7 DEF MakeWindow
  <2>2. main = "showing" /\ Coming
    BY <1>2, <2>1 DEF Calm, Places, Glowing, Going, Coming
  <2>3. threads' = [threads EXCEPT ![t] = [threads[t] EXCEPT !.edge = threads[t].edge + 1]]
    BY <1>7 DEF MakeWindow
  <2>4. [threads[t] EXCEPT !.edge = threads[t].edge + 1] \in ThreadType
    <3>1. \A n \in Nat : n + 1 \in Nat
      OBVIOUS
    <3>2. threads[t].edge + 1 \in Nat
      BY <1>3, <3>1 DEF ThreadType
    <3>3. ASSUME NEW n \in Nat PROVE [threads[t] EXCEPT !.edge = n] \in ThreadType
      BY <1>3 DEF ThreadType
    <3> QED BY <3>2, <3>3
  <2>5. /\ threads' \in Seq(ThreadType) /\ Newest' = Newest
        /\ threads'[Newest] = [threads[Newest] EXCEPT !.edge = threads[t].edge + 1]
        /\ \A i \in Started : i # Newest => threads'[i] = threads[i]
    BY <1>2, <1>4, <2>3, <2>4
  <2>6. threads'[Newest].pc = "make" /\ threads'[Newest].queue = threads[Newest].queue
    BY <1>2, <1>3, <2>1, <2>5 DEF ThreadType
  <2>7. Coming'
    BY <1>2, <2>1, <2>2, <2>5, <2>6 DEF Coming
  <2>8. OverlayTypes'
    BY <2>1, <2>5 DEF Calm, OverlayTypes
  <2>9. Owned'
    BY <1>2, <1>7, <2>5 DEF MakeWindow, Calm, Places, Owned
  <2>10. \A i \in Started' : i # Newest' => Quiet(i)'
    BY <2>1, <2>5, OthersQuiet
  <2> QED BY <2>1, <2>2, <2>7, <2>8, <2>9, <2>10 DEF Calm, Places
<1>8. CASE Announce(t)
  <2>1. /\ threads[t].pc = "make" /\ tid' = t /\ ready' = TRUE
        /\ UNCHANGED <<hwnds, thread, windows, lit, shows, trouble, main, command>>
    BY <1>1, <1>8 DEF Announce
  <2>2. main = "showing" /\ Coming
    BY <1>2, <2>1 DEF Calm, Places, Glowing, Going, Coming
  <2>3. threads' = [threads EXCEPT ![t] = [threads[t] EXCEPT !.pc = "pump"]]
    BY <1>8 DEF Announce, Goes
  <2>4. /\ threads' \in Seq(ThreadType) /\ Newest' = Newest
        /\ threads'[Newest] = [threads[Newest] EXCEPT !.pc = "pump"]
        /\ \A i \in Started : i # Newest => threads'[i] = threads[i]
    BY <1>2, <1>4, <1>5, <2>3 DEF ThreadPcs
  <2>5. threads'[Newest].pc = "pump" /\ threads'[Newest].queue = threads[Newest].queue
    BY <1>2, <1>3, <2>4 DEF ThreadType
  <2>6. Coming'
    BY <1>2, <2>1, <2>2, <2>4, <2>5 DEF Coming
  <2>7. OverlayTypes'
    BY <1>2, <1>3, <2>1, <2>4 DEF Calm, OverlayTypes
  <2>8. Owned'
    BY <2>1, <2>4 DEF Calm, Places, Owned
  <2>9. \A i \in Started' : i # Newest' => Quiet(i)'
    BY <2>1, <2>4, OthersQuiet
  <2> QED BY <2>1, <2>2, <2>6, <2>7, <2>8, <2>9 DEF Calm, Places
<1>9. CASE Take(t)
  <2>1. /\ threads[t].pc \in {"pump", "animate"} /\ threads[t].queue # <<>>
        /\ UNCHANGED <<hwnds, thread, tid, ready, shows, trouble, main, command>>
    BY <1>1, <1>9 DEF Take
  <2>2. PICK pc \in {"quit", "animate", threads[t].pc} :
          /\ threads' = [threads EXCEPT ![t] = [threads[t] EXCEPT !.queue = Tail(threads[t].queue),
                                                                 !.pc = pc]]
          /\ pc = "quit" <=> Head(threads[t].queue) = "hide"
          /\ windows' \subseteq windows /\ lit' = lit \cap windows'
    <3> DEFINE message == Head(threads[t].queue)
               pc == CASE message = "hide" /\ Obeys(t)      -> "quit"
                       [] message = "update" /\ hwnds # {} -> "animate"
                       [] OTHER                             -> threads[t].pc
    <3>1. pc \in {"quit", "animate", threads[t].pc} /\ (pc = "quit" <=> message = "hide")
      BY <2>1 DEF Obeys
    <3>2. /\ threads' = [threads EXCEPT ![t] = [threads[t] EXCEPT !.queue = Tail(threads[t].queue),
                                                                !.pc = pc]]
          /\ windows' \subseteq windows /\ lit' = lit \cap windows'
      BY <1>9 DEF Take
    <3> HIDE DEF pc
    <3> QED BY <3>1, <3>2
  <2>3. pc \in {"quit", "pump", "animate"} /\ pc \in ThreadPcs
    BY <2>1 DEF ThreadPcs
  <2>4. [threads[t] EXCEPT !.queue = Tail(threads[t].queue), !.pc = pc] \in ThreadType
    <3>1. Tail(threads[t].queue) \in Seq(Messages)
      <4>1. \A s \in Seq(Messages) : s # <<>> => Tail(s) \in Seq(Messages)
        OBVIOUS
      <4>2. threads[t].queue \in Seq(Messages)
        BY <1>3 DEF ThreadType
      <4> QED BY <2>1, <4>1, <4>2
    <3>2. \A s \in Seq(Messages) : [threads[t] EXCEPT !.queue = s, !.pc = pc] \in ThreadType
      BY <1>3, <2>3 DEF ThreadType
    <3> QED BY <3>1, <3>2, Zenon
  <2>5. /\ threads' \in Seq(ThreadType) /\ Newest' = Newest
        /\ threads'[Newest].pc = pc /\ threads'[Newest].queue = Tail(threads[Newest].queue)
        /\ \A i \in Started : i # Newest => threads'[i] = threads[i]
    <3>1. /\ threads' \in Seq(ThreadType) /\ Newest' = Newest
          /\ threads'[Newest] = [threads[t] EXCEPT !.queue = Tail(threads[t].queue), !.pc = pc]
          /\ \A i \in Started : i # Newest => threads'[i] = threads[i]
      BY <1>4, <2>2, <2>4
    <3> QED BY <1>2, <1>3, <3>1 DEF ThreadType
  <2>6. OverlayTypes'
    BY <2>1, <2>2, <2>5 DEF Calm, OverlayTypes
  <2>7. Owned'
    BY <2>1, <2>2, <2>5 DEF Calm, Places, Owned
  <2>8. \A i \in Started' : i # Newest' => Quiet(i)'
    BY <2>1, <2>5, OthersQuiet
  <2>9. CASE main = "busy"
    <3>1. Glowing /\ threads[Newest].queue = <<"update">>
      BY <1>2, <2>1, <2>9 DEF Glowing
    <3>2. Head(threads[Newest].queue) = "update" /\ Tail(threads[Newest].queue) = <<>>
      BY <3>1
    <3>3. pc \in {"pump", "animate"}
      BY <1>2, <2>2, <2>3, <3>2
    <3>4. Glowing'
      BY <1>2, <2>1, <2>5, <3>1, <3>2, <3>3 DEF Glowing
    <3> QED BY <2>1, <2>6, <2>7, <2>8, <2>9, <3>4 DEF Calm, Places
  <2>10. CASE main = "hiding"
    <3>1. Going /\ threads[Newest].queue \in {<<"hide">>, <<"update", "hide">>}
      BY <1>2, <2>1, <2>10 DEF Calm, Places, Going
    <3>2. CASE threads[Newest].queue = <<"hide">>
      <4>1. Head(threads[Newest].queue) = "hide" /\ Tail(threads[Newest].queue) = <<>>
        BY <3>2
      <4>2. Going'
        BY <1>2, <2>1, <2>2, <2>5, <3>1, <4>1 DEF Going
      <4> QED BY <2>1, <2>6, <2>7, <2>8, <2>10, <4>2 DEF Calm, Places
    <3>3. CASE threads[Newest].queue = <<"update", "hide">>
      <4>1. Head(threads[Newest].queue) = "update" /\ Tail(threads[Newest].queue) = <<"hide">>
        BY <3>3
      <4>2. Going'
        BY <1>2, <2>1, <2>2, <2>3, <2>5, <3>1, <4>1 DEF Going
      <4> QED BY <2>1, <2>6, <2>7, <2>8, <2>10, <4>2 DEF Calm, Places
    <3> QED BY <3>1, <3>2, <3>3
  <2>11. CASE main = "showing"
    BY <1>2, <2>1, <2>11 DEF Calm, Places, Coming
  <2> QED BY <1>2, <2>9, <2>10, <2>11
<1>10. CASE Frame(t)
  <2>1. /\ lit' \subseteq windows /\ threads[t].pc = "animate"
        /\ UNCHANGED <<hwnds, thread, tid, ready, threads, windows, shows, trouble, main, command>>
    BY <1>1, <1>10 DEF Frame, Calm, OverlayTypes
  <2>2. OverlayTypes'
    BY <2>1 DEF Calm, OverlayTypes
  <2> QED
    BY <2>1, <2>2 DEF Calm, Places, Owned, Dark, Quiet, Coming, Glowing, Failed, Going,
                      Started, Newest
<1>11. CASE EndThread(t)
  <2>1. /\ threads[t].pc = "quit" /\ hwnds' = {}
        /\ threads' = [threads EXCEPT ![t] = [threads[t] EXCEPT !.pc = "ended"]]
        /\ windows' = windows \ Of(t) /\ lit' = lit \ Of(t)
        /\ UNCHANGED <<thread, tid, ready, shows, trouble, main, command>>
    BY <1>1, <1>11 DEF EndThread, Goes, Cleared
  <2>2. main = "hiding" /\ Going /\ threads[Newest].queue = <<>>
    BY <1>2, <2>1 DEF Calm, Places, Glowing, Going, Coming
  <2>3. windows' = {} /\ lit' = {}
    BY <1>2, <2>1 DEF Calm, Places, Owned, Of, OverlayTypes
  <2>4. /\ threads' \in Seq(ThreadType) /\ Newest' = Newest
        /\ threads'[Newest] = [threads[Newest] EXCEPT !.pc = "ended"]
        /\ \A i \in Started : i # Newest => threads'[i] = threads[i]
    BY <1>2, <1>4, <1>5, <2>1 DEF ThreadPcs
  <2>5. threads'[Newest].pc = "ended" /\ threads'[Newest].queue = threads[Newest].queue
    BY <1>2, <1>3, <2>4 DEF ThreadType
  <2>6. Going'
    BY <2>1, <2>2, <2>4, <2>5 DEF Going
  <2>7. OverlayTypes'
    BY <2>1, <2>3, <2>4 DEF Calm, OverlayTypes
  <2>8. Owned'
    BY <2>1, <2>3 DEF Owned
  <2>9. \A i \in Started' : i # Newest' => Quiet(i)'
    BY <2>1, <2>4, OthersQuiet
  <2> QED BY <2>1, <2>2, <2>6, <2>7, <2>8, <2>9 DEF Calm, Places
<1> QED BY <1>1, <1>6, <1>7, <1>8, <1>9, <1>10, <1>11 DEF ThreadStep

-----------------------------------------------------------------------------
(* The main thread. *)

\* Nothing changes for the overlay.
LEMMA OverlayStays ==
  ASSUME Calm, UNCHANGED overlayVars, main' \in Mains, command' = command
  PROVE  /\ OverlayTypes' /\ Owned' /\ (\A i \in Started' : i # Newest' => Quiet(i)')
         /\ (Dark => Dark') /\ (Failed => Failed')
BY DEF Calm, Places, OverlayTypes, Owned, Started, Newest, Quiet, Dark, Failed, overlayVars

\* A message appended behind one other.
LEMMA TwoMessages == ASSUME NEW a, NEW b PROVE Append(<<a>>, b) = <<a, b>>
<1>1. <<a>> \in Seq({a, b}) /\ <<a, b>> \in Seq({a, b}) /\ Len(<<a, b>>) = 2
  OBVIOUS
<1>2. Len(Append(<<a>>, b)) = 2 /\ Append(<<a>>, b) \in Seq({a, b})
  BY <1>1
<1>3. Append(<<a>>, b)[1] = a
  BY <1>1
<1>4. Append(<<a>>, b)[2] = b
  BY <1>1
<1>5. \A i \in 1..2 : Append(<<a>>, b)[i] = <<a, b>>[i]
  BY <1>3, <1>4
<1> QED BY <1>1, <1>2, <1>5, SeqEqual

\* A message for the newest thread.
LEMMA MessagePosted ==
  ASSUME Calm, tid = Newest, Newest > 0, threads[Newest].pc # "ended", NEW message \in Messages,
         threads' = Posted(tid, message), UNCHANGED <<hwnds, windows, trouble>>
  PROVE  /\ threads' \in Seq(ThreadType) /\ Newest' = Newest
         /\ threads'[Newest].pc = threads[Newest].pc
         /\ threads'[Newest].queue = Append(threads[Newest].queue, message)
         /\ Owned' /\ (\A i \in Started' : i # Newest' => Quiet(i)')
<1> DEFINE r == [threads[tid] EXCEPT !.queue = Append(threads[tid].queue, message)]
<1>1. /\ threads \in Seq(ThreadType) /\ Newest = Len(threads) /\ tid \in 1 .. Len(threads)
      /\ threads[tid] \in ThreadType /\ Started = 1 .. Newest
  BY DEF Calm, OverlayTypes, Newest, Started
<1>2. threads' = [threads EXCEPT ![tid] = r]
  BY <1>1 DEF Posted, Ended
<1>3. Append(threads[tid].queue, message) \in Seq(Messages)
  <2>1. \A s \in Seq(Messages) : Append(s, message) \in Seq(Messages)
    OBVIOUS
  <2>2. threads[tid].queue \in Seq(Messages)
    BY <1>1 DEF ThreadType
  <2> QED BY <2>1, <2>2
<1>4. r \in ThreadType /\ r.pc = threads[tid].pc /\ r.queue = Append(threads[tid].queue, message)
  <2>1. \A s \in Seq(Messages) :
          /\ [threads[tid] EXCEPT !.queue = s] \in ThreadType
          /\ [threads[tid] EXCEPT !.queue = s].pc = threads[tid].pc
          /\ [threads[tid] EXCEPT !.queue = s].queue = s
    BY <1>1 DEF ThreadType
  <2> QED BY <1>3, <2>1, Zenon
<1> HIDE DEF r
<1>5. /\ threads' \in Seq(ThreadType) /\ Newest' = Newest /\ threads'[Newest] = r
      /\ \A i \in Started : i # Newest => threads'[i] = threads[i]
  BY <1>1, <1>2, <1>4, OneThreadChanges DEF Newest
<1>6. Owned'
  BY <1>5 DEF Calm, Places, Owned
<1>7. \A i \in Started' : i # Newest' => Quiet(i)'
  BY <1>5, OthersQuiet
<1> QED BY <1>4, <1>5, <1>6, <1>7

\* One more thread is started over an overlay that is dark.
LEMMA ShowStartsKeeps ==
  ASSUME Calm, main = "idle", ShowStarts, main' = "showing", command' = command
  PROVE  Calm'
<1>1. /\ threads \in Seq(ThreadType) /\ Newest \in Nat /\ Newest = Len(threads)
      /\ Started = 1 .. Newest /\ Dark
  BY DEF Calm, OverlayTypes, Newest, Started, Places
<1>2. NewThread \in ThreadType /\ NewThread.pc = "start" /\ NewThread.queue = <<>>
  BY DEF NewThread, ThreadType, ThreadPcs
<1>3. threads' = Append(threads, NewThread) /\ thread' = Len(threads') /\ ready' = FALSE
      /\ shows' = shows + 1 /\ hwnds = {} /\ UNCHANGED <<hwnds, tid, windows, lit, trouble>>
  BY DEF ShowStarts
<1> HIDE DEF NewThread
<1>4. /\ threads' \in Seq(ThreadType) /\ Newest' = Newest + 1 /\ threads'[Newest'] = NewThread
      /\ \A i \in Started : threads'[i] = threads[i]
      /\ Started' = 1 .. Newest + 1
  BY <1>1, <1>2, <1>3 DEF Newest, Started
<1>5. windows = {}
  BY <1>3 DEF Calm, Places, Owned
<1>6. Coming'
  BY <1>1, <1>2, <1>3, <1>4 DEF Coming, Newest
<1>7. OverlayTypes'
  <2>1. shows' \in Nat /\ thread' \in Nat
    BY <1>1, <1>3, <1>4 DEF Calm, OverlayTypes, Newest
  <2> QED BY <1>3, <1>4, <2>1 DEF Calm, OverlayTypes, Mains
<1>8. \A i \in Started' : i # Newest' => Quiet(i)'
  <2>1. \A i \in Started' : i # Newest' => i \in Started
    BY <1>1, <1>4
  <2>2. \A i \in Started : Quiet(i)
    BY <1>1 DEF Dark
  <2> QED BY <1>3, <1>4, <2>1, <2>2 DEF Quiet
<1>9. Owned'
  BY <1>3, <1>5 DEF Owned
<1> QED BY <1>6, <1>7, <1>8, <1>9 DEF Calm, Places

LEMMA MainKeeps ==
  ASSUME Calm, main # "ended",
         Show \/ MainStep \/ End \/ Register \/ Press \/ Stop \/ ListenerStep
  PROVE  DeskInv'
<1>0. main \in Mains /\ command \in Commands /\ trouble \subseteq {"late", "failed"}
      /\ OverlayTypes /\ Places
  BY DEF Calm, OverlayTypes
<1>1. CASE Show
  <2>1. main = "idle" /\ Dark /\ hwnds = {}
    BY <1>0, <1>1 DEF Show, Places, Dark
  <2>2. ShowStarts /\ main' = "showing" /\ command' = command
    BY <1>1, <2>1 DEF Show, ShowReturnsAtOnce, MainGoes
  <2>3. Calm'
    BY <2>1, <2>2, ShowStartsKeeps
  <2> QED BY <2>2, <2>3 DEF DeskInv
<1>2. CASE Showing
  <2>0. main = "showing" /\ Coming /\ command' = command
    BY <1>0, <1>2 DEF Showing, MainGoes, Places
  <2>1. CASE ShowReturns /\ main' = "busy"
    <3>1. threads[Newest].pc = "pump" /\ tid = Newest /\ Newest > 0 /\ thread = Newest
          /\ threads[Newest].queue = <<>>
      BY <2>0, <2>1 DEF ShowReturns, Coming
    <3>2. threads' = Posted(tid, "update")
          /\ UNCHANGED <<hwnds, thread, tid, ready, windows, lit, shows, trouble>>
      BY <2>1 DEF ShowReturns
    <3>3. /\ threads' \in Seq(ThreadType) /\ Newest' = Newest
          /\ threads'[Newest].pc = threads[Newest].pc
          /\ threads'[Newest].queue = Append(threads[Newest].queue, "update")
          /\ Owned' /\ (\A i \in Started' : i # Newest' => Quiet(i)')
      BY <3>1, <3>2, MessagePosted DEF Messages
    <3>4. Append(threads[Newest].queue, "update") = <<"update">>
      BY <3>1
    <3>5. Glowing'
      BY <3>1, <3>2, <3>3, <3>4 DEF Glowing
    <3>6. OverlayTypes'
      BY <1>0, <2>0, <2>1, <3>2, <3>3 DEF OverlayTypes, Mains
    <3> QED BY <2>1, <3>3, <3>5, <3>6 DEF DeskInv, Calm, Places
  <2>2. CASE ShowRaises /\ main' = AfterRaise
    <3>1. CASE ~ready
      BY <2>2, <3>1 DEF ShowRaises, DeskInv
    <3>2. CASE ready
      <4>1. /\ trouble' = trouble \cup {"failed"} /\ hwnds = {}
            /\ UNCHANGED <<hwnds, thread, tid, ready, threads, windows, lit, shows>>
        BY <2>2, <3>2 DEF ShowRaises
      <4>2. threads[Newest].pc \in {"pump", "ended"} /\ threads[Newest].queue = <<>>
            /\ thread = Newest /\ Newest > 0 /\ (threads[Newest].pc = "pump" => tid = Newest)
        BY <2>0, <3>2 DEF Coming
      <4>3. \A i \in Started' : Quiet(i)'
        BY <1>0, <4>1, <4>2 DEF Places, Quiet, Started, Newest
      <4>4. Dark' /\ Failed'
        BY <4>1, <4>2, <4>3 DEF Dark, Failed, Newest
      <4>5. main' \in {"idle", "busy"}
        BY <2>2 DEF AfterRaise
      <4>6. OverlayTypes'
        BY <1>0, <2>0, <4>1, <4>5 DEF OverlayTypes, Mains
      <4>7. Owned'
        BY <1>0, <4>1 DEF Places, Owned, Newest
      <4> QED BY <4>3, <4>4, <4>5, <4>6, <4>7 DEF DeskInv, Calm, Places
    <3> QED BY <3>1, <3>2
  <2> QED BY <1>2, <2>1, <2>2 DEF Showing, MainGoes
<1>3. CASE Hide
  <2>0. main = "busy" /\ (Glowing \/ Failed) /\ command' = command
    BY <1>0, <1>3 DEF Hide, MainGoes, Places
  <2>1. CASE HideReturnsAtOnce /\ main' = AfterHide
    <3>1. Failed /\ hwnds' = hwnds
          /\ UNCHANGED <<thread, tid, ready, threads, windows, lit, shows, trouble>>
      BY <2>0, <2>1 DEF HideReturnsAtOnce, Glowing, Failed, Dark, Ended, Newest
    <3>2. main' \in {"idle", "over", "waiting"}
      BY <2>1 DEF AfterHide
    <3>3. /\ OverlayTypes' /\ Owned' /\ (\A i \in Started' : i # Newest' => Quiet(i)')
          /\ Dark' /\ Failed'
      BY <2>0, <3>1, <3>2, OverlayStays DEF overlayVars, Mains, Failed
    <3> QED BY <3>2, <3>3 DEF DeskInv, Calm, Places
  <2>2. CASE HidePosts /\ main' = "hiding"
    <3>1. thread = Newest /\ tid = Newest /\ Newest > 0 /\ threads[Newest].pc \in {"pump", "animate"}
          /\ threads[Newest].queue \in {<<>>, <<"update">>}
      <4>1. CASE Glowing
        BY <4>1 DEF Glowing
      <4>2. CASE Failed
        <5>1. thread # 0 /\ thread = Newest /\ Newest > 0 /\ Newest \in Started
          BY <1>0, <2>2, <4>2 DEF HidePosts, Failed, Started, Newest, OverlayTypes
        <5>2. Quiet(Newest) /\ threads[Newest].pc # "ended"
          BY <2>2, <4>2, <5>1 DEF HidePosts, Failed, Dark, Ended
        <5> QED BY <4>2, <5>1, <5>2 DEF Failed, Quiet
      <4> QED BY <2>0, <4>1, <4>2
    <3>2. threads' = Posted(tid, "hide")
          /\ UNCHANGED <<hwnds, thread, tid, ready, windows, lit, shows, trouble>>
      BY <2>2 DEF HidePosts
    <3>3. /\ threads' \in Seq(ThreadType) /\ Newest' = Newest
          /\ threads'[Newest].pc = threads[Newest].pc
          /\ threads'[Newest].queue = Append(threads[Newest].queue, "hide")
          /\ Owned' /\ (\A i \in Started' : i # Newest' => Quiet(i)')
      BY <3>1, <3>2, MessagePosted DEF Messages
    <3>4. Append(threads[Newest].queue, "hide") \in {<<"hide">>, <<"update", "hide">>}
      <4>1. CASE threads[Newest].queue = <<>>
        BY <4>1
      <4>2. CASE threads[Newest].queue = <<"update">>
        <5>1. Append(<<"update">>, "hide") = <<"update", "hide">>
          BY TwoMessages
        <5> QED BY <4>2, <5>1
      <4> QED BY <3>1, <4>1, <4>2
    <3>5. Going'
      BY <3>1, <3>2, <3>3, <3>4 DEF Going
    <3>6. OverlayTypes'
      BY <1>0, <2>0, <2>2, <3>2, <3>3 DEF OverlayTypes, Mains
    <3> QED BY <2>2, <3>3, <3>5, <3>6 DEF DeskInv, Calm, Places
  <2> QED BY <1>3, <2>1, <2>2 DEF Hide, MainGoes
<1>4. CASE Hiding
  <2>0. main = "hiding" /\ Going /\ command' = command /\ main' = AfterHide
    BY <1>0, <1>4 DEF Hiding, MainGoes, Places
  <2>1. CASE HideGivesUp
    BY <2>1 DEF HideGivesUp, DeskInv
  <2>2. CASE HideReturns
    <3>1. /\ thread' = 0 /\ threads[Newest].pc = "ended"
          /\ UNCHANGED <<hwnds, tid, ready, threads, windows, lit, shows, trouble>>
      BY <2>0, <2>2 DEF HideReturns, Ended, Going
    <3>2. hwnds = {} /\ threads[Newest].queue = <<>>
      BY <2>0, <3>1 DEF Going
    <3>3. \A i \in Started' : Quiet(i)'
      BY <1>0, <3>1, <3>2 DEF Places, Quiet, Started, Newest
    <3>4. main' \in {"idle", "over", "waiting"}
      BY <2>0 DEF AfterHide
    <3>5. OverlayTypes' /\ Owned' /\ Dark'
      BY <1>0, <2>0, <3>1, <3>2, <3>3, <3>4 DEF OverlayTypes, Places, Owned, Dark, Newest, Mains
    <3>6. Failed'
      BY <3>1, <3>5 DEF Failed
    <3> QED BY <3>3, <3>4, <3>5, <3>6 DEF DeskInv, Calm, Places
  <2> QED BY <1>4, <2>1, <2>2 DEF Hiding
<1>5. CASE End
  <2>1. Gone /\ main' = "ended"
    BY <1>5 DEF End, MainGoes
  <2>2. lit' = {}
    BY <2>1, Zenon DEF Gone
  <2> QED BY <2>1, <2>2 DEF DeskInv
<1>6. CASE Register \/ StandbyRecords \/ Stop \/ Stopped
  <2>1. /\ Failed /\ UNCHANGED overlayVars /\ command' = command
        /\ main' \in {"busy", "idle", "over", "waiting", "stopping", "ended"}
    BY <1>0, <1>6 DEF Register, StandbyRecords, Stop, Stopped, MainGoes, Places
  <2>2. /\ OverlayTypes' /\ Owned' /\ (\A i \in Started' : i # Newest' => Quiet(i)') /\ Failed'
    BY <2>1, OverlayStays DEF Mains
  <2>3. Dark'
    BY <2>2 DEF Failed
  <2>4. lit' = {}
    BY <2>2, <2>3 DEF Dark, Owned, OverlayTypes
  <2> QED BY <2>1, <2>2, <2>3, <2>4 DEF DeskInv, Calm, Places
<1>7. CASE Press \/ ListenerStep
  <2>1. UNCHANGED <<overlayVars, command, main>>
    BY <1>7 DEF Press, ListenerStep, LoopStarts, LoopTakes
  <2>2. Calm'
    BY <2>1 DEF Calm, Places, OverlayTypes, Owned, Dark, Quiet, Coming, Glowing, Failed, Going,
                Started, Newest, overlayVars
  <2> QED BY <2>1, <2>2 DEF DeskInv
<1> QED BY <1>1, <1>2, <1>3, <1>4, <1>5, <1>6, <1>7 DEF MainStep

-----------------------------------------------------------------------------

LEMMA DeskStart == Init => DeskInv
<1> SUFFICES ASSUME Init PROVE DeskInv
  OBVIOUS
<1>1. /\ threads = <<>> /\ hwnds = {} /\ thread = 0 /\ tid = 0 /\ ready = FALSE /\ windows = {}
      /\ lit = {} /\ shows = 0 /\ trouble = {} /\ command \in Commands
  BY DEF Init, OverlayInit
<1>2. main \in {"register", "waiting", "idle"}
  BY DEF Init
<1>3. Started = {} /\ threads \in Seq(ThreadType)
  BY <1>1 DEF Started
<1> QED BY <1>1, <1>2, <1>3 DEF DeskInv, Calm, OverlayTypes, Places, Owned, Dark, Failed, Mains

\* What is wrong stays known, and what is over stays over.
LEMMA LateStays == "late" \in trouble /\ [Next]_vars => "late" \in trouble'
<1> SUFFICES ASSUME "late" \in trouble, [Next]_vars PROVE "late" \in trouble'
  OBVIOUS
<1>1. CASE UNCHANGED overlayVars
  BY <1>1 DEF overlayVars
<1>2. CASE \E t \in Started : OverlayThread(t)
  BY <1>2 DEF OverlayThread, ThreadStep, RegisterClass, MakeWindow, Announce, Take, Frame, EndThread
<1>3. CASE Show \/ Showing
  BY <1>3 DEF Show, ShowReturnsAtOnce, ShowStarts, Showing, ShowReturns, ShowRaises
<1>4. CASE Hide \/ Hiding
  BY <1>4 DEF Hide, HideReturnsAtOnce, HidePosts, Hiding, HideReturns, HideGivesUp
<1>5. CASE End
  <2>1. Gone
    BY <1>5 DEF End
  <2>2. UNCHANGED trouble
    BY <2>1, Zenon DEF Gone
  <2> QED BY <2>2
<1>6. CASE Register \/ Press \/ StandbyRecords \/ Stop \/ Stopped \/ ListenerStep
  <2>1. UNCHANGED overlayVars
    BY <1>6 DEF Register, Press, StandbyRecords, Stop, Stopped, ListenerStep, LoopStarts, LoopTakes
  <2> QED BY <1>1, <2>1
<1> QED BY <1>1, <1>2, <1>3, <1>4, <1>5, <1>6 DEF Next, MainStep, vars

LEMMA EndedStays ==
  main = "ended" /\ lit = {} /\ [Next]_vars => main' = "ended" /\ lit' = {}
BY DEF Next, vars, overlayVars, Show, MainStep, Showing, Hide, Hiding, End, Register, Press,
       StandbyRecords, Stop, Stopped, ListenerStep, OverlayThread

LEMMA DeskKept == DeskInv /\ [Next]_vars => DeskInv'
<1> SUFFICES ASSUME DeskInv, [Next]_vars PROVE DeskInv'
  OBVIOUS
<1>1. CASE "late" \in trouble
  BY <1>1, LateStays DEF DeskInv
<1>2. CASE main = "ended" /\ lit = {}
  BY <1>2, EndedStays DEF DeskInv
<1>3. CASE main # "ended" /\ Calm
  <2>1. CASE UNCHANGED vars
    BY <1>3, <2>1 DEF vars, overlayVars, DeskInv, Calm, Places, OverlayTypes, Owned, Dark, Quiet,
                      Coming, Glowing, Failed, Going, Started, Newest
  <2>2. CASE \E t \in Started : OverlayThread(t)
    BY <1>3, <2>2, ThreadKeeps DEF DeskInv, OverlayThread
  <2>3. CASE Show \/ MainStep \/ End \/ Register \/ Press \/ Stop \/ ListenerStep
    BY <1>3, <2>3, MainKeeps
  <2> QED BY <2>1, <2>2, <2>3 DEF Next
<1> QED BY <1>1, <1>2, <1>3 DEF DeskInv

\* The invariant the two theorems rest on.
THEOREM DeskInvariant == Spec => []DeskInv
BY DeskStart, DeskKept, PTL DEF Spec

\* Once hide has returned nothing glows, unless a wait ran out.
THEOREM DarkWhenHiddenHolds == Spec => []DarkWhenHidden
<1>1. DeskInv => DarkWhenHidden
  BY DEF DeskInv, DarkWhenHidden, Calm, Places, OverlayTypes, Owned, Dark
<1> QED BY <1>1, DeskInvariant, PTL

\* If nothing went wrong, an act finds no thread and no window of the one before.
THEOREM NextShowIsFreshHolds == Spec => []NextShowIsFresh
<1>1. DeskInv => NextShowIsFresh
  BY DEF DeskInv, NextShowIsFresh, Calm, Places, Dark, Quiet, Ended
<1> QED BY <1>1, DeskInvariant, PTL
=============================================================================
