---------------------------- MODULE UpstreamProofs ----------------------------
(***************************************************************************)
(* Proofs about the windows and the calls that act on them.  A call never  *)
(* asks the desktop twice for the same thing and compares; what it does    *)
(* know is whether anybody has changed the desktop since it last started   *)
(* from a fresh reading.  The invariants say what each field of the call   *)
(* still stands for as long as nobody has.                                 *)
(***************************************************************************)
EXTENDS Upstream, FoldLemmas, SequenceTheorems

-----------------------------------------------------------------------------
(* The invariants. *)

WindowsType ==
  /\ stack \in Seq(WindowIds)
  /\ place \in [WindowIds -> Places]
  /\ shape \in [WindowIds -> {"normal", "minimized", "maximized"}]

Driven  == {"probe", "start", "poll", "resolve", "read", "send", "find", "press"}
Showing == {"choose", "show", "again"}

CallFields == {"pc", "tool", "title", "offset", "stage", "again", "window", "pid",
               "read", "target", "rect", "spot", "known", "code", "moved"}

\* Which steps a tool goes through, and what is fixed when it begins.
CallInv ==
  /\ DOMAIN call = CallFields
  /\ call.pc = "idle" => call.stage = "gate" /\ call.target = NoWindow /\ call.spot = NoSpot
  /\ call.pc \in Driven => call.tool \notin WindowTools
  /\ call.pc = "status" => call.tool \in WindowTools
  /\ call.pc \in Showing => call.tool \in {"activate", "maximize"}
  /\ call.pc # "idle" => call.offset \in Offsets
  /\ call.title \in Titles \cup {NoText}
  /\ call.known \in BOOLEAN
  /\ call.pc # "done" => call.code # "ok"

\* Past the reading of the gate.
PastGate == call.stage # "gate" \/ call.pc \in {"find", "press"}

\* The driver's actions.
DriverInv ==
  call.tool \notin WindowTools =>
    /\ ~PastGate => call.target = NoWindow
    /\ (PastGate /\ ~call.moved) => call.read = MainWindow(App)
    /\ (call.pc = "read" /\ call.stage = "gate" /\ ~call.moved) => call.window = MainWindow(App)
    /\ call.pc = "send" => call.stage = "act"
    /\ (call.pc = "send" /\ ~call.moved) => call.window = MainWindow(App)
    /\ (call.stage = "act" /\ call.target # NoWindow /\ ~call.moved) => call.target = MainWindow(App)
    /\ call.stage = "act" => call.tool # "real"
    /\ (call.pc \in {"find", "press"} \/ call.stage \notin {"gate", "act"}) => call.tool = "real"

\* Real clicks.
ClickInv ==
  call.tool = "real" =>
    /\ call.stage # "after" => call.spot = NoSpot
    /\ call.stage = "after" => call.pc \notin {"find", "press", "send"}
    /\ (call.target # NoWindow /\ ~call.moved) =>
         /\ call.target = Largest(Candidates(App, call.known))
         /\ Candidates(App, call.known) # {}
         /\ call.rect = Rect(call.target)
         /\ call.spot # NoSpot => \E o \in Offsets : /\ InBounds(call.rect, o[1], o[2])
                                                     /\ call.spot = CursorAt(ScreenPoint(call.rect, o[1], o[2]))

\* The window cu_window has found is the only one that its own title finds.
FoundAlone ==
  /\ call.window \in Candidates(App, TRUE)
  /\ \A v \in Candidates(App, TRUE) : <<TitleOf[call.window], TitleOf[v]>> \in Within => v = call.window

\* The windows a title may stand for.
Named(title) == Narrowed({w \in WindowIds : TitleOf[w] # NoText}, title)

\* What cu_window's last step leaves behind.
Wanted == IF call.tool = "activate" THEN "normal" ELSE "maximized"

ShowInv ==
  call.tool \in {"activate", "maximize"} =>
    /\ (call.pc \in Showing \/ call.target # NoWindow) =>
         call.window \in Named(call.title)
    /\ (call.pc \in {"show", "again"} \/ call.target # NoWindow) =>
         call.target \in Narrowed(WindowIds, call.title)
    /\ (call.pc \in Showing /\ ~call.moved) => FoundAlone
    /\ (call.pc \in {"show", "again"} /\ ~call.moved /\ call.known) => call.target = call.window
    /\ (call.pc = "again" /\ ~call.moved /\ call.known) => shape[call.window] = Wanted
    /\ (call.code = "ok" /\ ~call.moved /\ call.known) =>
         /\ call.target = call.window /\ call.read = call.window
         /\ shape[call.window] = Wanted

UpstreamInv == WindowsType /\ CallInv /\ DriverInv /\ ClickInv /\ ShowInv

-----------------------------------------------------------------------------
(* The stack of windows. *)

\* A window in the stack is found where Index says.
LEMMA IndexFinds ==
  ASSUME stack \in Seq(WindowIds), NEW w \in Open
  PROVE  Index(w) \in 1 .. Len(stack) /\ stack[Index(w)] = w
<1>1. \E i \in DOMAIN stack : stack[i] = w
  BY DEF Open, ToSet
<1>2. DOMAIN stack = 1 .. Len(stack)
  OBVIOUS
<1>3. QED
  BY <1>1, <1>2 DEF Index

\* Taking a window out of the stack takes no other one out.
LEMMA WithoutOne ==
  ASSUME stack \in Seq(WindowIds), NEW w \in WindowIds
  PROVE  /\ Without(w) \in Seq(WindowIds)
         /\ OnTop(w) \in Seq(WindowIds)
         /\ ToSet(OnTop(w)) = Open \cup {w}
<1>1. CASE w \notin Open
  <2>1. Without(w) = stack /\ OnTop(w) = <<w>> \o stack
    BY <1>1 DEF Without, OnTop
  <2>2. OnTop(w) \in Seq(WindowIds) /\ Len(OnTop(w)) = 1 + Len(stack)
    BY <2>1
  <2>3. ToSet(OnTop(w)) = {OnTop(w)[i] : i \in 1 .. 1 + Len(stack)}
    BY <2>2 DEF ToSet
  <2>4. \A i \in 1 .. 1 + Len(stack) : OnTop(w)[i] = IF i = 1 THEN w ELSE stack[i - 1]
    BY <2>1
  <2>5. Open = {stack[i] : i \in 1 .. Len(stack)}
    BY DEF Open, ToSet
  <2>6. \A i \in 1 .. Len(stack) : i + 1 \in 1 .. 1 + Len(stack) /\ OnTop(w)[i + 1] = stack[i]
    BY <2>4
  <2>7. 1 \in 1 .. 1 + Len(stack) /\ OnTop(w)[1] = w
    BY <2>4
  <2>8. ToSet(OnTop(w)) \subseteq Open \cup {w}
    BY <2>3, <2>4, <2>5
  <2>9. Open \cup {w} \subseteq ToSet(OnTop(w))
    BY <2>3, <2>5, <2>6, <2>7
  <2>10. QED
    BY <2>1, <2>2, <2>8, <2>9
<1>2. CASE w \in Open
  <2> DEFINE k == Index(w)
             above == SubSeq(stack, 1, k - 1)
             below == SubSeq(stack, k + 1, Len(stack))
             s == Without(w)
             t == OnTop(w)
  <2>1. k \in 1 .. Len(stack) /\ stack[k] = w
    BY <1>2, IndexFinds
  <2>2. s = above \o below
    BY <1>2 DEF Without, RemoveAt
  <2> HIDE DEF k, s
  <2>3. /\ above \in Seq(WindowIds) /\ Len(above) = k - 1
        /\ below \in Seq(WindowIds) /\ Len(below) = Len(stack) - k
        /\ \A i \in 1 .. k - 1 : above[i] = stack[i]
        /\ \A i \in 1 .. Len(stack) - k : below[i] = stack[k + i]
    BY <2>1
  <2> HIDE DEF above, below
  <2>4. s \in Seq(WindowIds) /\ Len(s) = Len(stack) - 1
    BY <2>1, <2>2, <2>3
  <2>5. \A i \in 1 .. Len(stack) - 1 : s[i] = IF i < k THEN stack[i] ELSE stack[i + 1]
    BY <2>1, <2>2, <2>3
  <2>6. t = <<w>> \o s
    BY DEF OnTop, s
  <2> HIDE DEF t
  <2>7. t \in Seq(WindowIds) /\ Len(t) = Len(stack)
    BY <2>1, <2>4, <2>6
  <2>8. \A i \in 1 .. Len(stack) : t[i] = IF i = 1 THEN w ELSE s[i - 1]
    BY <2>4, <2>6, <2>1
  <2>9. ToSet(t) = {t[i] : i \in 1 .. Len(stack)} /\ Open = {stack[i] : i \in 1 .. Len(stack)}
    BY <2>7 DEF ToSet, Open
  <2>10. \A i \in 1 .. Len(stack) : t[i] \in Open
    BY <2>1, <2>5, <2>8, <2>9
  <2>11. \A i \in 1 .. Len(stack) : stack[i] \in ToSet(t)
    <3> SUFFICES ASSUME NEW i \in 1 .. Len(stack)
                 PROVE  \E j \in 1 .. Len(stack) : t[j] = stack[i]
      BY <2>9
    <3>1. CASE i < k
      <4>1. i + 1 \in 1 .. Len(stack) /\ i \in 1 .. Len(stack) - 1 /\ t[i + 1] = s[i] /\ s[i] = stack[i]
        BY <3>1, <2>1, <2>5, <2>8
      <4>2. QED
        BY <4>1
    <3>2. CASE i = k
      <4>1. t[1] = stack[i] /\ 1 \in 1 .. Len(stack)
        BY <3>2, <2>1, <2>8
      <4>2. QED
        BY <4>1
    <3>3. CASE i > k
      <4>1. i - 1 \in 1 .. Len(stack) - 1 /\ t[i] = s[i - 1] /\ s[i - 1] = stack[i]
        BY <3>3, <2>1, <2>5, <2>8
      <4>2. QED
        BY <4>1
    <3>4. QED
      BY <3>1, <3>2, <3>3, <2>1
  <2>12. QED
    BY <1>2, <2>4, <2>7, <2>9, <2>10, <2>11 DEF s, t
<1>3. QED
  BY <1>1, <1>2

\* Only the desktop's own steps and ShowChosen change the desktop.
LEMMA DesktopSteps ==
  ASSUME [Next]_vars
  PROVE  UNCHANGED desktop \/ Outside \/ ShowChosen
<1> USE DEF windowVars
<1>1. CASE Next
  <2>1. ASSUME NEW tool \in Tools, NEW title \in Titles, NEW offset \in Offsets, Begin(tool, title, offset)
        PROVE  UNCHANGED desktop
    BY <2>1 DEF Begin, Alone
  <2>2. CASE Probe \/ StartDaemon \/ Poll \/ ResolveWindow \/ ReadWindow \/ SendAction \/ ClickReal \/ Return
    BY <2>2 DEF Probe, StartDaemon, Poll, ResolveWindow, ReadWindow, SendAction, ClickReal, Return, Alone
  <2>3. ASSUME NEW known \in BOOLEAN,
               FindWindow(known) \/ Status(known) \/ Choose(known) \/ StatusAgain(known)
        PROVE  UNCHANGED desktop
    BY <2>3 DEF FindWindow, Status, Choose, StatusAgain, Alone
  <2>4. CASE DaemonComesUp \/ DaemonDies
    BY <2>4 DEF DaemonComesUp, DaemonDies
  <2>5. QED
    BY <1>1, <2>1, <2>2, <2>3, <2>4 DEF Next, ClientStep
<1>2. CASE UNCHANGED vars
  BY <1>2 DEF vars
<1>3. QED
  BY <1>1, <1>2

\* The stack, the places and the shapes keep their types.
LEMMA WindowsKept ==
  ASSUME WindowsType, CallInv, ShowInv, [Next]_vars
  PROVE  WindowsType'
<1> USE UpstreamAssumption, WindowsAssumption DEF WindowsType
<1>1. ASSUME NEW w \in WindowIds, NEW to \in {"normal", "minimized", "maximized"}, ShowAndForeground(w, to)
      PROVE  WindowsType'
  BY <1>1, WithoutOne DEF ShowAndForeground
<1>2. CASE Outside
  <2>1. ASSUME NEW w \in WindowIds, WindowOpens(w) \/ WindowCloses(w) \/ WindowComesUp(w) \/ WindowIsMinimized(w)
        PROVE  WindowsType'
    BY <2>1, WithoutOne DEF WindowOpens, WindowCloses, WindowComesUp, WindowIsMinimized
  <2>2. ASSUME NEW w \in WindowIds, NEW r \in Places, WindowIsDragged(w, r)
        PROVE  WindowsType'
    BY <2>2 DEF WindowIsDragged
  <2>3. QED
    BY <1>2, <2>1, <2>2 DEF Outside, DesktopStep
<1>3. CASE ShowChosen
  <2>1. call.target \in WindowIds
    BY <1>3 DEF ShowChosen, CallInv, ShowInv, Showing, Narrowed
  <2>2. QED
    BY <1>1, <1>3, <2>1 DEF ShowChosen, desktop
<1>4. CASE UNCHANGED desktop
  BY <1>4 DEF desktop
<1>5. QED
  BY <1>2, <1>3, <1>4, DesktopSteps

-----------------------------------------------------------------------------
(* What the rules find. *)

\* While the desktop stays as it is, so does what each rule finds on it.
LEMMA SameDesktop ==
  ASSUME UNCHANGED desktop
  PROVE  /\ MainWindow(App)' = MainWindow(App)
         /\ \A known \in BOOLEAN : /\ Candidates(App, known)' = Candidates(App, known)
                                   /\ Largest(Candidates(App, known))' = Largest(Candidates(App, known))
         /\ \A w : Rect(w)' = Rect(w)
<1> USE DEF desktop
<1>1. \A w : Rect(w)' = Rect(w) /\ Area(w)' = Area(w) /\ Index(w)' = Index(w)
  BY DEF Rect, Area, Index
<1>2. MainWindow(App)' = MainWindow(App)
  BY DEF MainWindow, Largest, WindowsOf, Open, Area, Index, Rect
<1>3. \A known \in BOOLEAN : Candidates(App, known)' = Candidates(App, known)
  BY DEF Candidates, Titled, Open
<1>4. \A known \in BOOLEAN : Largest(Candidates(App, known))' = Largest(Candidates(App, known))
  BY DEF Candidates, Titled, Open, Largest, Area, Index, Rect
<1>5. QED
  BY <1>1, <1>2, <1>3, <1>4

\* One window lies before another in the order of Largest.
Ahead(w, v) == Area(w) > Area(v) \/ (Area(w) = Area(v) /\ Index(w) < Index(v))

\* Every open window has a size.
LEMMA Sized ==
  ASSUME WindowsType, NEW w \in Open
  PROVE  w \in WindowIds /\ Rect(w) \in [x : Int, y : Int, w : Nat, h : Nat] /\ Area(w) \in Nat
<1>1. w \in WindowIds
  BY DEF WindowsType, Open, ToSet
<1>2. Rect(w) \in [x : Int, y : Int, w : Nat, h : Nat]
  BY <1>1, WindowsAssumption DEF WindowsType, Rect, Screen, Parked
<1>3. QED
  BY <1>1, <1>2 DEF Area

LEMMA AheadIsOrder ==
  ASSUME WindowsType
  PROVE  /\ \A v, w \in Open : v # w => (Ahead(v, w) \/ Ahead(w, v)) /\ ~(Ahead(v, w) /\ Ahead(w, v))
         /\ \A u, v, w \in Open : Ahead(u, v) /\ Ahead(v, w) => Ahead(u, w)
<1>1. \A w \in Open : Index(w) \in Nat /\ stack[Index(w)] = w
  BY IndexFinds DEF WindowsType
<1>2. \A w \in Open : Area(w) \in Nat
  BY Sized
<1>3. \A v, w \in Open : v # w => Index(v) # Index(w)
  BY <1>1
<1>4. QED
  BY <1>1, <1>2, <1>3 DEF Ahead

\* Of any windows one is the largest.
LEMMA LargestIs ==
  ASSUME WindowsType, NEW S \in SUBSET Open, S # {}
  PROVE  Largest(S) \in S /\ \A v \in S \ {Largest(S)} : Ahead(Largest(S), v)
<1> DEFINE Upto(n) == {stack[i] : i \in 1 .. n}
           HasLargest(T) == \E w \in T : \A v \in T \ {w} : Ahead(w, v)
           N == {n \in Nat : n <= Len(stack) => \A T \in SUBSET Upto(n) : T # {} => HasLargest(T)}
<1>1. 0 \in N
  OBVIOUS
<1>2. ASSUME NEW n \in N PROVE n + 1 \in N
  <2> SUFFICES ASSUME n + 1 <= Len(stack), NEW T \in SUBSET Upto(n + 1), T # {}
               PROVE  HasLargest(T)
    OBVIOUS
  <2> DEFINE last == stack[n + 1]
             rest == T \ {last}
  <2>1. n \in Nat /\ Len(stack) \in Nat /\ rest \in SUBSET Upto(n)
    BY DEF WindowsType
  <2>2. rest # {} => HasLargest(rest)
    <3> HIDE DEF HasLargest, rest
    <3>1. n <= Len(stack)
      BY <2>1
    <3>2. QED
      BY <2>1, <3>1
  <2>3. T \subseteq Open /\ rest \subseteq Open
    <3>1. \A i \in 1 .. n + 1 : i \in DOMAIN stack
      BY <2>1 DEF WindowsType
    <3>2. QED
      BY <3>1 DEF Open, ToSet
  <2>4. CASE last \notin T
    BY <2>2, <2>4
  <2>5. CASE last \in T /\ rest = {}
    BY <2>5
  <2>6. CASE last \in T /\ rest # {}
    <3>1. PICK w \in rest : \A v \in rest \ {w} : Ahead(w, v)
      BY <2>2, <2>6
    <3>2. Ahead(w, last) \/ Ahead(last, w)
      BY <2>3, <2>6, <3>1, AheadIsOrder
    <3>3. CASE Ahead(w, last)
      BY <3>1, <3>3
    <3>4. CASE Ahead(last, w)
      <4>1. \A v \in T \ {last} : Ahead(last, v)
        BY <2>3, <2>6, <3>1, <3>4, AheadIsOrder
      <4>2. QED
        BY <2>6, <4>1
    <3>5. QED
      BY <3>2, <3>3, <3>4
  <2>7. QED
    BY <2>4, <2>5, <2>6
<1>3. Len(stack) \in N /\ Len(stack) \in Nat
  <2>1. N \in SUBSET Nat
    OBVIOUS
  <2> HIDE DEF N
  <2>2. N = Nat
    BY <1>1, <1>2, <2>1, SetInduction
  <2>3. QED
    BY <2>2 DEF WindowsType
<1>4. S \in SUBSET Upto(Len(stack))
  BY DEF Open, ToSet, WindowsType
<1>5. HasLargest(S)
  BY <1>3, <1>4
<1>6. QED
  BY <1>5 DEF Largest, Ahead

\* Nothing but the largest window is ahead of all the others.
LEMMA LargestIsOnly ==
  ASSUME WindowsType, NEW S \in SUBSET Open, NEW w \in S, \A v \in S \ {w} : Ahead(w, v)
  PROVE  Largest(S) = w
<1>1. Largest(S) \in S /\ \A v \in S \ {Largest(S)} : Ahead(Largest(S), v)
  BY LargestIs
<1>2. QED
  BY <1>1, AheadIsOrder

\* What goes by the name goes by it whether or not the processes are named too.
LEMMA CandidatesAre ==
  ASSUME WindowsType, NEW known \in BOOLEAN
  PROVE  /\ Candidates(App, known) \subseteq Titled
         /\ Candidates(App, known) \subseteq Candidates(App, TRUE)
         /\ \A w \in Titled : w \in WindowIds /\ TitleOf[w] \in Texts
         /\ \A v, w \in Titled : (w \in Candidates(App, FALSE) /\ <<TitleOf[w], TitleOf[v]>> \in Within) =>
                                   v \in Candidates(App, FALSE)
<1>1. \A w \in Titled : w \in WindowIds /\ TitleOf[w] \in Texts
  BY WindowsAssumption DEF WindowsType, Titled, Open, ToSet
<1>2. \A w \in Titled : w \in Candidates(App, FALSE) <=> <<App, TitleOf[w]>> \in Within
  BY UpstreamAssumption, WindowsAssumption DEF Candidates, MatchesApp, ExeName
<1>3. \A w \in Titled : <<App, TitleOf[w]>> \in Within => w \in Candidates(App, TRUE)
  BY DEF Candidates, MatchesApp
<1>4. Candidates(App, known) \subseteq Titled
  BY DEF Candidates
<1>5. \A r, s, t \in Texts : (<<r, s>> \in Within /\ <<s, t>> \in Within) => <<r, t>> \in Within
  BY WindowsAssumption
<1>6. \A v, w \in Titled : (w \in Candidates(App, FALSE) /\ <<TitleOf[w], TitleOf[v]>> \in Within) =>
                             v \in Candidates(App, FALSE)
  BY <1>1, <1>2, <1>5, UpstreamAssumption
<1>7. known = TRUE \/ known = FALSE
  OBVIOUS
<1>8. Candidates(App, known) \subseteq Candidates(App, TRUE)
  BY <1>2, <1>3, <1>4, <1>7
<1>9. QED
  BY <1>1, <1>4, <1>6, <1>8

\* The one window a title leaves is the only one its own title finds.
LEMMA OneLeft ==
  ASSUME WindowsType, NEW known \in BOOLEAN, NEW title \in Texts \cup {NoText},
         Cardinality(Narrowed(Candidates(App, known), title)) = 1
  PROVE  LET w == Largest(Narrowed(Candidates(App, known), title))
         IN  /\ w \in Named(title) /\ w \in Candidates(App, TRUE)
             /\ \A v \in Candidates(App, TRUE) : <<TitleOf[w], TitleOf[v]>> \in Within => v = w
<1> DEFINE left == Narrowed(Candidates(App, known), title)
           w == Largest(left)
<1>1. left \subseteq Candidates(App, known) /\ left \subseteq Titled /\ left \subseteq Open /\ left \subseteq WindowIds
  BY CandidatesAre DEF Narrowed, Titled
<1>2. left = {w}
  <2> HIDE DEF left
  <2>1. IsFiniteSet(left)
    BY <1>1, FS_Subset, WindowsAssumption
  <2>2. PICK x : left = {x}
    BY <2>1, FS_Singleton DEF left
  <2>3. Largest(left) \in left
    BY <1>1, <2>2, LargestIs
  <2>4. QED
    BY <2>2, <2>3
<1>3. w \in Candidates(App, known) /\ w \in Titled /\ w \in Candidates(App, TRUE)
  BY <1>1, <1>2, CandidatesAre
<1>4. w \in WindowIds /\ TitleOf[w] \in Texts
  BY <1>3, CandidatesAre
<1>5. title = NoText \/ <<title, TitleOf[w]>> \in Within
  <2>1. w \in left
    BY <1>2
  <2>2. QED
    BY <2>1 DEF Narrowed
<1>6. w \in Named(title)
  BY <1>4, <1>5, WindowsAssumption DEF Named, Narrowed
<1>7. ASSUME NEW v \in Candidates(App, TRUE), <<TitleOf[w], TitleOf[v]>> \in Within
      PROVE  v = w
  <2>1. v \in Titled /\ TitleOf[v] \in Texts
    BY CandidatesAre
  <2>2. v \in Candidates(App, known)
    BY <1>3, <1>7, <2>1, CandidatesAre
  <2>3. title = NoText \/ <<title, TitleOf[v]>> \in Within
    BY <1>4, <1>5, <1>7, <2>1, WindowsAssumption
  <2>4. v \in left
    BY <2>2, <2>3 DEF Narrowed
  <2>5. QED
    BY <1>2, <2>4
<1>8. QED
  BY <1>3, <1>6, <1>7

\* The window _resolve picks goes by the title it was given.
LEMMA PickedIs ==
  ASSUME WindowsType, NEW known \in BOOLEAN, NEW title \in Texts,
         Picked(Candidates(App, known), title) # {}
  PROVE  LET w == Largest(Picked(Candidates(App, known), title))
         IN  w \in Candidates(App, known) /\ <<title, TitleOf[w]>> \in Within
<1> DEFINE picked == Picked(Candidates(App, known), title)
<1>1. picked \subseteq Candidates(App, known) /\ \A w \in picked : <<title, TitleOf[w]>> \in Within
  BY WindowsAssumption DEF Picked, Narrowed
<1>2. Largest(picked) \in picked
  <2>1. picked \subseteq Open
    BY <1>1, CandidatesAre DEF Titled
  <2> HIDE DEF picked
  <2>2. QED
    BY <2>1, LargestIs DEF picked
<1>3. QED
  BY <1>1, <1>2

-----------------------------------------------------------------------------
(* The invariants are kept. *)

\* What each step of the client may do to its call.
LEMMA CallSteps ==
  /\ StartDaemon \/ Poll =>
       call.pc \in {"start", "poll"} /\ (Goes("poll") \/ Goes("resolve") \/ Fails)
  /\ ResolveWindow =>
       /\ call.pc = "resolve"
       /\ \/ Answers("APP_NOT_FOUND") \/ Fails
          \/ call' = [call EXCEPT !.pc = IF call.stage = "act" THEN "send" ELSE "read",
                        !.window = MainWindow(App), !.pid = Head(AppPids(App)),
                        !.moved = @ /\ call.stage # "gate"]
  /\ ReadWindow =>
       /\ call.pc = "read"
       /\ \/ Fails
          \/ call.stage # "gate" /\ Answers("ok")
          \/ /\ call.stage = "gate"
             /\ \/ call' = [call EXCEPT !.pc = "done", !.code = "ok", !.read = call.window]
                \/ call.tool = "real" /\ call' = [call EXCEPT !.pc = "find", !.read = call.window]
                \/ /\ call.tool # "real"
                   /\ call' = [call EXCEPT !.pc = "probe", !.stage = "act", !.read = call.window]
  /\ SendAction =>
       /\ call.pc = "send"
       /\ \/ Answers("EXCEPTION") \/ Fails
          \/ call' = [call EXCEPT !.pc = "read", !.target = call.window]
  /\ ClickReal =>
       /\ call.pc = "press"
       /\ \/ call' = ClickFails
          \/ /\ InBounds(call.rect, call.offset[1], call.offset[2])
             /\ call' = [call EXCEPT !.pc = "probe", !.stage = "after",
                           !.spot = CursorAt(ScreenPoint(call.rect, call.offset[1], call.offset[2]))]
  /\ ClickFails \in {[call EXCEPT !.pc = "find", !.stage = "fallback"],
                     [call EXCEPT !.pc = "done", !.code = "REAL_INPUT_FAILED"]}
  /\ ClickFails = [call EXCEPT !.pc = "find", !.stage = "fallback"] \/ call.stage # "gate"
BY DEF StartDaemon, Poll, ResolveWindow, ReadWindow, AfterGate, SendAction, ClickReal, ClickFails, Answers, Fails

\* The same of the steps of cu_window.
LEMMA StatusSteps ==
  ASSUME NEW known \in BOOLEAN, Status(known)
  PROVE  LET left == Narrowed(Candidates(App, known), call.title)
         IN  /\ call.pc = "status" /\ UNCHANGED desktop
             /\ \/ Answers("APP_NOT_FOUND") \/ Answers("AMBIGUOUS_TARGET")
                \/ call.tool = "list" /\ Answers("ok")
                \/ /\ call.tool # "list" /\ Cardinality(left) = 1
                   /\ call' = [call EXCEPT !.pc = "choose", !.window = Largest(left), !.moved = FALSE]
<1>1. call.pc = "status" /\ UNCHANGED desktop
  BY DEF Status, Alone, windowVars
<1>2. CASE Candidates(App, known) = {}
  BY <1>1, <1>2 DEF Status
<1>3. CASE Candidates(App, known) # {} /\ call.tool = "list"
  BY <1>1, <1>3 DEF Status
<1>4. CASE Candidates(App, known) # {} /\ call.tool # "list"
  BY <1>1, <1>4 DEF Status
<1>5. QED
  BY <1>2, <1>3, <1>4

LEMMA ChooseSteps ==
  ASSUME NEW known \in BOOLEAN, Choose(known)
  PROVE  LET picked == Picked(Candidates(App, known), TitleOf[call.window])
         IN  /\ call.pc = "choose" /\ UNCHANGED desktop
             /\ \/ Answers("APP_NOT_FOUND") \/ Answers("AMBIGUOUS_TARGET")
                \/ /\ picked # {}
                   /\ call' = [call EXCEPT !.pc = "show", !.target = Largest(picked), !.known = known]
<1>1. call.pc = "choose" /\ UNCHANGED desktop
  BY DEF Choose, Alone, windowVars
<1>2. CASE Candidates(App, known) = {}
  BY <1>1, <1>2 DEF Choose
<1>3. CASE Candidates(App, known) # {} /\ Picked(Candidates(App, known), TitleOf[call.window]) = {}
  BY <1>1, <1>3 DEF Choose
<1>4. CASE Candidates(App, known) # {} /\ Picked(Candidates(App, known), TitleOf[call.window]) # {}
  BY <1>1, <1>4 DEF Choose
<1>5. QED
  BY <1>2, <1>3, <1>4

\* The bookkeeping of the call.
LEMMA CallKept ==
  ASSUME CallInv, [Next]_vars
  PROVE  CallInv'
<1> USE DEF CallInv, CallFields, NoCall, Driven, Showing, WindowTools, Goes, Answers, Fails, Alone
<1>1. ASSUME NEW tool \in Tools, NEW title \in Titles, NEW offset \in Offsets, Begin(tool, title, offset)
      PROVE  CallInv'
  BY <1>1 DEF Begin
<1>2. CASE Probe
  <2>1. \/ call' = [call EXCEPT !.pc = "resolve", !.again = FALSE]
        \/ call' = [call EXCEPT !.again = TRUE]
        \/ call' = [call EXCEPT !.pc = "start", !.again = FALSE]
    BY <1>2 DEF Probe
  <2>2. call.pc = "probe"
    BY <1>2 DEF Probe
  <2>3. CASE call' = [call EXCEPT !.pc = "resolve", !.again = FALSE]
    BY <2>3, <2>2
  <2>4. CASE call' = [call EXCEPT !.again = TRUE]
    BY <2>4, <2>2
  <2>5. CASE call' = [call EXCEPT !.pc = "start", !.again = FALSE]
    BY <2>5, <2>2
  <2>6. QED
    BY <2>1, <2>3, <2>4, <2>5
<1>3. ASSUME NEW code \in {"APP_NOT_FOUND", "UPSTREAM_ERROR", "EXCEPTION", "AMBIGUOUS_TARGET", "ok"},
             Answers(code), call.pc # "idle"
      PROVE  CallInv'
  BY <1>3
<1>4. CASE StartDaemon \/ Poll
  <2>1. ASSUME NEW pc \in {"poll", "resolve"}, Goes(pc), call.pc \in {"start", "poll"}
        PROVE  CallInv'
    BY <2>1
  <2>2. QED
    BY <1>3, <1>4, <2>1, CallSteps
<1>5. CASE ResolveWindow
  <2>1. CASE call' = [call EXCEPT !.pc = IF call.stage = "act" THEN "send" ELSE "read",
                        !.window = MainWindow(App), !.pid = Head(AppPids(App)),
                        !.moved = @ /\ call.stage # "gate"]
    BY <1>5, <2>1, CallSteps
  <2>2. QED
    BY <1>3, <1>5, <2>1, CallSteps
<1>6. CASE ReadWindow
  <2>1. CASE call' = [call EXCEPT !.pc = "done", !.code = "ok", !.read = call.window]
    BY <1>6, <2>1, CallSteps
  <2>2. CASE call' = [call EXCEPT !.pc = "find", !.read = call.window]
    BY <1>6, <2>2, CallSteps
  <2>3. CASE call' = [call EXCEPT !.pc = "probe", !.stage = "act", !.read = call.window]
    BY <1>6, <2>3, CallSteps
  <2>4. QED
    BY <1>3, <1>6, <2>1, <2>2, <2>3, CallSteps
<1>7. CASE SendAction
  <2>1. CASE call' = [call EXCEPT !.pc = "read", !.target = call.window]
    BY <1>7, <2>1, CallSteps
  <2>2. QED
    BY <1>3, <1>7, <2>1, CallSteps
<1>14. CASE ClickReal
  <2>1. CASE call' = [call EXCEPT !.pc = "probe", !.stage = "after",
                        !.spot = CursorAt(ScreenPoint(call.rect, call.offset[1], call.offset[2]))]
    BY <1>14, <2>1, CallSteps
  <2>2. CASE call' = [call EXCEPT !.pc = "find", !.stage = "fallback"]
    BY <1>14, <2>2, CallSteps
  <2>3. CASE call' = [call EXCEPT !.pc = "done", !.code = "REAL_INPUT_FAILED"]
    BY <1>14, <2>3, CallSteps
  <2>4. QED
    BY <1>14, <2>1, <2>2, <2>3, CallSteps
<1>8. ASSUME NEW known \in BOOLEAN, FindWindow(known)
      PROVE  CallInv'
  BY <1>8 DEF FindWindow, ClickFails
<1>9. ASSUME NEW known \in BOOLEAN, Status(known) \/ Choose(known) \/ StatusAgain(known)
      PROVE  CallInv'
  <2>1. CASE Status(known)
    <3>1. ASSUME NEW w, call.tool # "list", call.pc = "status",
                 call' = [call EXCEPT !.pc = "choose", !.window = w, !.moved = FALSE]
          PROVE  CallInv'
      BY <3>1
    <3> HIDE DEF CallInv, Answers
    <3>2. QED
      BY <1>3, <2>1, <3>1, StatusSteps
  <2>2. CASE Choose(known)
    <3>1. ASSUME NEW w, call.pc = "choose",
                 call' = [call EXCEPT !.pc = "show", !.target = w, !.known = known]
          PROVE  CallInv'
      BY <3>1
    <3> HIDE DEF CallInv, Answers
    <3>2. QED
      BY <1>3, <2>2, <3>1, ChooseSteps
  <2>3. CASE StatusAgain(known)
    BY <2>3 DEF StatusAgain
  <2>4. QED
    BY <1>9, <2>1, <2>2, <2>3
<1>10. CASE ShowChosen
  BY <1>10 DEF ShowChosen
<1>11. CASE Return
  BY <1>11 DEF Return
<1>12. CASE Outside
  BY <1>12 DEF Outside
<1>13. CASE DaemonComesUp \/ DaemonDies \/ UNCHANGED vars
  BY <1>13 DEF DaemonComesUp, DaemonDies, vars
<1>15. QED
  BY <1>14, <1>1, <1>2, <1>3, <1>4, <1>5, <1>6, <1>7, <1>8, <1>9, <1>10, <1>11, <1>12, <1>13 DEF Next, ClientStep

\* What an action of the driver's knows of its window.
LEMMA DriverKept ==
  ASSUME CallInv, DriverInv, [Next]_vars
  PROVE  DriverInv'
<1> USE DEF CallInv, CallFields, DriverInv, PastGate, NoCall, Driven, Showing, WindowTools, Goes, Answers, Fails
<1>0. ASSUME UNCHANGED desktop
      PROVE  MainWindow(App)' = MainWindow(App)
  BY <1>0, SameDesktop
<1>1. ASSUME NEW tool \in Tools, NEW title \in Titles, NEW offset \in Offsets, Begin(tool, title, offset)
      PROVE  DriverInv'
  BY <1>1 DEF Begin
<1>2. CASE Probe
  BY <1>2, <1>0 DEF Probe, windowVars
<1>3. CASE StartDaemon \/ Poll
  BY <1>3, <1>0 DEF StartDaemon, Poll, windowVars
<1>4. CASE ResolveWindow
  BY <1>4, <1>0 DEF ResolveWindow, Alone, windowVars
<1>5. CASE ReadWindow
  <2>1. UNCHANGED desktop /\ call.pc = "read"
    BY <1>5 DEF ReadWindow, Alone, windowVars
  <2>2. CASE Fails \/ (call.stage # "gate" /\ Answers("ok"))
    BY <2>1, <2>2, <1>0
  <2>3. CASE call.stage = "gate" /\ call' = [call EXCEPT !.pc = "done", !.code = "ok", !.read = call.window]
    BY <2>1, <2>3, <1>0
  <2>4. CASE call.stage = "gate" /\ call.tool = "real" /\ call' = [call EXCEPT !.pc = "find", !.read = call.window]
    BY <2>1, <2>4, <1>0
  <2>5. CASE /\ call.stage = "gate" /\ call.tool # "real"
             /\ call' = [call EXCEPT !.pc = "probe", !.stage = "act", !.read = call.window]
    BY <2>1, <2>5, <1>0
  <2>6. QED
    BY <1>5, <2>2, <2>3, <2>4, <2>5, CallSteps
<1>6. CASE SendAction
  BY <1>6, <1>0 DEF SendAction, Alone, windowVars
<1>7. CASE ClickReal
  <2>1. UNCHANGED desktop /\ call.pc = "press"
    BY <1>7 DEF ClickReal, Alone, windowVars
  <2>2. CASE call' = [call EXCEPT !.pc = "probe", !.stage = "after",
                        !.spot = CursorAt(ScreenPoint(call.rect, call.offset[1], call.offset[2]))]
    BY <2>1, <2>2, <1>0
  <2>3. CASE call' = [call EXCEPT !.pc = "find", !.stage = "fallback"]
    BY <2>1, <2>3, <1>0
  <2>4. CASE call.stage # "gate" /\ call' = [call EXCEPT !.pc = "done", !.code = "REAL_INPUT_FAILED"]
    BY <2>1, <2>4, <1>0
  <2>5. QED
    BY <1>7, <2>2, <2>3, <2>4, CallSteps
<1>8. ASSUME NEW known \in BOOLEAN, FindWindow(known)
      PROVE  DriverInv'
  <2>1. UNCHANGED desktop /\ call.pc = "find"
    BY <1>8 DEF FindWindow, Alone, windowVars
  <2>2. CASE call' = [call EXCEPT !.pc = "find", !.stage = "fallback"]
    BY <2>1, <2>2, <1>0
  <2>3. CASE call.stage # "gate" /\ call' = [call EXCEPT !.pc = "done", !.code = "REAL_INPUT_FAILED"]
    BY <2>1, <2>3, <1>0
  <2>4. ASSUME NEW w, NEW r, call' = [call EXCEPT !.pc = "press", !.target = w, !.rect = r, !.known = known]
        PROVE  DriverInv'
    BY <2>1, <2>4, <1>0
  <2> HIDE DEF DriverInv
  <2>5. QED
    BY <1>8, <2>2, <2>3, <2>4, CallSteps DEF FindWindow
<1>9. ASSUME NEW known \in BOOLEAN, Status(known) \/ Choose(known) \/ StatusAgain(known)
      PROVE  DriverInv'
  <2>1. call.pc \in {"status", "choose", "again"}
    BY <1>9 DEF Status, Choose, StatusAgain
  <2>2. call.tool \in WindowTools /\ call'.tool = call.tool
    BY <1>9, <2>1 DEF Status, Choose, StatusAgain
  <2>3. QED
    BY <2>2
<1>10. CASE ShowChosen
  BY <1>10 DEF ShowChosen
<1>11. CASE Return
  BY <1>11 DEF Return
<1>12. CASE Outside
  BY <1>12 DEF Outside
<1>13. CASE DaemonComesUp \/ DaemonDies \/ UNCHANGED vars
  BY <1>13, <1>0 DEF DaemonComesUp, DaemonDies, vars, windowVars
<1>14. QED
  BY <1>1, <1>2, <1>3, <1>4, <1>5, <1>6, <1>7, <1>8, <1>9, <1>10, <1>11, <1>12, <1>13 DEF Next, ClientStep

\* What a real click knows of its window.
LEMMA ClickKept ==
  ASSUME CallInv, DriverInv, ClickInv, [Next]_vars
  PROVE  ClickInv'
<1> DEFINE Click == <<call.tool, call.target, call.known, call.rect, call.spot>>
<1> USE DEF CallInv, CallFields, PastGate, Driven, Showing, WindowTools, Goes, Answers, Fails
<1>0. ASSUME UNCHANGED desktop, UNCHANGED Click,
             ~call.moved' => ~call.moved \/ call.target = NoWindow,
             call.tool = "real" =>
               \/ call.stage' = call.stage /\ (call.stage = "after" => call.pc' \notin {"find", "press", "send"})
               \/ call.spot = NoSpot /\ call.stage' # "after"
      PROVE  ClickInv'
  <2>1. call.known \in BOOLEAN
    OBVIOUS
  <2>2. /\ Candidates(App, call.known)' = Candidates(App, call.known)
        /\ Largest(Candidates(App, call.known))' = Largest(Candidates(App, call.known))
        /\ Rect(call.target)' = Rect(call.target)
    BY <1>0, <2>1, SameDesktop
  <2> HIDE DEF CallInv
  <2>3. QED
    BY <1>0, <2>2 DEF ClickInv
<1>1. ASSUME NEW tool \in Tools, NEW title \in Titles, NEW offset \in Offsets, Begin(tool, title, offset)
      PROVE  ClickInv'
  BY <1>1 DEF Begin, NoCall, ClickInv
<1>2. CASE Probe
  <2>1. \/ call' = [call EXCEPT !.pc = "resolve", !.again = FALSE]
        \/ call' = [call EXCEPT !.again = TRUE]
        \/ call' = [call EXCEPT !.pc = "start", !.again = FALSE]
    BY <1>2 DEF Probe
  <2>2. UNCHANGED desktop /\ call.pc = "probe"
    BY <1>2 DEF Probe, windowVars
  <2>3. QED
    BY <2>1, <2>2, <1>0
<1>3. CASE StartDaemon \/ Poll
  <2>1. UNCHANGED desktop
    BY <1>3 DEF StartDaemon, Poll, windowVars
  <2>2. QED
    BY <1>0, <1>3, <2>1, CallSteps
<1>4. CASE ResolveWindow
  <2>1. UNCHANGED desktop /\ call.pc = "resolve"
    BY <1>4 DEF ResolveWindow, Alone, windowVars
  <2>2. CASE Answers("APP_NOT_FOUND") \/ Fails
    BY <1>0, <2>1, <2>2
  <2>3. CASE call' = [call EXCEPT !.pc = IF call.stage = "act" THEN "send" ELSE "read",
                        !.window = MainWindow(App), !.pid = Head(AppPids(App)),
                        !.moved = @ /\ call.stage # "gate"]
    <3>1. call.stage = "gate" => call.target = NoWindow
      BY <2>1 DEF DriverInv
    <3>2. call.tool = "real" => call.stage # "act"
      BY <2>1 DEF DriverInv
    <3>3. QED
      BY <1>0, <2>1, <2>3, <3>1, <3>2
  <2>4. QED
    BY <1>4, <2>2, <2>3, CallSteps
<1>5. CASE ReadWindow
  <2>1. UNCHANGED desktop /\ call.pc = "read"
    BY <1>5 DEF ReadWindow, Alone, windowVars
  <2>2. CASE Fails \/ Answers("ok")
    BY <1>0, <2>1, <2>2
  <2>3. CASE call.stage = "gate" /\ call' = [call EXCEPT !.pc = "done", !.code = "ok", !.read = call.window]
    BY <1>0, <2>1, <2>3
  <2>4. CASE call.stage = "gate" /\ call' = [call EXCEPT !.pc = "find", !.read = call.window]
    BY <1>0, <2>1, <2>4
  <2>5. CASE call.tool # "real" /\ call' = [call EXCEPT !.pc = "probe", !.stage = "act", !.read = call.window]
    BY <2>5 DEF ClickInv
  <2>6. QED
    BY <1>5, <2>2, <2>3, <2>4, <2>5, CallSteps
<1>6. CASE SendAction
  <2>1. call.tool # "real"
    BY <1>6 DEF SendAction, DriverInv
  <2>2. call.tool' = call.tool
    BY <1>6 DEF SendAction
  <2>3. QED
    BY <2>1, <2>2 DEF ClickInv
<1>7. CASE ClickReal
  <2>1. UNCHANGED desktop /\ call.pc = "press"
    BY <1>7 DEF ClickReal, Alone, windowVars
  <2>2. CASE call' \in {[call EXCEPT !.pc = "find", !.stage = "fallback"],
                        [call EXCEPT !.pc = "done", !.code = "REAL_INPUT_FAILED"]}
    <3>1. call.tool = "real" => call.spot = NoSpot /\ call.stage # "after"
      BY <2>1 DEF ClickInv
    <3>2. QED
      BY <1>0, <2>1, <2>2, <3>1
  <2>3. CASE /\ InBounds(call.rect, call.offset[1], call.offset[2])
             /\ call' = [call EXCEPT !.pc = "probe", !.stage = "after",
                           !.spot = CursorAt(ScreenPoint(call.rect, call.offset[1], call.offset[2]))]
    <3>1. call.offset \in Offsets /\ call.known \in BOOLEAN
      BY <2>1
    <3>2. /\ Candidates(App, call.known)' = Candidates(App, call.known)
          /\ Largest(Candidates(App, call.known))' = Largest(Candidates(App, call.known))
          /\ Rect(call.target)' = Rect(call.target)
      BY <2>1, <2>3, <3>1, SameDesktop
    <3>3. QED
      BY <2>1, <2>3, <3>1, <3>2 DEF ClickInv
  <2>4. QED
    BY <1>7, <2>2, <2>3, CallSteps
<1>8. ASSUME NEW known \in BOOLEAN, FindWindow(known)
      PROVE  ClickInv'
  <2>1. UNCHANGED desktop /\ call.pc = "find"
    BY <1>8 DEF FindWindow, Alone, windowVars
  <2>2. CASE call' \in {[call EXCEPT !.pc = "find", !.stage = "fallback"],
                        [call EXCEPT !.pc = "done", !.code = "REAL_INPUT_FAILED"]}
    <3>1. call.tool = "real" => call.spot = NoSpot /\ call.stage # "after"
      BY <2>1 DEF ClickInv
    <3>2. QED
      BY <1>0, <2>1, <2>2, <3>1
  <2>3. ASSUME Candidates(App, known) # {},
               call' = [call EXCEPT !.pc = "press", !.target = Largest(Candidates(App, known)),
                          !.rect = Rect(Largest(Candidates(App, known))), !.known = known]
        PROVE  ClickInv'
    <3>1. call.tool = "real" => call.spot = NoSpot /\ call.stage # "after"
      BY <2>1 DEF ClickInv
    <3>2. /\ Candidates(App, known)' = Candidates(App, known)
          /\ Largest(Candidates(App, known))' = Largest(Candidates(App, known))
          /\ Rect(Largest(Candidates(App, known)))' = Rect(Largest(Candidates(App, known)))
      BY <2>1, SameDesktop
    <3>3. QED
      BY <2>1, <2>3, <3>1, <3>2 DEF ClickInv
  <2>4. QED
    BY <1>8, <2>2, <2>3, CallSteps DEF FindWindow
<1>9. ASSUME NEW known \in BOOLEAN, Status(known) \/ Choose(known) \/ StatusAgain(known)
      PROVE  ClickInv'
  <2>1. call.pc \in {"status", "choose", "again"}
    BY <1>9 DEF Status, Choose, StatusAgain
  <2>2. call.tool \in WindowTools /\ call'.tool = call.tool
    BY <1>9, <2>1 DEF Status, Choose, StatusAgain
  <2>3. QED
    BY <2>2 DEF ClickInv
<1>10. CASE ShowChosen
  BY <1>10 DEF ShowChosen, ClickInv
<1>11. CASE Return
  BY <1>11 DEF Return, NoCall, ClickInv
<1>12. CASE Outside
  BY <1>12 DEF Outside, ClickInv
<1>13. CASE DaemonComesUp \/ DaemonDies \/ UNCHANGED vars
  <2>1. call' = call /\ UNCHANGED desktop
    BY <1>13 DEF DaemonComesUp, DaemonDies, vars, windowVars
  <2>2. call.tool = "real" => (call.stage = "after" => call.pc \notin {"find", "press", "send"})
    BY DEF ClickInv
  <2>3. QED
    BY <1>0, <2>1, <2>2
<1>14. QED
  BY <1>1, <1>2, <1>3, <1>4, <1>5, <1>6, <1>7, <1>8, <1>9, <1>10, <1>11, <1>12, <1>13 DEF Next, ClientStep

\* What cu_window knows of the window it has found.
LEMMA ShowKept ==
  ASSUME WindowsType, CallInv, ShowInv, [Next]_vars
  PROVE  ShowInv'
<1> DEFINE Shows == call.tool \in {"activate", "maximize"}
<1> USE DEF Goes, Answers, Fails
<1>1. DOMAIN call = CallFields /\ (call.pc # "done" => call.code # "ok") /\ (call.pc \in Driven => ~Shows)
  BY DEF CallInv, WindowTools
<1> USE DEF CallFields
<1>2. ASSUME call.tool' = call.tool, ~Shows PROVE ShowInv'
  BY <1>2 DEF ShowInv
<1>3. ASSUME NEW code \in {"APP_NOT_FOUND", "AMBIGUOUS_TARGET", "REAL_INPUT_FAILED"}, Answers(code)
      PROVE  ShowInv'
  BY <1>1, <1>3 DEF ShowInv, Showing, Named, Narrowed
<1>4. ASSUME NEW tool \in Tools, NEW title \in Titles, NEW offset \in Offsets, Begin(tool, title, offset)
      PROVE  ShowInv'
  BY <1>4 DEF Begin, NoCall, ShowInv, WindowTools, Showing
<1>5. CASE Probe \/ StartDaemon \/ Poll \/ ResolveWindow \/ ReadWindow \/ SendAction \/ ClickReal
  <2>1. call.pc \in Driven
    BY <1>5 DEF Probe, StartDaemon, Poll, ResolveWindow, ReadWindow, SendAction, ClickReal, Driven
  <2>2. call.tool' = call.tool
    <3>1. CASE Probe
      BY <3>1, <1>1 DEF Probe
    <3>2. CASE StartDaemon \/ Poll
      BY <3>2, <1>1, CallSteps
    <3>3. CASE ResolveWindow
      BY <3>3, <1>1, CallSteps
    <3>4. CASE ReadWindow
      BY <3>4, <1>1, CallSteps
    <3>5. CASE SendAction
      BY <3>5, <1>1, CallSteps
    <3>6. CASE ClickReal
      BY <3>6, <1>1 DEF ClickReal, ClickFails
    <3>7. QED
      BY <1>5, <3>1, <3>2, <3>3, <3>4, <3>5, <3>6
  <2>3. QED
    BY <1>1, <1>2, <2>1, <2>2
<1>6. ASSUME NEW known \in BOOLEAN, FindWindow(known)
      PROVE  ShowInv'
  <2>1. call.pc = "find" /\ call.tool' = call.tool
    BY <1>1, <1>6, CallSteps DEF FindWindow
  <2>2. QED
    BY <1>1, <1>2, <2>1 DEF Driven
<1>7. ASSUME NEW known \in BOOLEAN, Status(known)
      PROVE  ShowInv'
  <2> DEFINE left == Narrowed(Candidates(App, known), call.title)
  <2>1. call.pc = "status" /\ UNCHANGED desktop
    BY <1>7, StatusSteps
  <2>2. CASE call.tool = "list" /\ Answers("ok")
    BY <1>1, <1>2, <2>2
  <2>3. CASE Cardinality(left) = 1 /\ call' = [call EXCEPT !.pc = "choose", !.window = Largest(left), !.moved = FALSE]
    <3> DEFINE w == Largest(left)
    <3>1. call.title \in Texts \cup {NoText}
      BY UpstreamAssumption DEF CallInv
    <3>2. /\ w \in Named(call.title) /\ w \in Candidates(App, TRUE)
          /\ \A v \in Candidates(App, TRUE) : <<TitleOf[w], TitleOf[v]>> \in Within => v = w
      BY <2>3, <3>1, OneLeft
    <3>3. Candidates(App, TRUE)' = Candidates(App, TRUE)
      BY <2>1, SameDesktop
    <3> HIDE DEF w
    <3>4. /\ call'.pc = "choose" /\ call'.window = w /\ call'.tool = call.tool /\ call'.title = call.title
          /\ call'.target = call.target /\ call'.code = call.code
      BY <1>1, <2>3 DEF w
    <3>5. FoundAlone'
      BY <3>2, <3>3, <3>4 DEF FoundAlone
    <3>6. call.target # NoWindow /\ Shows => call.target \in Narrowed(WindowIds, call.title)
      BY DEF ShowInv
    <3>7. QED
      BY <1>1, <2>1, <3>2, <3>4, <3>5, <3>6 DEF ShowInv, Showing, Named, Narrowed
  <2>4. QED
    BY <1>3, <1>7, <2>2, <2>3, StatusSteps
<1>8. ASSUME NEW known \in BOOLEAN, Choose(known)
      PROVE  ShowInv'
  <2> DEFINE picked == Picked(Candidates(App, known), TitleOf[call.window])
             w == Largest(picked)
  <2>1. call.pc = "choose" /\ UNCHANGED desktop
    BY <1>8, ChooseSteps
  <2>2. CASE picked # {} /\ call' = [call EXCEPT !.pc = "show", !.target = w, !.known = known]
    <3>1. Shows /\ call.title \in Texts \cup {NoText} /\ call.window \in Named(call.title)
      BY <2>1, UpstreamAssumption DEF CallInv, ShowInv, Showing
    <3>2. TitleOf[call.window] \in Texts /\ call.window \in WindowIds
      BY <3>1, WindowsAssumption DEF Named, Narrowed
    <3>3. w \in Candidates(App, known) /\ <<TitleOf[call.window], TitleOf[w]>> \in Within
      BY <2>2, <3>2, PickedIs
    <3> HIDE DEF w
    <3>4. w \in WindowIds /\ TitleOf[w] \in Texts /\ w \in Candidates(App, TRUE)
      BY <3>3, CandidatesAre
    <3>5. w \in Narrowed(WindowIds, call.title)
      BY <3>1, <3>2, <3>3, <3>4, WindowsAssumption DEF Named, Narrowed
    <3>6. ~call.moved => FoundAlone /\ w = call.window
      BY <2>1, <3>1, <3>3, <3>4 DEF ShowInv, Showing, FoundAlone
    <3>7. /\ call'.pc = "show" /\ call'.window = call.window /\ call'.tool = call.tool /\ call'.title = call.title
          /\ call'.target = w /\ call'.code = call.code /\ call'.moved = call.moved
      BY <1>1, <2>2
    <3>8. ~call.moved => FoundAlone'
      <4>1. Candidates(App, TRUE)' = Candidates(App, TRUE)
        BY <2>1, SameDesktop
      <4>2. QED
        BY <3>6, <3>7, <4>1 DEF FoundAlone
    <3>9. QED
      BY <1>1, <2>1, <3>1, <3>5, <3>6, <3>7, <3>8 DEF ShowInv, Showing
  <2>3. QED
    BY <1>3, <1>8, <2>2, ChooseSteps
<1>9. CASE ShowChosen
  <2>1. call.pc = "show" /\ Shows
    BY <1>9 DEF ShowChosen, CallInv, Showing
  <2>2. CASE Answers("REAL_INPUT_FAILED")
    BY <1>3, <2>2
  <2>3. CASE ShowAndForeground(call.target, Wanted) /\ Goes("again")
    <3>1. /\ call'.pc = "again" /\ call'.window = call.window /\ call'.tool = call.tool /\ call'.title = call.title
          /\ call'.target = call.target /\ call'.code = call.code /\ call'.moved = call.moved
          /\ call'.known = call.known
      BY <1>1, <2>3
    <3>2. call.target \in WindowIds
      BY <2>1 DEF ShowInv, Narrowed
    <3>3. Open' = Open
      <4>1. stack' = stack \/ (call.target \in Open /\ stack' = OnTop(call.target))
        BY <2>3 DEF ShowAndForeground
      <4>2. call.target \in Open => ToSet(OnTop(call.target)) = Open
        BY <3>2, WithoutOne DEF WindowsType
      <4>3. Open' = ToSet(stack')
        BY DEF Open
      <4>4. QED
        BY <4>1, <4>2, <4>3 DEF Open
    <3>4. Candidates(App, TRUE)' = Candidates(App, TRUE)
      BY <3>3 DEF Candidates, Titled
    <3>5. ~call.moved => FoundAlone /\ FoundAlone'
      BY <2>1, <3>1, <3>4 DEF ShowInv, Showing, FoundAlone
    <3>6. ~call.moved /\ call.known => call.target = call.window /\ shape'[call.window] = Wanted
      <4>1. ~call.moved /\ call.known => call.target = call.window /\ call.window \in Open
        BY <2>1, <3>5, CandidatesAre DEF ShowInv, FoundAlone, Titled
      <4>2. QED
        BY <2>3, <3>2, <4>1 DEF ShowAndForeground, WindowsType
    <3>7. Wanted' = Wanted
      BY <3>1 DEF Wanted
    <3>8. QED
      BY <1>1, <2>1, <3>1, <3>5, <3>6, <3>7 DEF ShowInv, Showing
  <2>4. QED
    BY <1>9, <2>1, <2>2, <2>3 DEF ShowChosen, Wanted
<1>10. ASSUME NEW known \in BOOLEAN, StatusAgain(known)
       PROVE  ShowInv'
  <2> DEFINE found == Candidates(App, known)
             left == Narrowed(found, TitleOf[call.window])
             w == Largest(IF left # {} THEN left ELSE found)
  <2>1. call.pc = "again" /\ UNCHANGED desktop /\ Shows
    BY <1>10 DEF StatusAgain, Alone, windowVars, CallInv, Showing
  <2>2. CASE found = {}
    BY <1>3, <1>10, <2>2, <1>1 DEF StatusAgain
  <2>3. CASE call' = [call EXCEPT !.pc = "done", !.code = "ok", !.known = @ /\ known, !.read = w]
    <3>1. /\ call'.pc = "done" /\ call'.window = call.window /\ call'.tool = call.tool /\ call'.title = call.title
          /\ call'.target = call.target /\ call'.moved = call.moved
          /\ call'.known = (call.known /\ known) /\ call'.read = w
      BY <1>1, <2>3
    <3>2. ASSUME ~call.moved, call.known, known
          PROVE  w = call.window
      <4>1. FoundAlone
        BY <2>1, <3>2 DEF ShowInv, Showing
      <4>2. known = TRUE
        BY <3>2
      <4>3. call.window \in Titled /\ TitleOf[call.window] \in Texts
        BY <4>1, CandidatesAre DEF FoundAlone
      <4>4. left = {call.window}
        BY <4>1, <4>2, <4>3, WindowsAssumption DEF FoundAlone, Narrowed
      <4>5. w = Largest({call.window})
        BY <4>4
      <4>6. {call.window} \in SUBSET Open
        BY <4>3 DEF Titled
      <4>7. QED
        BY <4>5, <4>6, LargestIs
    <3> HIDE DEF w
    <3>3. Wanted' = Wanted /\ shape' = shape
      BY <2>1, <3>1 DEF Wanted, desktop
    <3>4. QED
      BY <2>1, <3>1, <3>2, <3>3 DEF ShowInv, Showing
  <2>4. QED
    BY <1>10, <2>2, <2>3 DEF StatusAgain
<1>11. CASE Return
  BY <1>11 DEF Return, NoCall, ShowInv, Showing
<1>12. CASE Outside
  <2>1. CASE call.pc = "idle"
    BY <1>1, <1>12, <2>1 DEF Outside, CallInv, ShowInv, Showing
  <2>2. CASE call.pc # "idle"
    BY <1>1, <1>12, <2>2 DEF Outside, ShowInv, Showing, Named, Narrowed
  <2>3. QED
    BY <2>1, <2>2
<1>13. CASE DaemonComesUp \/ DaemonDies \/ UNCHANGED vars
  <2>1. call' = call /\ UNCHANGED desktop
    BY <1>13 DEF DaemonComesUp, DaemonDies, vars, windowVars
  <2>2. Candidates(App, TRUE)' = Candidates(App, TRUE) /\ shape' = shape
    BY <2>1, SameDesktop DEF desktop
  <2>3. QED
    BY <2>1, <2>2 DEF ShowInv, FoundAlone, Wanted, Named, Narrowed
<1>14. QED
  BY <1>4, <1>5, <1>6, <1>7, <1>8, <1>9, <1>10, <1>11, <1>12, <1>13 DEF Next, ClientStep

-----------------------------------------------------------------------------
(* The theorems. *)

LEMMA UpstreamStarts ==
  ASSUME Init
  PROVE  UpstreamInv
<1>1. stack \in Seq(WindowIds)
  <2>1. PICK S \in SUBSET WindowIds : stack \in SetToSeqs(S)
    BY DEF Init, WindowsInit, SetToAllKPermutations
  <2>2. Cardinality(S) \in Nat
    BY <2>1, WindowsAssumption, FS_Subset, FS_CardinalityType
  <2>3. stack \in [1 .. Cardinality(S) -> S]
    BY <2>1 DEF SetToSeqs
  <2>4. QED
    BY <2>1, <2>2, <2>3
<1>2. WindowsType
  BY <1>1, WindowsAssumption DEF Init, WindowsInit, WindowsType
<1>3. CallInv
  BY DEF Init, CallInv, CallFields, NoCall, Driven, Showing
<1>4. DriverInv /\ ClickInv
  BY DEF Init, DriverInv, ClickInv, PastGate, NoCall
<1>5. ShowInv
  BY DEF Init, ShowInv, NoCall, Showing
<1>6. QED
  BY <1>2, <1>3, <1>4, <1>5 DEF UpstreamInv

\* As long as nobody changes the desktop, every field of a call still stands
\* for the window it was read from (cua_client.py, win_input.py, server.py).
THEOREM UpstreamInvHolds == Spec => []UpstreamInv
<1>1. Init => UpstreamInv
  BY UpstreamStarts
<1>2. UpstreamInv /\ [Next]_vars => UpstreamInv'
  BY WindowsKept, CallKept, DriverKept, ClickKept, ShowKept DEF UpstreamInv
<1>3. QED
  BY <1>1, <1>2, PTL DEF Spec

\* A click clamped to the screen stays within a window that shows on it.
LEMMA ClampedWithin ==
  ASSUME NEW r \in [x : Int, y : Int, w : Nat, h : Nat], NEW o \in Nat \X Nat,
         InBounds(r, o[1], o[2]), Pixels(r) \cap Pixels(Screen) # {}
  PROVE  CursorAt(ScreenPoint(r, o[1], o[2])) \in Pixels(r)
<1>1. PICK p \in Pixels(r) : p \in Pixels(Screen)
  OBVIOUS
<1>2. /\ p[1] \in Int /\ p[2] \in Int
      /\ r.x <= p[1] /\ p[1] <= r.x + r.w - 1 /\ r.y <= p[2] /\ p[2] <= r.y + r.h - 1
      /\ 0 <= p[1] /\ p[1] <= 2 /\ 0 <= p[2] /\ p[2] <= 1
  BY <1>1 DEF Pixels, Screen
<1>3. /\ Clamp(r.x + o[1], 3) \in r.x .. r.x + r.w - 1
      /\ Clamp(r.y + o[2], 2) \in r.y .. r.y + r.h - 1
  BY <1>2 DEF Clamp, InBounds
<1>4. QED
  BY <1>3 DEF CursorAt, ScreenPoint, Pixels, Screen

\* The window a click finds is the one the gate read, when the two rules see
\* the same windows.
LEMMA ClickedIsRead ==
  ASSUME WindowsType, RulesAgree
  PROVE  /\ Largest(Candidates(App, call.known)) = MainWindow(App)
         /\ Rect(MainWindow(App)) \in [x : Int, y : Int, w : Nat, h : Nat]
<1> DEFINE all == WindowsOf(App)
           shown == {w \in all : shape[w] # "minimized"}
           first == Largest(all)
<1>1. all = Candidates(App, call.known) /\ all \subseteq Open /\ shown \subseteq all
  BY DEF RulesAgree, WindowsOf
<1>2. PICK big \in shown : Area(big) > Parked.w * Parked.h
  BY DEF RulesAgree
<1>3. first \in all /\ \A v \in all \ {first} : Ahead(first, v)
  <2> HIDE DEF all
  <2>1. QED
    BY <1>1, <1>2, LargestIs
<1>4. first \in shown
  <2>1. CASE first = big
    BY <1>2, <2>1
  <2>2. CASE first # big
    <3>1. Area(first) \in Nat /\ Area(big) \in Nat /\ Parked.w * Parked.h = 1
      BY <1>1, <1>2, <1>3, Sized DEF Parked
    <3>2. Area(first) >= Area(big)
      <4> HIDE DEF first
      <4>1. Ahead(first, big)
        BY <1>1, <1>2, <1>3, <2>2
      <4>2. QED
        BY <3>1, <4>1 DEF Ahead
    <3>3. shape[first] = "minimized" => Area(first) = Parked.w * Parked.h
      BY DEF Area, Rect
    <3>4. shape[first] # "minimized"
      <4> HIDE DEF first
      <4>1. QED
        BY <1>2, <3>1, <3>2, <3>3
    <3>5. QED
      BY <1>3, <3>4
  <2>3. QED
    BY <2>1, <2>2
<1>5. Largest(shown) = first
  <2> HIDE DEF shown, first
  <2>1. QED
    BY <1>1, <1>3, <1>4, LargestIsOnly
<1>6. MainWindow(App) = first
  BY <1>2, <1>5 DEF MainWindow
<1>7. first \in WindowIds
  BY <1>1, <1>3 DEF WindowsType, Open, ToSet
<1>8. QED
  BY <1>1, <1>6, <1>7, WindowsAssumption DEF WindowsType, Rect, Screen, Parked

\* The driver acts on the window the gate has read, and so does a real click
\* that finds windows as the driver does, unless somebody changes the desktop
\* in between (cua_client.py act_with_refresh, real_input_click; server.py act).
THEOREM ActsOnReadWindowHolds == Spec => []ActsOnReadWindow
<1>1. UpstreamInv => ActsOnReadWindow
  <2> SUFFICES ASSUME UpstreamInv, call.target # NoWindow, call.tool \notin WindowTools, ~call.moved
               PROVE  IF call.tool # "real" THEN call.target = call.read
                      ELSE RulesAgree => /\ call.target = call.read
                                         /\ (call.spot # NoSpot /\ Pixels(Rect(call.read)) \cap Pixels(Screen) # {}) =>
                                              call.spot \in Pixels(Rect(call.read))
    BY DEF ActsOnReadWindow
  <2>1. PastGate /\ call.read = MainWindow(App)
    BY DEF UpstreamInv, DriverInv
  <2>2. CASE call.tool # "real"
    BY <2>1, <2>2 DEF UpstreamInv, DriverInv, PastGate
  <2>3. CASE call.tool = "real" /\ RulesAgree
    <3>1. call.target = MainWindow(App) /\ Rect(MainWindow(App)) \in [x : Int, y : Int, w : Nat, h : Nat]
      BY <2>3, ClickedIsRead DEF UpstreamInv, ClickInv
    <3>2. ASSUME call.spot # NoSpot, Pixels(Rect(call.read)) \cap Pixels(Screen) # {}
          PROVE  call.spot \in Pixels(Rect(call.read))
      <4>1. PICK o \in Offsets : /\ InBounds(call.rect, o[1], o[2])
                                 /\ call.spot = CursorAt(ScreenPoint(call.rect, o[1], o[2]))
        BY <2>3, <3>2 DEF UpstreamInv, ClickInv
      <4>2. call.rect = Rect(call.read) /\ o \in Nat \X Nat
        BY <2>1, <2>3, <3>1, UpstreamAssumption DEF UpstreamInv, ClickInv
      <4>3. QED
        BY <2>1, <3>1, <3>2, <4>1, <4>2, ClampedWithin
    <3>3. QED
      BY <2>1, <2>3, <3>1, <3>2
  <2>4. QED
    BY <2>2, <2>3
<1>2. QED
  BY <1>1, UpstreamInvHolds, PTL

\* cu_window shows a window of the title it was given, and the one it found
\* and answers with unless somebody changes the desktop (server.py window).
THEOREM ShowsTheChosenHolds == Spec => []ShowsTheChosen
<1>1. UpstreamInv => ShowsTheChosen
  BY DEF UpstreamInv, ShowInv, ShowsTheChosen, Wanted
<1>2. QED
  BY <1>1, UpstreamInvHolds, PTL

\* Nothing of a window is to be seen that is reported as covered (win_input.py
\* window_status).
THEOREM OccludedIsHiddenHolds == Spec => []OccludedIsHidden
<1>1. ASSUME WindowsType, NEW w \in Titled, Occluded(w), NEW pixel \in Pixels(Rect(w))
      PROVE  \E v \in Open : Index(v) < Index(w) /\ pixel \in Pixels(Rect(v))
  <2>1. PICK v \in Titled : Index(v) < Index(w) /\ CoversAll(Rect(v), Rect(w))
    BY <1>1 DEF Occluded, CoveredBy
  <2>2. \A u \in Titled : u \in Open
    BY DEF Titled
  <2>3. \A u \in Titled : Rect(u) \in [x : Int, y : Int, w : Nat, h : Nat]
    BY <1>1, <2>2, Sized
  <2>4. pixel \in Pixels(Rect(v))
    <3> DEFINE r == Rect(v)
               s == Rect(w)
    <3>1. r \in [x : Int, y : Int, w : Nat, h : Nat] /\ s \in [x : Int, y : Int, w : Nat, h : Nat]
      BY <2>3
    <3>2. CoversAll(r, s) /\ pixel \in Pixels(s)
      BY <1>1, <2>1
    <3> HIDE DEF r, s
    <3>3. pixel \in Pixels(r)
      BY <3>1, <3>2 DEF CoversAll, Pixels
    <3>4. QED
      BY <3>3 DEF r
  <2>5. QED
    BY <2>1, <2>2, <2>4
<1>2. UpstreamInv => OccludedIsHidden
  BY <1>1 DEF UpstreamInv, OccludedIsHidden
<1>3. QED
  BY <1>2, UpstreamInvHolds, PTL
=============================================================================
