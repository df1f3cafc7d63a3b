------------------------------ MODULE FoldLemmas ------------------------------
(***************************************************************************)
(* What the proofs of several modules rest on: induction over numbers, as  *)
(* a statement about sets, and with it what FoldLeft and MapThenSumSet of  *)
(* the community modules compute.                                          *)
(*                                                                         *)
(* An operator handed to FoldLeft cannot be a parameter of a lemma.  So    *)
(* IsFold says what the fold of a step that is a function computes on each *)
(* part of its sequence, and FoldExists that there is one; a user unfolds  *)
(* FoldLeft for the operator at hand, finds this function in it, and       *)
(* concludes with FoldWithin.                                              *)
(***************************************************************************)
EXTENDS Integers, Sequences, SequencesExt, FiniteSetsExt, FiniteSetTheorems,
        WellFoundedInduction, TLAPS

-----------------------------------------------------------------------------
(* Induction. *)

\* A set that holds 0 and the successor of each of its members holds every
\* number.
LEMMA SetInduction ==
  ASSUME NEW S \in SUBSET Nat, 0 \in S, \A n \in S : n + 1 \in S
  PROVE  S = Nat
<1> DEFINE Missed == Nat \ S
           Less == {p \in Nat \X Nat : p[1] < p[2]}
<1> SUFFICES ASSUME Missed # {} PROVE FALSE
  OBVIOUS
<1>1. IsWellFoundedOn(Less, Nat)
  BY NatLessThanWellFounded DEF OpToRel
<1>2. PICK n \in Missed : \A m \in Missed : <<m, n>> \notin Less
  <2>1. Missed \subseteq Nat
    OBVIOUS
  <2> HIDE DEF Less, Missed
  <2>2. QED
    BY <1>1, <2>1, WFMin
<1>3. n # 0 /\ n - 1 \in Nat /\ <<n - 1, n>> \in Less
  OBVIOUS
<1>4. n - 1 \in S
  BY <1>2, <1>3
<1>5. QED
  BY <1>2, <1>3, <1>4

\* Of some positions one is the last.
LEMMA LastOf ==
  ASSUME NEW n \in Nat, NEW S \in SUBSET (1 .. n), S # {}
  PROVE  Max(S) \in S /\ \A i \in S : i <= Max(S)
<1> DEFINE HasLast(T) == \E x \in T : \A y \in T : x >= y
           N == {m \in Nat : \A T \in SUBSET (1 .. m) : T # {} => HasLast(T)}
<1>1. 0 \in N
  <2>1. 1 .. 0 = {}
    OBVIOUS
  <2>2. QED
    BY <2>1
<1>2. ASSUME NEW m \in N PROVE m + 1 \in N
  <2> SUFFICES ASSUME NEW T \in SUBSET (1 .. m + 1), T # {} PROVE HasLast(T)
    OBVIOUS
  <2>1. CASE m + 1 \in T
    BY <2>1
  <2>2. CASE m + 1 \notin T
    <3>1. T \in SUBSET (1 .. m)
      BY <2>2
    <3>2. QED
      BY <3>1
  <2>3. QED
    BY <2>1, <2>2
<1>3. n \in N
  <2> HIDE DEF N
  <2>1. N \in SUBSET Nat
    BY DEF N
  <2>2. QED
    BY <1>1, <1>2, <2>1, SetInduction
<1>4. HasLast(S)
  BY <1>3
<1>5. QED
  BY <1>4 DEF Max

\* Of any numbers one is the least.
LEMMA LeastOf ==
  ASSUME NEW S \in SUBSET Nat, S # {}
  PROVE  Min(S) \in S /\ \A n \in S : Min(S) <= n
<1> DEFINE Less == {p \in Nat \X Nat : p[1] < p[2]}
<1>1. IsWellFoundedOn(Less, Nat)
  BY NatLessThanWellFounded DEF OpToRel
<1>2. PICK least \in S : \A n \in S : <<n, least>> \notin Less
  <2> HIDE DEF Less
  <2>1. QED
    BY <1>1, WFMin
<1>3. ASSUME NEW n \in S PROVE least <= n
  <2>1. n \in Nat /\ least \in Nat /\ (n < least => <<n, least>> \in Less)
    OBVIOUS
  <2> HIDE DEF Less
  <2>2. QED
    BY <1>2, <2>1
<1>4. QED
  BY <1>3 DEF Min

LEMMA LastOfSeq ==
  ASSUME NEW Y, NEW seq \in Seq(Y)
  PROVE  \A s \in SUBSET DOMAIN seq : s # {} => Max(s) \in s /\ seq[Max(s)] \in Y
<1>1. Len(seq) \in Nat /\ DOMAIN seq = 1 .. Len(seq)
  OBVIOUS
<1>2. \A s \in SUBSET DOMAIN seq : s # {} => Max(s) \in s
  BY <1>1, LastOf
<1>3. QED
  BY <1>2

-----------------------------------------------------------------------------
(* Folds. *)

\* What a fold computes on each part of its sequence, for a step that is a
\* function.
IsFold(iter, base, seq, step, D) ==
  \A s \in SUBSET D :
    iter[s] = IF s = {} THEN base ELSE step[<<iter[s \ {Max(s)}], seq[Max(s)]>>]

\* There is such a fold.
LEMMA FoldExists ==
  ASSUME NEW X, NEW Y, NEW base \in X, NEW seq \in Seq(Y), NEW step \in [X \X Y -> X]
  PROVE  \E iter \in [SUBSET DOMAIN seq -> X] : IsFold(iter, base, seq, step, DOMAIN seq)
<1> DEFINE Folds(n) == \E iter \in [SUBSET (1 .. n) -> X] : IsFold(iter, base, seq, step, 1 .. n)
           N == {n \in Nat : n <= Len(seq) => Folds(n)}
<1>1. 0 \in N
  <2>1. SUBSET (1 .. 0) = {{}}
    OBVIOUS
  <2>2. [s \in {{}} |-> base] \in [SUBSET (1 .. 0) -> X]
    BY <2>1
  <2>3. IsFold([s \in {{}} |-> base], base, seq, step, 1 .. 0)
    BY <2>1 DEF IsFold
  <2>4. QED
    BY <2>2, <2>3
<1>2. ASSUME NEW n \in N PROVE n + 1 \in N
  <2>0. n + 1 \in Nat
    OBVIOUS
  <2> SUFFICES ASSUME n + 1 <= Len(seq) PROVE Folds(n + 1)
    <3> HIDE DEF Folds
    <3>1. QED
      BY <2>0
  <2>1. PICK iter \in [SUBSET (1 .. n) -> X] : IsFold(iter, base, seq, step, 1 .. n)
    <3>1. Folds(n)
      <4>1. n \in Nat
        OBVIOUS
      <4>2. n <= Len(seq) => Folds(n)
        OBVIOUS
      <4>3. n <= Len(seq)
        <5> HIDE DEF N, Folds
        <5>1. QED
          BY <4>1
      <4> HIDE DEF N, Folds
      <4>4. QED
        BY <4>2, <4>3
    <3>2. QED
      BY <3>1
  <2> DEFINE longer == [s \in SUBSET (1 .. n + 1) |->
                          IF n + 1 \in s THEN step[<<iter[s \ {n + 1}], seq[n + 1]>>]
                                         ELSE iter[s]]
  <2>2. seq[n + 1] \in Y /\ n \in Nat
    OBVIOUS
  <2>3. ASSUME NEW s \in SUBSET (1 .. n + 1)
        PROVE  /\ n + 1 \in s => s \ {n + 1} \in SUBSET (1 .. n) /\ Max(s) = n + 1
               /\ n + 1 \notin s => s \in SUBSET (1 .. n)
    <3> HIDE DEF N
    <3>0. \A i \in 1 .. n + 1 : i # n + 1 => i \in 1 .. n
      BY <2>2
    <3>1. CASE n + 1 \in s
      <4>1. s \ {n + 1} \in SUBSET (1 .. n)
        BY <3>0
      <4>2. Max(s) \in s /\ \A i \in s : i <= Max(s)
        <5>1. n + 1 \in Nat /\ s # {}
          BY <2>2, <3>1
        <5>2. QED
          BY <5>1, LastOf
      <4>3. Max(s) \in 1 .. n + 1 /\ n + 1 <= Max(s)
        BY <3>1, <4>2
      <4>4. QED
        BY <2>2, <3>1, <4>1, <4>3
    <3>2. CASE n + 1 \notin s
      BY <3>0, <3>2
    <3>3. QED
      BY <3>1, <3>2
  <2>4. longer \in [SUBSET (1 .. n + 1) -> X]
    <3>1. ASSUME NEW s \in SUBSET (1 .. n + 1)
          PROVE  (IF n + 1 \in s THEN step[<<iter[s \ {n + 1}], seq[n + 1]>>] ELSE iter[s]) \in X
      BY <2>2, <2>3
    <3>2. QED
      BY <3>1
  <2>5. IsFold(longer, base, seq, step, 1 .. n + 1)
    <3> SUFFICES ASSUME NEW s \in SUBSET (1 .. n + 1)
                 PROVE  longer[s] = IF s = {} THEN base
                                    ELSE step[<<longer[s \ {Max(s)}], seq[Max(s)]>>]
      BY DEF IsFold
    <3>1. CASE n + 1 \in s
      <4>1. longer[s] = step[<<iter[s \ {n + 1}], seq[n + 1]>>]
        BY <3>1
      <4>2. longer[s \ {n + 1}] = iter[s \ {n + 1}]
        OBVIOUS
      <4> HIDE DEF longer
      <4>3. QED
        BY <2>3, <3>1, <4>1, <4>2
    <3>2. CASE n + 1 \notin s
      <4>1. s \in SUBSET (1 .. n) /\ s \ {Max(s)} \in SUBSET (1 .. n) /\ n + 1 \notin s \ {Max(s)}
        BY <2>3, <3>2
      <4>2. longer[s] = iter[s] /\ longer[s \ {Max(s)}] = iter[s \ {Max(s)}]
        BY <3>2, <4>1
      <4> HIDE DEF longer
      <4>3. QED
        BY <2>1, <4>1, <4>2 DEF IsFold
    <3>3. QED
      BY <3>1, <3>2
  <2> HIDE DEF longer
  <2>6. QED
    BY <2>4, <2>5
<1>3. Len(seq) \in N
  <2> HIDE DEF N
  <2>1. N \in SUBSET Nat /\ Len(seq) \in Nat
    BY DEF N
  <2>2. QED
    BY <1>1, <1>2, <2>1, SetInduction
<1>4. Folds(Len(seq))
  <2> HIDE DEF Folds
  <2>1. Len(seq) \in Nat /\ (Len(seq) <= Len(seq) => Folds(Len(seq)))
    BY <1>3
  <2>2. QED
    BY <2>1
<1>5. DOMAIN seq = 1 .. Len(seq)
  OBVIOUS
<1>6. QED
  BY <1>4, <1>5

\* What holds of the base and is kept by each step holds of the fold.
LEMMA FoldWithin ==
  ASSUME NEW X, NEW Y, NEW seq \in Seq(Y), NEW iter, iter[{}] \in X,
         \A s \in SUBSET DOMAIN seq :
           s # {} /\ iter[s \ {Max(s)}] \in X => iter[s] \in X
  PROVE  iter[DOMAIN seq] \in X
<1> DEFINE N == {n \in Nat : n <= Len(seq) => iter[1 .. n] \in X}
<1>1. 0 \in N
  <2>1. 1 .. 0 = {}
    OBVIOUS
  <2>2. QED
    BY <2>1
<1>2. ASSUME NEW n \in N PROVE n + 1 \in N
  <2> SUFFICES ASSUME n + 1 <= Len(seq) PROVE iter[1 .. n + 1] \in X
    OBVIOUS
  <2>0. n \in Nat /\ n + 1 \in Nat /\ Len(seq) \in Nat /\ DOMAIN seq = 1 .. Len(seq)
    OBVIOUS
  <2>1. 1 .. n + 1 \in SUBSET DOMAIN seq /\ 1 .. n + 1 # {} /\ n + 1 \in 1 .. n + 1
    <3> HIDE DEF N
    <3>1. \A i \in 1 .. n + 1 : i \in 1 .. Len(seq)
      BY <2>0
    <3>2. n + 1 \in 1 .. n + 1
      BY <2>0
    <3>3. 1 .. n + 1 \in SUBSET (1 .. Len(seq))
      BY <3>1, Zenon
    <3>4. QED
      BY <2>0, <3>2, <3>3
  <2>2. Max(1 .. n + 1) \in 1 .. n + 1 /\ \A i \in 1 .. n + 1 : i <= Max(1 .. n + 1)
    BY <2>0, <2>1, LastOf
  <2>3. Max(1 .. n + 1) = n + 1
    BY <2>0, <2>1, <2>2
  <2>4. (1 .. n + 1) \ {n + 1} = 1 .. n
    BY <2>0
  <2>5. iter[1 .. n] \in X
    <3>1. n <= Len(seq)
      BY <2>0
    <3>2. QED
      BY <3>1
  <2>6. QED
    BY <2>1, <2>3, <2>4, <2>5
<1>3. Len(seq) \in N
  <2> HIDE DEF N
  <2>1. N \in SUBSET Nat /\ Len(seq) \in Nat
    BY DEF N
  <2>2. QED
    BY <1>1, <1>2, <2>1, SetInduction
<1>4. QED
  BY <1>3

\* What a fold has done with the first elements of its sequence: it is done
\* with the last of them after all the others.
LEMMA FoldAlong ==
  ASSUME NEW Y, NEW seq \in Seq(Y), NEW iter, NEW X, iter[{}] \in X[0],
         \A n \in 1 .. Len(seq) :
           Max(1 .. n) = n /\ (1 .. n) \ {n} = 1 .. n - 1 /\ iter[1 .. n - 1] \in X[n - 1] =>
             iter[1 .. n] \in X[n]
  PROVE  iter[DOMAIN seq] \in X[Len(seq)]
<1> DEFINE N == {n \in Nat : n <= Len(seq) => iter[1 .. n] \in X[n]}
<1>1. Len(seq) \in Nat /\ DOMAIN seq = 1 .. Len(seq)
  OBVIOUS
<1>2. 0 \in N
  <2>1. 1 .. 0 = {}
    OBVIOUS
  <2>2. QED
    BY <2>1
<1>3. ASSUME NEW n \in N PROVE n + 1 \in N
  <2>1. n \in Nat /\ (n <= Len(seq) => iter[1 .. n] \in X[n])
    OBVIOUS
  <2> HIDE DEF N
  <2>2. ASSUME n + 1 <= Len(seq) PROVE iter[1 .. n + 1] \in X[n + 1]
    <3>1. Max(1 .. n + 1) \in 1 .. n + 1 /\ \A i \in 1 .. n + 1 : i <= Max(1 .. n + 1)
      <4>1. n + 1 \in Nat /\ n + 1 \in 1 .. n + 1
        BY <2>1
      <4>2. QED
        BY <4>1, LastOf
    <3>2. Max(1 .. n + 1) = n + 1 /\ (1 .. n + 1) \ {n + 1} = 1 .. (n + 1) - 1
      BY <2>1, <3>1
    <3>3. n + 1 \in 1 .. Len(seq) /\ (n + 1) - 1 = n /\ n <= Len(seq)
      BY <1>1, <2>1, <2>2
    <3>4. iter[1 .. (n + 1) - 1] \in X[(n + 1) - 1]
      BY <2>1, <3>3
    <3>5. QED
      BY <3>2, <3>3, <3>4
  <2>3. QED
    BY <2>1, <2>2 DEF N
<1>4. Len(seq) \in N
  <2>1. N \in SUBSET Nat
    OBVIOUS
  <2> HIDE DEF N
  <2>2. QED
    BY <1>1, <1>2, <1>3, <2>1, SetInduction
<1>5. QED
  BY <1>1, <1>4

-----------------------------------------------------------------------------
(* Sums. *)

Pick(s) == CHOOSE x \in s : TRUE

\* The sums of what f has for each part of S.
Sums(iter, f, S) ==
  \A s \in SUBSET S :
    iter[s] = IF s = {} THEN 0 ELSE f[Pick(s)] + iter[s \ {Pick(s)}]

LEMMA PickIn == ASSUME NEW s, s # {} PROVE Pick(s) \in s
BY DEF Pick

\* Any finite set of numbers has its sums.
LEMMA SumsExist ==
  ASSUME NEW S, IsFiniteSet(S), NEW f, \A x \in S : f[x] \in Nat
  PROVE  \E iter \in [SUBSET S -> Nat] : Sums(iter, f, S)
<1> DEFINE Small(n) == {s \in SUBSET S : Cardinality(s) <= n}
           Summed(iter, s) == iter[s] = IF s = {} THEN 0 ELSE f[Pick(s)] + iter[s \ {Pick(s)}]
           HasSums(n) == \E iter \in [SUBSET S -> Nat] : \A s \in Small(n) : Summed(iter, s)
           N == {n \in Nat : HasSums(n)}
<1>1. \A s \in SUBSET S : IsFiniteSet(s) /\ Cardinality(s) \in Nat
  BY FS_Subset, FS_CardinalityType
<1>2. 0 \in N
  <2>1. \A s \in Small(0) : s = {}
    BY <1>1, FS_EmptySet
  <2>2. [s \in SUBSET S |-> 0] \in [SUBSET S -> Nat]
    OBVIOUS
  <2>3. \A s \in Small(0) : Summed([t \in SUBSET S |-> 0], s)
    BY <2>1
  <2>4. QED
    BY <2>2, <2>3
<1>3. ASSUME NEW n \in N PROVE n + 1 \in N
  <2>1. PICK iter \in [SUBSET S -> Nat] : \A s \in Small(n) : Summed(iter, s)
    OBVIOUS
  <2>2. n \in Nat /\ n + 1 \in Nat
    OBVIOUS
  <2> DEFINE more == [s \in SUBSET S |-> IF s = {} THEN 0 ELSE f[Pick(s)] + iter[s \ {Pick(s)}]]
  <2>3. more \in [SUBSET S -> Nat]
    <3>1. ASSUME NEW s \in SUBSET S, s # {} PROVE f[Pick(s)] + iter[s \ {Pick(s)}] \in Nat
      <4>1. Pick(s) \in S /\ s \ {Pick(s)} \in SUBSET S
        BY <3>1, PickIn
      <4>2. f[Pick(s)] \in Nat /\ iter[s \ {Pick(s)}] \in Nat
        BY <4>1
      <4>3. QED
        BY <4>2
    <3>2. QED
      BY <3>1
  <2>4. ASSUME NEW s \in Small(n + 1), s # {} PROVE more[s \ {Pick(s)}] = iter[s \ {Pick(s)}]
    <3> DEFINE rest == s \ {Pick(s)}
    <3>1. Pick(s) \in s /\ rest \in SUBSET S /\ s \in SUBSET S
      BY <2>4, PickIn
    <3>2. Cardinality(rest) = Cardinality(s) - 1
      BY <1>1, <3>1, FS_RemoveElement
    <3>3. Cardinality(s) <= n + 1 /\ Cardinality(rest) \in Nat /\ Cardinality(s) \in Nat
      BY <1>1, <3>1
    <3>4. rest \in Small(n)
      BY <2>2, <3>1, <3>2, <3>3
    <3> HIDE DEF rest
    <3>5. Summed(iter, rest)
      BY <2>1, <3>4
    <3>6. QED
      BY <3>1, <3>5 DEF rest
  <2>5. \A s \in Small(n + 1) : Summed(more, s)
    <3> SUFFICES ASSUME NEW s \in Small(n + 1) PROVE Summed(more, s)
      OBVIOUS
    <3>1. more[s] = IF s = {} THEN 0 ELSE f[Pick(s)] + iter[s \ {Pick(s)}]
      OBVIOUS
    <3> HIDE DEF more
    <3>2. QED
      BY <2>4, <3>1
  <2> HIDE DEF more, Summed, Small
  <2>6. QED
    BY <2>2, <2>3, <2>5
<1>4. Cardinality(S) \in N
  <2> HIDE DEF N
  <2>1. N \in SUBSET Nat /\ Cardinality(S) \in Nat
    BY FS_CardinalityType DEF N
  <2>2. QED
    BY <1>2, <1>3, <2>1, SetInduction
<1>5. PICK iter \in [SUBSET S -> Nat] : \A s \in Small(Cardinality(S)) : Summed(iter, s)
  BY <1>4
<1>6. \A s \in SUBSET S : s \in Small(Cardinality(S))
  BY FS_Subset
<1>7. QED
  BY <1>5, <1>6 DEF Sums

\* They are the only ones, and depend on what is summed alone.
LEMMA SumsAgree ==
  ASSUME NEW S, NEW T, NEW f, NEW g, NEW iter, NEW jter, Sums(iter, f, S), Sums(jter, g, T),
         NEW U \in SUBSET (S \cap T), IsFiniteSet(U), \A x \in U : f[x] = g[x]
  PROVE  iter[U] = jter[U]
<1> DEFINE Same(n) == \A s \in SUBSET U : Cardinality(s) <= n => iter[s] = jter[s]
           N == {n \in Nat : Same(n)}
<1>1. \A s \in SUBSET U : IsFiniteSet(s) /\ Cardinality(s) \in Nat
  BY FS_Subset, FS_CardinalityType
<1>2. 0 \in N
  <2>1. \A s \in SUBSET U : Cardinality(s) <= 0 => s = {}
    BY <1>1, FS_EmptySet
  <2>2. iter[{}] = 0 /\ jter[{}] = 0
    BY DEF Sums
  <2>3. QED
    BY <2>1, <2>2
<1>3. ASSUME NEW n \in N PROVE n + 1 \in N
  <2> SUFFICES ASSUME NEW s \in SUBSET U, Cardinality(s) <= n + 1 PROVE iter[s] = jter[s]
    OBVIOUS
  <2>1. CASE s = {}
    BY <2>1 DEF Sums
  <2>2. CASE s # {}
    <3> DEFINE rest == s \ {Pick(s)}
    <3>1. Pick(s) \in s /\ rest \in SUBSET U /\ s \in SUBSET S /\ s \in SUBSET T
      BY <2>2, PickIn
    <3>2. Cardinality(rest) = Cardinality(s) - 1
      BY <1>1, <3>1, FS_RemoveElement
    <3>3. Cardinality(rest) <= n
      BY <1>1, <3>1, <3>2
    <3>4. iter[rest] = jter[rest]
      BY <3>1, <3>3
    <3>5. iter[s] = f[Pick(s)] + iter[rest] /\ jter[s] = g[Pick(s)] + jter[rest]
      BY <2>2, <3>1 DEF Sums
    <3>6. f[Pick(s)] = g[Pick(s)]
      BY <3>1
    <3>7. QED
      BY <3>4, <3>5, <3>6
  <2>3. QED
    BY <2>1, <2>2
<1>4. Cardinality(U) \in N
  <2> HIDE DEF N
  <2>1. N \in SUBSET Nat /\ Cardinality(U) \in Nat
    BY FS_CardinalityType DEF N
  <2>2. QED
    BY <1>2, <1>3, <2>1, SetInduction
<1>5. QED
  BY <1>1, <1>4

Sum(f, S) == MapThenSumSet(LAMBDA x : f[x], S)

\* The library's sum is one of these.
LEMMA SumIs ==
  ASSUME NEW S, IsFiniteSet(S), NEW f, \A x \in S : f[x] \in Nat
  PROVE  \E iter \in [SUBSET S -> Nat] : Sums(iter, f, S) /\ Sum(f, S) = iter[S]
<1> DEFINE Iterates(iter) == iter = [s \in SUBSET S |->
                                IF s = {} THEN 0 ELSE f[Pick(s)] + iter[s \ {Pick(s)}]]
           sum == CHOOSE iter : Iterates(iter)
<1>1. PICK iter \in [SUBSET S -> Nat] : Sums(iter, f, S)
  BY SumsExist
<1>2. Iterates(iter)
  BY <1>1 DEF Sums
<1>3. Iterates(sum)
  BY <1>2
<1>4. Sum(f, S) = sum[S]
  BY DEF Sum, MapThenSumSet, MapThenFoldSet, Pick
<1> HIDE DEF sum
<1>5. Sums(sum, f, S)
  BY <1>3 DEF Sums
<1>6. \A s \in SUBSET S : sum[s] = iter[s]
  <2>1. \A s \in SUBSET S : IsFiniteSet(s) /\ s \in SUBSET (S \cap S)
    BY FS_Subset
  <2>2. QED
    BY <1>1, <1>5, <2>1, SumsAgree
<1>7. QED
  BY <1>1, <1>4, <1>6

\* A family of parts of a finite set that grows by single elements has it.
LEMMA FiniteInduction ==
  ASSUME NEW S, IsFiniteSet(S), NEW G, {} \in G,
         \A T \in SUBSET S : T \in G => \A x \in S \ T : T \cup {x} \in G
  PROVE  S \in G
<1> DEFINE N == {n \in Nat : \A T \in SUBSET S : Cardinality(T) = n => T \in G}
<1>1. \A T \in SUBSET S : IsFiniteSet(T) /\ Cardinality(T) \in Nat
  BY FS_Subset, FS_CardinalityType
<1>2. 0 \in N
  <2>1. \A T \in SUBSET S : Cardinality(T) = 0 => T = {}
    BY <1>1, FS_EmptySet
  <2>2. QED
    BY <2>1
<1>3. ASSUME NEW n \in N PROVE n + 1 \in N
  <2> SUFFICES ASSUME NEW T \in SUBSET S, Cardinality(T) = n + 1 PROVE T \in G
    OBVIOUS
  <2>1. PICK x \in T : TRUE
    BY FS_EmptySet
  <2>2. Cardinality(T \ {x}) = n
    BY <1>1, <2>1, FS_RemoveElement
  <2>3. T \ {x} \in G
    BY <2>2
  <2>4. T = (T \ {x}) \cup {x} /\ x \in S \ (T \ {x}) /\ T \ {x} \in SUBSET S
    BY <2>1
  <2>5. (T \ {x}) \cup {x} \in G
    BY <2>3, <2>4
  <2>6. QED
    BY <2>4, <2>5
<1>4. Cardinality(S) \in N
  <2> HIDE DEF N
  <2>1. N \in SUBSET Nat /\ Cardinality(S) \in Nat
    BY FS_CardinalityType DEF N
  <2>2. QED
    BY <1>2, <1>3, <2>1, SetInduction
<1>5. QED
  BY <1>4

\* The order does not matter.
LEMMA AnyFirst ==
  ASSUME NEW S, IsFiniteSet(S), NEW f, \A x \in S : f[x] \in Nat,
         NEW iter \in [SUBSET S -> Nat], Sums(iter, f, S)
  PROVE  \A x \in S : iter[S] = iter[S \ {x}] + f[x]
<1> DEFINE Free(s) == \A x \in s : iter[s] = iter[s \ {x}] + f[x]
           N == {n \in Nat : \A s \in SUBSET S : Cardinality(s) = n => Free(s)}
<1>1. \A s \in SUBSET S : IsFiniteSet(s) /\ Cardinality(s) \in Nat
  BY FS_Subset, FS_CardinalityType
<1>2. 0 \in N
  <2>1. \A s \in SUBSET S : Cardinality(s) = 0 => s = {}
    BY <1>1, FS_EmptySet
  <2>2. QED
    BY <2>1
<1>3. ASSUME NEW n \in N PROVE n + 1 \in N
  <2> SUFFICES ASSUME NEW s \in SUBSET S, Cardinality(s) = n + 1, NEW x \in s
               PROVE  iter[s] = iter[s \ {x}] + f[x]
    OBVIOUS
  <2> DEFINE first == Pick(s)
  <2>1. first \in s
    BY PickIn
  <2>2. iter[s] = iter[s \ {first}] + f[first]
    <3>1. iter[s] = f[first] + iter[s \ {first}]
      BY DEF Sums
    <3>2. f[first] \in Nat /\ iter[s \ {first}] \in Nat
      BY <2>1
    <3> HIDE DEF first
    <3>3. QED
      BY <3>1, <3>2
  <2> HIDE DEF first
  <2>3. CASE x = first
    BY <2>2, <2>3
  <2>4. CASE x # first
    <3> DEFINE both == s \ {x, first}
    <3>1. /\ s \ {first} \in SUBSET S /\ s \ {x} \in SUBSET S
          /\ (s \ {first}) \ {x} = both /\ (s \ {x}) \ {first} = both
          /\ x \in s \ {first} /\ first \in s \ {x} /\ both \in SUBSET S
      BY <2>1, <2>4
    <3>2. Cardinality(s \ {first}) = n /\ Cardinality(s \ {x}) = n
      BY <1>1, <2>1, FS_RemoveElement
    <3>3. Free(s \ {first}) /\ Free(s \ {x})
      <4> HIDE DEF Free
      <4>1. QED
        BY <3>1, <3>2
    <3>4. iter[s \ {first}] = iter[both] + f[x] /\ iter[s \ {x}] = iter[both] + f[first]
      BY <3>1, <3>3
    <3>5. f[x] \in Nat /\ f[first] \in Nat /\ iter[both] \in Nat
      BY <2>1, <3>1
    <3> HIDE DEF both
    <3>6. QED
      BY <2>2, <3>4, <3>5
  <2>5. QED
    BY <2>3, <2>4
<1>4. Cardinality(S) \in N
  <2> HIDE DEF N
  <2>1. N \in SUBSET Nat /\ Cardinality(S) \in Nat
    BY FS_CardinalityType DEF N
  <2>2. QED
    BY <1>2, <1>3, <2>1, SetInduction
<1>5. Free(S)
  <2> HIDE DEF Free
  <2>1. QED
    BY <1>4
<1>6. QED
  BY <1>5

LEMMA SumEmpty == ASSUME NEW f PROVE Sum(f, {}) = 0
<1>1. PICK iter \in [SUBSET {} -> Nat] : Sums(iter, f, {}) /\ Sum(f, {}) = iter[{}]
  BY SumIs, FS_EmptySet
<1>2. QED
  BY <1>1 DEF Sums

LEMMA SumRemove ==
  ASSUME NEW S, IsFiniteSet(S), NEW f, \A x \in S : f[x] \in Nat
  PROVE  /\ Sum(f, S) \in Nat
         /\ \A x \in S : Sum(f, S) = Sum(f, S \ {x}) + f[x]
<1>1. PICK iter \in [SUBSET S -> Nat] : Sums(iter, f, S) /\ Sum(f, S) = iter[S]
  BY SumIs
<1>2. ASSUME NEW x \in S PROVE Sum(f, S \ {x}) = iter[S \ {x}]
  <2> DEFINE rest == S \ {x}
  <2>1. IsFiniteSet(rest) /\ rest \in SUBSET S /\ \A y \in rest : f[y] \in Nat
    BY FS_Subset
  <2> HIDE DEF rest
  <2>2. PICK jter \in [SUBSET rest -> Nat] : Sums(jter, f, rest) /\ Sum(f, rest) = jter[rest]
    BY <2>1, SumIs
  <2>3. rest \in SUBSET (S \cap rest)
    BY <2>1
  <2>4. iter[rest] = jter[rest]
    BY <1>1, <2>1, <2>2, <2>3, SumsAgree
  <2>5. QED
    BY <2>2, <2>4 DEF rest
<1>3. iter[S] \in Nat
  OBVIOUS
<1>4. \A x \in S : iter[S] = iter[S \ {x}] + f[x]
  BY <1>1, AnyFirst
<1>5. QED
  BY <1>1, <1>2, <1>3, <1>4

LEMMA SumAgree ==
  ASSUME NEW S, IsFiniteSet(S), NEW f, NEW g, \A x \in S : f[x] \in Nat /\ f[x] = g[x]
  PROVE  Sum(f, S) = Sum(g, S)
<1>1. PICK iter \in [SUBSET S -> Nat] : Sums(iter, f, S) /\ Sum(f, S) = iter[S]
  BY SumIs
<1>2. PICK jter \in [SUBSET S -> Nat] : Sums(jter, g, S) /\ Sum(g, S) = jter[S]
  <2>1. \A x \in S : g[x] \in Nat
    OBVIOUS
  <2>2. QED
    BY <2>1, SumIs
<1>3. S \in SUBSET (S \cap S)
  OBVIOUS
<1>4. iter[S] = jter[S]
  BY <1>1, <1>2, <1>3, SumsAgree
<1>5. QED
  BY <1>1, <1>2, <1>4

\* What comes together is counted together.
LEMMA SumSplit ==
  ASSUME NEW A, NEW B, IsFiniteSet(A), IsFiniteSet(B), A \cap B = {},
         NEW f, \A x \in A \cup B : f[x] \in Nat
  PROVE  Sum(f, A \cup B) = Sum(f, A) + Sum(f, B)
<1> DEFINE G == {T \in SUBSET B : Sum(f, A \cup T) = Sum(f, A) + Sum(f, T)}
<1>1. Sum(f, A) \in Nat
  BY SumRemove
<1>2. {} \in G
  <2>1. A \cup {} = A
    OBVIOUS
  <2>2. QED
    BY <1>1, <2>1, SumEmpty
<1>3. ASSUME NEW T \in SUBSET B, T \in G, NEW x \in B \ T PROVE T \cup {x} \in G
  <2> DEFINE more == T \cup {x}
  <2>1. IsFiniteSet(T) /\ IsFiniteSet(more) /\ IsFiniteSet(A \cup more) /\ IsFiniteSet(A \cup T)
    BY FS_Subset, FS_Union
  <2>2. x \in more /\ more \ {x} = T /\ x \in A \cup more /\ (A \cup more) \ {x} = A \cup T
        /\ more \in SUBSET B
    OBVIOUS
  <2> HIDE DEF more
  <2>3. /\ \A y \in more : f[y] \in Nat
        /\ \A y \in A \cup more : f[y] \in Nat
        /\ \A y \in T : f[y] \in Nat
    BY <2>2
  <2>4. Sum(f, more) = Sum(f, T) + f[x] /\ Sum(f, T) \in Nat
    BY <2>1, <2>2, <2>3, SumRemove
  <2>5. Sum(f, A \cup more) = Sum(f, A \cup T) + f[x]
    BY <2>1, <2>2, <2>3, SumRemove
  <2>6. Sum(f, A \cup T) = Sum(f, A) + Sum(f, T) /\ f[x] \in Nat
    BY <1>3
  <2>7. Sum(f, A \cup more) = Sum(f, A) + Sum(f, more)
    BY <1>1, <2>4, <2>5, <2>6
  <2>8. QED
    BY <2>2, <2>7 DEF more
<1>4. B \in G
  <2> HIDE DEF G
  <2>1. QED
    BY <1>2, <1>3, FiniteInduction
<1>5. QED
  BY <1>4

LEMMA SumMonotone ==
  ASSUME NEW S, IsFiniteSet(S), NEW f, NEW g,
         \A x \in S : f[x] \in Nat /\ g[x] \in Nat /\ f[x] <= g[x]
  PROVE  Sum(f, S) <= Sum(g, S)
<1> DEFINE G == {T \in SUBSET S : Sum(f, T) <= Sum(g, T)}
<1>1. {} \in G
  BY SumEmpty
<1>2. ASSUME NEW T \in SUBSET S, T \in G, NEW x \in S \ T PROVE T \cup {x} \in G
  <2> DEFINE more == T \cup {x}
  <2>1. IsFiniteSet(T) /\ IsFiniteSet(more)
    BY FS_Subset
  <2>2. x \in more /\ more \ {x} = T /\ more \in SUBSET S
    OBVIOUS
  <2> HIDE DEF more
  <2>3. \A y \in more : f[y] \in Nat /\ g[y] \in Nat
    BY <2>2
  <2>4. /\ Sum(f, more) = Sum(f, T) + f[x] /\ Sum(f, T) \in Nat
        /\ Sum(g, more) = Sum(g, T) + g[x] /\ Sum(g, T) \in Nat
    BY <2>1, <2>2, <2>3, SumRemove
  <2>5. Sum(f, T) <= Sum(g, T) /\ f[x] <= g[x] /\ f[x] \in Nat /\ g[x] \in Nat
    BY <1>2
  <2>6. QED
    BY <2>2, <2>4, <2>5 DEF more
<1>3. S \in G
  <2> HIDE DEF G
  <2>1. QED
    BY <1>1, <1>2, FiniteInduction
<1>4. QED
  BY <1>3

LEMMA SumWider ==
  ASSUME NEW S, NEW T, IsFiniteSet(T), S \subseteq T, NEW f, NEW g,
         \A x \in S : f[x] \in Nat /\ f[x] <= g[x], \A x \in T : g[x] \in Nat
  PROVE  Sum(f, S) <= Sum(g, T)
<1> DEFINE R == T \ S
<1>1. IsFiniteSet(S) /\ IsFiniteSet(R) /\ S \cap R = {} /\ T = S \cup R
  BY FS_Subset
<1> HIDE DEF R
<1>2. Sum(g, T) = Sum(g, S) + Sum(g, R)
  BY <1>1, SumSplit
<1>3. Sum(f, S) <= Sum(g, S)
  BY <1>1, SumMonotone
<1>4. (\A x \in R : g[x] \in Nat) /\ (\A x \in S : g[x] \in Nat)
  BY <1>1
<1>5. Sum(f, S) \in Nat /\ Sum(g, S) \in Nat /\ Sum(g, R) \in Nat
  BY <1>1, <1>4, SumRemove
<1>6. QED
  BY <1>2, <1>3, <1>5
=============================================================================
