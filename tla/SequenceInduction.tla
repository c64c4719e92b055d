--------------------------- MODULE SequenceInduction ------------------------
(***************************************************************************)
(* Induction over the natural numbers stated for sets, which the provers   *)
(* can instantiate (the library's induction theorems take an operator),    *)
(* and what follows from it for the library's folds over sequences.  Used  *)
(* by the proofs about the keyboard's bytes.                               *)
(***************************************************************************)
EXTENDS Integers, Sequences, SequencesExt, SequenceTheorems, WellFoundedInduction,
        TLAPS

(* Every set of natural numbers with a member has a least one.               *)
LEMMA LeastNatural ==
  ASSUME NEW T \in SUBSET Nat, T # {}
  PROVE  \E x \in T : \A y \in T : x <= y
<1> DEFINE R == {ss \in Nat \X Nat : ss[1] < ss[2]}
<1>1. IsWellFoundedOn(R, Nat)
  BY NatLessThanWellFounded DEF OpToRel
<1>2. \A x, y \in Nat : y < x => <<y, x>> \in R
  OBVIOUS
<1> HIDE DEF R
<1>3. PICK x \in T : \A y \in T : <<y, x>> \notin R
  BY <1>1, WFMin
<1>4. ASSUME NEW y \in T PROVE x <= y
  <2>1. x \in Nat /\ y \in Nat
    OBVIOUS
  <2>2. ~(y < x)
    BY <1>2, <1>3, <2>1
  <2> QED BY <2>1, <2>2
<1> QED BY <1>4

(* Induction: a set that holds 0 and with every number the next is Nat.      *)
LEMMA NatSet ==
  ASSUME NEW T \in SUBSET Nat, 0 \in T, \A n \in T : n + 1 \in T
  PROVE  T = Nat
<1>1. SUFFICES ASSUME Nat \ T # {} PROVE FALSE
  OBVIOUS
<1>2. PICK x \in Nat \ T : \A y \in Nat \ T : x <= y
  BY <1>1, LeastNatural
<1>3. x - 1 \in Nat \ T
  BY <1>2
<1> QED BY <1>2, <1>3

(* The same up to a bound, the form in which runs over a sequence use it.    *)
LEMMA UpTo ==
  ASSUME NEW n \in Nat, NEW T, 0 \in T, \A i \in 0 .. n - 1 : i \in T => i + 1 \in T
  PROVE  0 .. n \subseteq T
<1> DEFINE U == {i \in Nat : i <= n => i \in T}
<1>1. ASSUME NEW i \in U PROVE i + 1 \in U
  <2>1. CASE i + 1 <= n
    <3>1. i \in 0 .. n - 1 /\ i \in T
      BY <2>1
    <3> QED BY <3>1
  <2> QED BY <2>1
<1>2. 0 \in U /\ U \in SUBSET Nat
  OBVIOUS
<1> HIDE DEF U
<1>3. U = Nat
  BY <1>1, <1>2, NatSet
<1> QED BY <1>3 DEF U

(* The maximum of a set of positions is one of them, and no less than any.   *)
LEMMA MaxOfPositions ==
  ASSUME NEW m \in Nat, NEW s \in SUBSET (1 .. m), s # {}
  PROVE  Max(s) \in s /\ \A x \in s : x <= Max(s)
<1> DEFINE T == {m - x : x \in s}
<1>0. \A x \in s : x \in Nat /\ 1 <= x /\ x <= m
  OBVIOUS
<1>1. PICK y \in T : \A z \in T : y <= z
  <2>1. \A x \in s : m - x \in Nat
    BY <1>0
  <2>2. T \in SUBSET Nat /\ T # {}
    BY <2>1
  <2> QED BY <2>2, LeastNatural
<1>2. PICK x \in s : y = m - x
  OBVIOUS
<1>3. ASSUME NEW z \in s PROVE x >= z
  <2>1. y <= m - z
    BY <1>1
  <2> QED BY <1>0, <1>2, <2>1
<1>4. Max(s) \in s /\ \A z \in s : Max(s) >= z
  BY <1>3 DEF Max
<1>5. ASSUME NEW z \in s PROVE z <= Max(s)
  <2>1. Max(s) >= z
    BY <1>4
  <2> QED BY <1>0, <1>4, <2>1
<1> QED BY <1>4, <1>5

-----------------------------------------------------------------------------
(* FlattenSeq is what appending the sequences one after another builds.      *)
FlattenRun(f, seqs) ==
  /\ f[0] = <<>>
  /\ \A i \in 1 .. Len(seqs) : f[i] = f[i - 1] \o seqs[i]

LEMMA FlattenRuns ==
  ASSUME NEW S, NEW seqs \in Seq(Seq(S))
  PROVE  \E f : FlattenRun(f, seqs) /\ FlattenSeq(seqs) = f[Len(seqs)]
<1> DEFINE n == Len(seqs)
           Step(f, i) == IF i = 1 THEN seqs[i] ELSE f[i - 1] \o seqs[i]
           Runs(f, m) == \A i \in 1 .. m : f[i] = Step(f, i)
           T == {m \in Nat : \E f : Runs(f, m)}
<1>1. n \in Nat /\ \A i \in 1 .. n : seqs[i] \in Seq(S)
  OBVIOUS
<1>2. 0 \in T
  OBVIOUS
<1>3. ASSUME NEW m \in Nat, m \in T PROVE m + 1 \in T
  <2>1. PICK f : Runs(f, m)
    BY <1>3
  <2> DEFINE g == [i \in 1 .. m + 1 |-> IF i = m + 1 THEN Step(f, i) ELSE f[i]]
  <2>2. ASSUME NEW i \in 1 .. m + 1 PROVE g[i] = Step(g, i)
    <3>1. CASE i = m + 1
      <4>1. i # 1 => i - 1 \in 1 .. m + 1 /\ i - 1 # m + 1
        BY <3>1
      <4>2. i # 1 => g[i - 1] = f[i - 1]
        BY <4>1
      <4> QED BY <3>1, <4>2
    <3>2. CASE i # m + 1
      <4>1. i \in 1 .. m
        BY <3>2
      <4>2. i # 1 => i - 1 \in 1 .. m + 1 /\ i - 1 # m + 1
        BY <3>2
      <4>3. i # 1 => g[i - 1] = f[i - 1]
        BY <4>2
      <4>4. g[i] = f[i]
        BY <3>2
      <4> QED BY <2>1, <4>1, <4>3, <4>4
    <3> QED BY <3>1, <3>2
  <2> HIDE DEF g
  <2> QED BY <2>2
<1> HIDE DEF T
<1>4. T = Nat
  <2>1. T \in SUBSET Nat
    BY DEF T
  <2> QED BY <1>2, <1>3, <2>1, NatSet
<1>5. PICK f : Runs(f, n)
  BY <1>1, <1>4 DEF T
<1>6. CASE n = 0
  <2>1. seqs = <<>>
    BY <1>6
  <2>2. FlattenSeq(seqs) = <<>>
    BY <1>6, <2>1 DEF FlattenSeq
  <2>3. FlattenRun([i \in {0} |-> <<>>], seqs)
    BY <1>6 DEF FlattenRun
  <2> QED BY <1>6, <2>2, <2>3
<1>7. CASE n # 0
  <2> DEFINE Is(h) == h = [i \in 1 .. n |-> Step(h, i)]
             flatten == CHOOSE h : Is(h)
             k == [i \in 1 .. n |-> f[i]]
  <2>1. FlattenSeq(seqs) = flatten[n]
    BY <1>7 DEF FlattenSeq
  <2>2. ASSUME NEW i \in 1 .. n PROVE k[i] = Step(k, i)
    <3>1. i # 1 => i - 1 \in 1 .. n
      BY <1>1
    <3> QED BY <1>5, <3>1
  <2>3. Is(k)
    BY <2>2
  <2>4. Is(flatten)
    BY <2>3
  <2> HIDE DEF flatten
  <2> DEFINE g == [i \in 0 .. n |-> IF i = 0 THEN <<>> ELSE flatten[i]]
  <2>5. ASSUME NEW i \in 1 .. n PROVE g[i] = g[i - 1] \o seqs[i]
    <3>1. g[i] = Step(flatten, i)
      <4>1. flatten[i] = Step(flatten, i)
        BY <2>4
      <4>2. i \in 0 .. n /\ i # 0
        BY <1>1
      <4>3. g[i] = flatten[i]
        BY <4>2
      <4> QED BY <4>1, <4>3
    <3>2. CASE i = 1
      <4>1. <<>> \o seqs[1] = seqs[1]
        BY <1>1, <3>2, ConcatEmptySeq
      <4>2. g[i - 1] = <<>>
        BY <1>1, <3>2
      <4> HIDE DEF g
      <4> QED BY <3>1, <3>2, <4>1, <4>2
    <3>3. CASE i # 1
      <4>1. g[i - 1] = flatten[i - 1]
        BY <1>1, <3>3
      <4> QED BY <3>1, <3>3, <4>1
    <3> QED BY <3>2, <3>3
  <2>6. g[0] = <<>> /\ g[n] = flatten[n]
    BY <1>1, <1>7
  <2> HIDE DEF g
  <2>7. FlattenRun(g, seqs)
    BY <2>5, <2>6 DEF FlattenRun
  <2> QED BY <2>1, <2>6, <2>7
<1> QED BY <1>6, <1>7

(* Its elements are elements of the sequences.                               *)
LEMMA FlattenTyped ==
  ASSUME NEW S, NEW seqs \in Seq(Seq(S)), NEW f, FlattenRun(f, seqs)
  PROVE  \A i \in 0 .. Len(seqs) : f[i] \in Seq(S)
<1> DEFINE n == Len(seqs)
           T == {i \in 0 .. n : f[i] \in Seq(S)}
<1>1. n \in Nat
  OBVIOUS
<1>2. 0 \in T
  <2>1. f[0] = <<>> /\ <<>> \in Seq(S)
    BY EmptySeq DEF FlattenRun
  <2>2. 0 \in 0 .. n /\ f[0] \in Seq(S)
    BY <1>1, <2>1
  <2> QED BY <2>2
<1>3. ASSUME NEW i \in 0 .. n - 1, i \in T PROVE i + 1 \in T
  <2>1. i + 1 \in 1 .. n /\ i + 1 \in 0 .. n /\ (i + 1) - 1 = i
    BY <1>1
  <2>2. seqs[i + 1] \in Seq(S) /\ f[i] \in Seq(S)
    BY <1>3, <2>1
  <2>3. f[i + 1] = f[i] \o seqs[i + 1]
    BY <2>1 DEF FlattenRun
  <2>4. f[i + 1] \in Seq(S)
    BY <2>2, <2>3, ConcatProperties
  <2> QED BY <2>1, <2>4
<1>4. 0 .. n \subseteq T
  BY <1>1, <1>2, <1>3, UpTo
<1> QED BY <1>4
=============================================================================
