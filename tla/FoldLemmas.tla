------------------------------- MODULE FoldLemmas -------------------------------
(***************************************************************************)
(* Facts about data that the proofs of several components need: induction  *)
(* over the natural numbers and over finite sets, stated with a set in the *)
(* place of a predicate, and what the folds of the community modules and   *)
(* FlattenSeq compute.  A recursive function is a CHOOSE; it satisfies its *)
(* equation when some function does, and which one is shown by induction.  *)
(***************************************************************************)
EXTENDS Integers, SequencesExt, FiniteSetTheorems, SequenceTheorems,
        WellFoundedInduction, TLAPS

-----------------------------------------------------------------------------
(* Every non-empty set of natural numbers has a least element.             *)
LEMMA LeastNumber ==
  ASSUME NEW T, T \subseteq Nat, T # {}
  PROVE  \E x \in T : \A y \in T : x <= y
<1> DEFINE R == OpToRel(<, Nat)
<1>1. IsWellFoundedOn(R, Nat)
  BY NatLessThanWellFounded
<1>2. \A x, y \in Nat : x < y => <<x, y>> \in R
  BY DEF OpToRel
<1> HIDE DEF R
<1>3. PICK x \in T : \A y \in T : ~ (<<y, x>> \in R)
  BY <1>1, WFMin
<1>4. \A y \in T : ~ (y < x)
  BY <1>2, <1>3, Zenon
<1>5. \A y \in T : x <= y
  BY <1>4
<1> QED
  BY <1>5

(* Induction: a set with 0 and the successor of each of its numbers up to  *)
(* n has every number up to n.                                             *)
LEMMA UpTo ==
  ASSUME NEW n \in Nat, NEW T, 0 \in T, \A k \in 0 .. n - 1 : k \in T => k + 1 \in T
  PROVE  \A k \in 0 .. n : k \in T
<1> SUFFICES ASSUME (0 .. n) \ T # {} PROVE FALSE
  OBVIOUS
<1>1. PICK x \in (0 .. n) \ T : \A y \in (0 .. n) \ T : x <= y
  <2> DEFINE rest == (0 .. n) \ T
  <2>1. rest \subseteq Nat /\ rest # {}
    OBVIOUS
  <2> HIDE DEF rest
  <2>2. \E x \in rest : \A y \in rest : x <= y
    BY <2>1, LeastNumber
  <2> QED
    BY <2>2 DEF rest
<1>2. x # 0 /\ x - 1 \in 0 .. n - 1
  BY <1>1
<1>3. x - 1 \in T
  BY <1>1, <1>2
<1>4. (x - 1) + 1 = x
  BY <1>1
<1> QED
  BY <1>1, <1>2, <1>3, <1>4

(* Induction over the subsets of a finite set: a subset is good when all   *)
(* that lack one of its elements are.                                      *)
LEMMA EverySubset ==
  ASSUME NEW S, IsFiniteSet(S), NEW Good,
         \A s \in SUBSET S : (\A x \in s : s \ {x} \in Good) => s \in Good
  PROVE  \A s \in SUBSET S : s \in Good
<1> DEFINE bad == {s \in SUBSET S : s \notin Good}
           sizes == {Cardinality(s) : s \in bad}
<1> SUFFICES ASSUME bad # {} PROVE FALSE
  OBVIOUS
<1>1. \A s \in SUBSET S : IsFiniteSet(s) /\ Cardinality(s) \in Nat
  BY FS_Subset, FS_CardinalityType
<1>2. PICK m \in sizes : \A k \in sizes : m <= k
  <2>1. sizes \subseteq Nat /\ sizes # {}
    BY <1>1
  <2> HIDE DEF sizes
  <2> QED
    BY <2>1, LeastNumber
<1>3. PICK s \in bad : Cardinality(s) = m
  BY <1>2
<1>4. ASSUME NEW x \in s PROVE s \ {x} \in Good
  <2>1. Cardinality(s \ {x}) = Cardinality(s) - 1
    BY <1>1, <1>3, FS_RemoveElement
  <2>2. s \ {x} \in SUBSET S
    BY <1>3
  <2>3. s \ {x} \in bad => m <= Cardinality(s \ {x})
    BY <1>2
  <2> QED
    BY <1>1, <1>3, <2>1, <2>2, <2>3
<1> QED
  BY <1>3, <1>4

-----------------------------------------------------------------------------
(* A fold over the elements of a finite set S takes them in the order of a *)
(* choice c; H is what it does with an element and the value so far.       *)

Chooses(c, S) == \A s \in SUBSET S : s # {} => c[s] \in s
IsFold(g, S, base, H, c) ==
  \A s \in SUBSET S : g[s] = IF s = {} THEN base ELSE H[<<c[s], g[s \ {c[s]}]>>]

(* iter takes one step of the fold wherever the value before it is in V.   *)
FoldsIn(iter, S, V, base, H, c) ==
  /\ iter[{}] = base
  /\ \A s \in SUBSET S : s # {} /\ iter[s \ {c[s]}] \in V =>
       iter[s] = H[<<c[s], iter[s \ {c[s]}]>>]

(* The subsets of at most n elements.                                      *)
UpToSize(S, n) == {s \in SUBSET S : Cardinality(s) <= n}

(* Some function satisfies the equation of the fold.                       *)
LEMMA FoldExists ==
  ASSUME NEW S, IsFiniteSet(S), NEW V, NEW base \in V, NEW H \in [S \X V -> V],
         NEW c, Chooses(c, S)
  PROVE  \E g \in [SUBSET S -> V] : IsFold(g, S, base, H, c)
<1> USE DEF Chooses, IsFold
<1> DEFINE N == Cardinality(S)
           Solves(g, n) == \A s \in UpToSize(S, n) :
             g[s] = IF s = {} THEN base ELSE H[<<c[s], g[s \ {c[s]}]>>]
           T == {n \in 0 .. N : \E g \in [UpToSize(S, n) -> V] : Solves(g, n)}
<1>1. \A s \in SUBSET S : Cardinality(s) \in Nat /\ Cardinality(s) <= N
  BY FS_Subset, FS_CardinalityType
<1>2. N \in Nat
  BY FS_CardinalityType
<1>3. \A s \in SUBSET S : s # {} => Cardinality(s \ {c[s]}) = Cardinality(s) - 1
  BY FS_Subset, FS_RemoveElement
<1>4. \A s \in SUBSET S : s = {} <=> Cardinality(s) = 0
  BY FS_Subset, FS_EmptySet
<1>5. 0 \in T
  <2> DEFINE g == [s \in UpToSize(S, 0) |-> base]
  <2>1. \A s \in UpToSize(S, 0) : s = {}
    BY <1>1, <1>4 DEF UpToSize
  <2>2. Solves(g, 0)
    BY <2>1
  <2>3. g \in [UpToSize(S, 0) -> V]
    OBVIOUS
  <2> HIDE DEF g, Solves
  <2> QED
    BY <1>2, <2>2, <2>3
<1>6. ASSUME NEW n \in 0 .. N - 1, n \in T PROVE n + 1 \in T
  <2>1. PICK g \in [UpToSize(S, n) -> V] : Solves(g, n)
    BY <1>6
  <2> DEFINE h == [s \in UpToSize(S, n + 1) |->
                     IF Cardinality(s) <= n THEN g[s]
                     ELSE H[<<c[s], g[s \ {c[s]}]>>]]
  <2>2. ASSUME NEW s \in UpToSize(S, n + 1), s # {}
        PROVE  s \ {c[s]} \in UpToSize(S, n) /\ c[s] \in S
    BY <1>1, <1>2, <1>3, <2>2 DEF UpToSize
  <2>3. UpToSize(S, n) \subseteq UpToSize(S, n + 1)
    BY <1>1, <1>2 DEF UpToSize
  <2>4. \A s \in UpToSize(S, n + 1) : Cardinality(s) <= n <=> s \in UpToSize(S, n)
    BY DEF UpToSize
  <2>5. ASSUME NEW s \in UpToSize(S, n + 1) PROVE h[s] \in V
    <3>1. CASE Cardinality(s) <= n
      BY <2>4, <3>1
    <3>2. CASE ~(Cardinality(s) <= n)
      <4>1. s # {}
        BY <1>2, <1>4, <3>2 DEF UpToSize
      <4>2. <<c[s], g[s \ {c[s]}]>> \in S \X V
        BY <2>2, <4>1
      <4> QED
        BY <3>2, <4>2
    <3> QED
      BY <3>1, <3>2
  <2>6. h \in [UpToSize(S, n + 1) -> V]
    BY <2>5
  <2>7. ASSUME NEW s \in UpToSize(S, n) PROVE h[s] = g[s]
    BY <2>3, <2>4
  <2>8. ASSUME NEW s \in UpToSize(S, n + 1)
        PROVE  h[s] = IF s = {} THEN base ELSE H[<<c[s], h[s \ {c[s]}]>>]
    <3>1. CASE Cardinality(s) <= n
      <4>1. s \in UpToSize(S, n)
        BY <2>4, <3>1
      <4>2. g[s] = IF s = {} THEN base ELSE H[<<c[s], g[s \ {c[s]}]>>]
        BY <2>1, <4>1
      <4> HIDE DEF h
      <4> QED
        BY <2>2, <2>7, <4>1, <4>2
    <3>2. CASE ~(Cardinality(s) <= n)
      <4>1. s # {}
        BY <1>2, <1>4, <3>2 DEF UpToSize
      <4>2. h[s] = H[<<c[s], g[s \ {c[s]}]>>]
        BY <3>2
      <4> HIDE DEF h
      <4> QED
        BY <2>2, <2>7, <4>1, <4>2
    <3> QED
      BY <3>1, <3>2
  <2>9. Solves(h, n + 1)
    BY <2>8
  <2> HIDE DEF h, Solves
  <2> QED
    BY <1>2, <2>6, <2>9
<1>7. N \in T
  <2> HIDE DEF T
  <2> QED
    BY <1>2, <1>5, <1>6, UpTo
<1>8. UpToSize(S, N) = SUBSET S
  BY <1>1 DEF UpToSize
<1> QED
  BY <1>7, <1>8

(* What satisfies the equation has its values in V.                        *)
LEMMA FoldType ==
  ASSUME NEW S, IsFiniteSet(S), NEW V, NEW base \in V, NEW H \in [S \X V -> V],
         NEW c, Chooses(c, S), NEW iter, FoldsIn(iter, S, V, base, H, c)
  PROVE  \A s \in SUBSET S : iter[s] \in V
<1> USE DEF Chooses, FoldsIn
<1> DEFINE Good == {s \in SUBSET S : iter[s] \in V}
<1>1. ASSUME NEW s \in SUBSET S, \A x \in s : s \ {x} \in Good PROVE s \in Good
  <2>1. CASE s = {}
    BY <2>1
  <2>2. CASE s # {}
    <3>1. c[s] \in s /\ iter[s \ {c[s]}] \in V
      BY <1>1, <2>2
    <3>2. <<c[s], iter[s \ {c[s]}]>> \in S \X V
      BY <3>1
    <3>3. H[<<c[s], iter[s \ {c[s]}]>>] \in V
      BY <3>2
    <3> QED
      BY <2>2, <3>1, <3>3
  <2> QED
    BY <2>1, <2>2
<1>2. \A s \in SUBSET S : s \in Good
  <2> HIDE DEF Good
  <2> QED
    BY <1>1, EverySubset
<1> QED
  BY <1>2

-----------------------------------------------------------------------------
(* FoldLeft takes the positions of a sequence from the last one down, that *)
(* is, it applies the operator from the first one up.                      *)

(* The greatest of the first k numbers, and of any finite set of them.     *)
LEMMA MaxOfPrefix ==
  /\ \A k \in Nat \ {0} : Max(1 .. k) = k /\ (1 .. k) \ {k} = 1 .. k - 1
  /\ \A n \in Nat : \A s \in SUBSET (1 .. n) : s # {} => Max(s) \in s
<1>1. ASSUME NEW k \in Nat \ {0} PROVE Max(1 .. k) = k /\ (1 .. k) \ {k} = 1 .. k - 1
  BY DEF Max
<1>2. ASSUME NEW n \in Nat, NEW s \in SUBSET (1 .. n), s # {} PROVE Max(s) \in s
  <2> DEFINE gaps == {n - x : x \in s}
  <2>1. gaps \subseteq Nat /\ gaps # {}
    <3>1. PICK x \in s : x \in 1 .. n
      BY <1>2
    <3>2. n - x \in gaps
      BY <3>1
    <3>3. \A y \in s : n - y \in Nat
      OBVIOUS
    <3> QED
      BY <3>2, <3>3
  <2>2. PICK d \in gaps : \A e \in gaps : d <= e
    <3> HIDE DEF gaps
    <3> QED
      BY <2>1, LeastNumber
  <2>3. PICK x \in s : d = n - x
    BY <2>2
  <2>4. \A y \in s : x >= y
    BY <2>2, <2>3
  <2> QED
    BY <2>3, <2>4 DEF Max
<1> QED
  BY <1>1, <1>2

(* What a left fold over n positions is, for an operator H on V.           *)
IsLeftFold(g, n, base, H) ==
  \A s \in SUBSET (1 .. n) :
    g[s] = IF s = {} THEN base ELSE H[<<Max(s), g[s \ {Max(s)}]>>]

(* It exists.                                                              *)
LEMMA FoldLeftExists ==
  ASSUME NEW n \in Nat, NEW V, NEW base \in V, NEW H \in [(1 .. n) \X V -> V]
  PROVE  \E g \in [SUBSET (1 .. n) -> V] : IsLeftFold(g, n, base, H)
<1> DEFINE S == 1 .. n
           c == [s \in SUBSET S |-> Max(s)]
<1>1. IsFiniteSet(S)
  BY FS_Interval
<1>2. Chooses(c, S)
  BY MaxOfPrefix DEF Chooses
<1>3. \A s \in SUBSET S : c[s] = Max(s)
  OBVIOUS
<1> HIDE DEF c
<1>4. PICK g \in [SUBSET S -> V] : IsFold(g, S, base, H, c)
  BY <1>1, <1>2, FoldExists
<1>5. IsLeftFold(g, n, base, H)
  BY <1>3, <1>4 DEF IsFold, IsLeftFold
<1> QED
  BY <1>5

(* The successive values of a computation in n steps.                      *)
Steps(h, n, base, H) ==
  h[0] = base /\ \A k \in 1 .. n : h[k] = H[<<k, h[k - 1]>>]
StepsTo(v, n, V, base, H) ==
  \E h \in [0 .. n -> V] : Steps(h, n, base, H) /\ v = h[n]

(* iter takes one step of a left fold wherever the value before is in V.   *)
LeftFoldsIn(iter, n, V, base, H) ==
  /\ iter[{}] = base
  /\ \A s \in SUBSET (1 .. n) : s # {} /\ iter[s \ {Max(s)}] \in V =>
       iter[s] = H[<<Max(s), iter[s \ {Max(s)}]>>]

(* Its values on the prefixes are those of a computation in steps.         *)
LEMMA FoldLeftValues ==
  ASSUME NEW n \in Nat, NEW V, NEW base \in V, NEW H \in [(1 .. n) \X V -> V],
         NEW iter, LeftFoldsIn(iter, n, V, base, H)
  PROVE  StepsTo(iter[1 .. n], n, V, base, H)
<1> USE DEF LeftFoldsIn, StepsTo
<1> DEFINE S == 1 .. n
           c == [s \in SUBSET S |-> Max(s)]
           h == [k \in 0 .. n |-> iter[1 .. k]]
<1>1. IsFiniteSet(S)
  BY FS_Interval
<1>2. Chooses(c, S)
  BY MaxOfPrefix DEF Chooses
<1>3. \A s \in SUBSET S : c[s] = Max(s)
  OBVIOUS
<1> HIDE DEF c
<1>4. \A s \in SUBSET S : iter[s] \in V
  <2>1. FoldsIn(iter, S, V, base, H, c)
    BY <1>3 DEF FoldsIn
  <2> QED
    BY <1>1, <1>2, <2>1, FoldType
<1>5. \A k \in 0 .. n : 1 .. k \in SUBSET S
  OBVIOUS
<1>6. h \in [0 .. n -> V]
  BY <1>4, <1>5
<1>7. h[0] = base /\ h[n] = iter[1 .. n]
  <2>1. 1 .. 0 = {}
    OBVIOUS
  <2> QED
    BY <2>1
<1>8. ASSUME NEW k \in 1 .. n PROVE h[k] = H[<<k, h[k - 1]>>]
  <2>1. /\ Max(1 .. k) = k /\ (1 .. k) \ {k} = 1 .. k - 1
        /\ 1 .. k # {} /\ k - 1 \in 0 .. n
    BY MaxOfPrefix
  <2>2. iter[1 .. k] = H[<<k, iter[1 .. k - 1]>>]
    <3>1. 1 .. k \in SUBSET (1 .. n)
      OBVIOUS
    <3>2. iter[(1 .. k) \ {Max(1 .. k)}] \in V
      BY <1>4, <1>5, <2>1
    <3>3. iter[1 .. k] = H[<<Max(1 .. k), iter[(1 .. k) \ {Max(1 .. k)}]>>]
      BY <2>1, <3>1, <3>2
    <3> QED
      BY <2>1, <3>3
  <2>3. h[k] = iter[1 .. k] /\ h[k - 1] = iter[1 .. k - 1]
    BY <2>1
  <2> QED
    BY <2>2, <2>3
<1> HIDE DEF h
<1> QED
  BY <1>6, <1>7, <1>8 DEF Steps

-----------------------------------------------------------------------------
(* Every such computation has its values.                                  *)
LEMMA StepsExist ==
  ASSUME NEW n \in Nat, NEW V, NEW base \in V, NEW H \in [(1 .. n) \X V -> V]
  PROVE  \E h \in [0 .. n -> V] : Steps(h, n, base, H)
<1>1. PICK g \in [SUBSET (1 .. n) -> V] : IsLeftFold(g, n, base, H)
  BY FoldLeftExists
<1>2. LeftFoldsIn(g, n, V, base, H)
  BY <1>1 DEF IsLeftFold, LeftFoldsIn
<1>3. StepsTo(g[1 .. n], n, V, base, H)
  BY <1>2, FoldLeftValues
<1> QED
  BY <1>3 DEF StepsTo

(* Whatever begins with the first value and goes on step by step has them. *)
GoesOn(f, n, V, H) ==
  \A k \in 2 .. n : f[k - 1] \in V => f[k] = H[<<k, f[k - 1]>>]
Agree(f, h, n) == \A k \in 1 .. n : f[k] = h[k]

(* So a fold whose first value and whose steps are given is determined.    *)
LEMMA StepsAgree ==
  ASSUME NEW n \in Nat, NEW V, NEW base, NEW H, NEW h \in [0 .. n -> V],
         Steps(h, n, base, H), NEW f, n # 0 => f[1] = h[1],
         GoesOn(f, n, V, H)
  PROVE  Agree(f, h, n)
<1> USE DEF GoesOn, Agree
<1> DEFINE T == {k \in 0 .. n : k # 0 => f[k] = h[k]}
<1>1. ASSUME NEW k \in 0 .. n - 1, k \in T PROVE k + 1 \in T
  <2>1. CASE k = 0
    BY <2>1
  <2>2. CASE k # 0
    <3>1. f[k] = h[k] /\ h[k] \in V /\ k + 1 \in 2 .. n /\ (k + 1) - 1 = k
      BY <1>1, <2>2
    <3>2. f[k + 1] = H[<<k + 1, f[k]>>]
      BY <3>1
    <3>3. h[k + 1] = H[<<k + 1, h[k]>>]
      BY <3>1 DEF Steps
    <3> QED
      BY <3>1, <3>2, <3>3
  <2> QED
    BY <2>1, <2>2
<1>2. \A k \in 0 .. n : k \in T
  <2>1. 0 \in T
    OBVIOUS
  <2> HIDE DEF T
  <2> QED
    BY <1>1, <2>1, UpTo
<1> QED
  BY <1>2

-----------------------------------------------------------------------------
(* FlattenSeq is the last of the successive concatenations.                *)
LEMMA FlattenValues ==
  ASSUME NEW S, NEW seqs \in Seq(Seq(S))
  PROVE  \E h \in [0 .. Len(seqs) -> Seq(S)] :
           /\ h[0] = << >>
           /\ \A k \in 1 .. Len(seqs) : h[k] = h[k - 1] \o seqs[k]
           /\ FlattenSeq(seqs) = h[Len(seqs)]
<1> DEFINE n == Len(seqs)
           H == [x \in (1 .. n) \X Seq(S) |-> x[2] \o seqs[x[1]]]
<1>1. n \in Nat /\ \A i \in 1 .. n : seqs[i] \in Seq(S)
  OBVIOUS
<1>2. H \in [(1 .. n) \X Seq(S) -> Seq(S)] /\ << >> \in Seq(S)
  <2>1. \A x \in (1 .. n) \X Seq(S) : x[2] \o seqs[x[1]] \in Seq(S)
    BY <1>1
  <2> QED
    BY <2>1
<1>3. \A k \in 1 .. n : \A v \in Seq(S) : H[<<k, v>>] = v \o seqs[k]
  OBVIOUS
<1> HIDE DEF H
<1>4. PICK h \in [0 .. n -> Seq(S)] : Steps(h, n, << >>, H)
  BY <1>1, <1>2, StepsExist
<1>5. h[0] = << >> /\ \A k \in 1 .. n : h[k] = h[k - 1] \o seqs[k]
  <2>1. \A k \in 1 .. n : k - 1 \in 0 .. n
    BY <1>1
  <2> QED
    BY <1>3, <1>4, <2>1 DEF Steps
<1>6. FlattenSeq(seqs) = h[n]
  <2>1. CASE n = 0
    <3>1. seqs = << >> /\ FlattenSeq(seqs) = seqs
      BY <2>1 DEF FlattenSeq
    <3> QED
      BY <1>5, <2>1, <3>1
  <2>2. CASE n # 0
    <3> DEFINE g == [i \in 1 .. n |-> h[i]]
               flatten == CHOOSE f : f = [i \in 1 .. n |->
                            IF i = 1 THEN seqs[i] ELSE f[i - 1] \o seqs[i]]
    <3>1. h[1] = seqs[1]
      <4>1. 1 \in 1 .. n /\ 1 - 1 = 0
        BY <1>1, <2>2
      <4>2. h[1] = h[0] \o seqs[1] /\ seqs[1] \in Seq(S)
        BY <1>1, <1>5, <4>1
      <4> QED
        BY <1>5, <4>2
    <3>2. \A i \in 1 .. n : i # 1 => g[i - 1] = h[i - 1]
      BY <1>1
    <3>3. \A i \in 1 .. n : h[i] = IF i = 1 THEN seqs[i] ELSE g[i - 1] \o seqs[i]
      BY <1>5, <3>1, <3>2
    <3>4. g = [i \in 1 .. n |-> IF i = 1 THEN seqs[i] ELSE g[i - 1] \o seqs[i]]
      BY <3>3
    <3>5. flatten = [i \in 1 .. n |->
                       IF i = 1 THEN seqs[i] ELSE flatten[i - 1] \o seqs[i]]
      <4> HIDE DEF g
      <4> QED
        BY <3>4
    <3>6. FlattenSeq(seqs) = flatten[n]
      BY <2>2, Zenon DEF FlattenSeq
    <3> HIDE DEF flatten
    <3>7. flatten[1] = h[1]
      BY <1>1, <2>2, <3>1, <3>5
    <3>8. GoesOn(flatten, n, Seq(S), H)
      <4> SUFFICES ASSUME NEW k \in 2 .. n, flatten[k - 1] \in Seq(S)
                   PROVE  flatten[k] = H[<<k, flatten[k - 1]>>]
        BY DEF GoesOn
      <4>1. k \in 1 .. n /\ k # 1
        BY <1>1
      <4>2. flatten[k] = flatten[k - 1] \o seqs[k]
        BY <3>5, <4>1
      <4> QED
        BY <1>3, <4>1, <4>2
    <3>9. \A k \in 1 .. n : flatten[k] = h[k]
      <4>1. Agree(flatten, h, n)
        <5> HIDE DEF n
        <5> QED
          BY <1>1, <1>4, <3>7, <3>8, StepsAgree
      <4> QED
        BY <4>1 DEF Agree
    <3> QED
      BY <1>1, <2>2, <3>6, <3>9
  <2> QED
    BY <2>1, <2>2
<1> QED
  BY <1>5, <1>6

(* So a sequence of sequences over S is flattened to a sequence over S.    *)
LEMMA FlattenType ==
  ASSUME NEW S, NEW seqs \in Seq(Seq(S)) PROVE FlattenSeq(seqs) \in Seq(S)
<1>1. PICK h \in [0 .. Len(seqs) -> Seq(S)] : FlattenSeq(seqs) = h[Len(seqs)]
  BY FlattenValues
<1>2. Len(seqs) \in 0 .. Len(seqs)
  OBVIOUS
<1> QED
  BY <1>1, <1>2

(* A concatenation has the elements of its parts.                          *)
LEMMA FlattenMean ==
  ASSUME NEW S, NEW seqs \in Seq(Seq(S))
  PROVE  Range(FlattenSeq(seqs)) = UNION {Range(seqs[i]) : i \in 1 .. Len(seqs)}
<1> DEFINE n == Len(seqs)
           first(k) == UNION {Range(seqs[i]) : i \in 1 .. k}
<1>1. PICK h \in [0 .. n -> Seq(S)] :
        /\ h[0] = << >>
        /\ \A k \in 1 .. n : h[k] = h[k - 1] \o seqs[k]
        /\ FlattenSeq(seqs) = h[n]
  BY FlattenValues
<1> DEFINE T == {k \in 0 .. n : Range(h[k]) = first(k)}
<1>2. n \in Nat /\ \A i \in 1 .. n : seqs[i] \in Seq(S)
  OBVIOUS
<1>3. 0 \in T
  <2>1. Range(h[0]) = {}
    BY <1>1 DEF Range
  <2>2. first(0) = {}
    OBVIOUS
  <2> QED
    BY <1>2, <2>1, <2>2
<1>4. ASSUME NEW k \in 0 .. n - 1, k \in T PROVE k + 1 \in T
  <2>0. /\ k + 1 \in 1 .. n /\ (k + 1) - 1 = k /\ k \in 0 .. n /\ k + 1 \in 0 .. n
        /\ 1 .. k + 1 = (1 .. k) \cup {k + 1}
    <3> HIDE DEF n
    <3> QED
      BY <1>2
  <2>1. /\ h[k] \in Seq(S) /\ h[k + 1] = h[k] \o seqs[k + 1]
        /\ seqs[k + 1] \in Seq(S)
    <3> HIDE DEF n
    <3> QED
      BY <1>1, <1>2, <2>0
  <2>2. Range(h[k + 1]) = Range(h[k]) \cup Range(seqs[k + 1])
    BY <2>1, RangeConcatenation
  <2>3. first(k + 1) = first(k) \cup Range(seqs[k + 1])
    <3>1. {Range(seqs[i]) : i \in 1 .. k + 1}
            = {Range(seqs[i]) : i \in 1 .. k} \cup {Range(seqs[k + 1])}
      BY <2>0
    <3> QED
      BY <3>1, Zenon
  <2> QED
    BY <1>4, <2>0, <2>2, <2>3
<1>5. \A k \in 0 .. n : k \in T
  <2> HIDE DEF T, n
  <2> QED
    BY <1>2, <1>3, <1>4, UpTo
<1>6. Range(h[n]) = first(n)
  <2> HIDE DEF n
  <2> QED
    BY <1>2, <1>5
<1> QED
  BY <1>1, <1>6

=============================================================================
