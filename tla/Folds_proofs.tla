---------------------------- MODULE Folds_proofs ----------------------------
(***************************************************************************)
(* What the loops of the code need that are written as folds: that the     *)
(* recursion behind FoldLeft has a solution, and that it takes the         *)
(* elements one by one.  Induction is over a set of numbers, for which a   *)
(* least element outside it is the counterexample.                         *)
(***************************************************************************)
EXTENDS SequencesExt, SequenceTheorems, FiniteSetTheorems, WellFoundedInduction, TLAPS

(***************************************************************************)
(* Induction with a set in place of a predicate.                           *)
(***************************************************************************)
LEMMA NatSet ==
    ASSUME NEW A, 0 \in A, \A n \in Nat : n \in A => n + 1 \in A
    PROVE  Nat \subseteq A
<1>. DEFINE B == Nat \ A
<1>. SUFFICES ASSUME B # {} PROVE FALSE
  OBVIOUS
<1>1. B \subseteq Nat
  OBVIOUS
<1>2. \A n \in Nat : n \notin B => n + 1 \notin B /\ 0 \notin B
  OBVIOUS
<1>. HIDE DEF B
<1>3. PICK m \in B : \A k \in B : ~(<<k, m>> \in OpToRel(<, Nat))
  BY <1>1, NatLessThanWellFounded, WFMin
<1>4. \A k \in B : ~(k < m)
  BY <1>1, <1>3 DEF OpToRel
<1>5. m \in Nat /\ 0 \notin B
  BY <1>1 DEF B
<1>6. m - 1 \in Nat /\ m - 1 \notin B
  BY <1>4, <1>5
<1>7. (m - 1) + 1 \notin B
  BY <1>2, <1>6
<1>. QED BY <1>5, <1>7

(***************************************************************************)
(* A recursion that takes one element at a time off a finite set has a     *)
(* solution.                                                               *)
(***************************************************************************)
IterStep(F, base, pick, it, s) == IF s = {} THEN base ELSE F[<<it[s \ {pick[s]}], pick[s]>>]

Picks(pick, D) == \A s \in SUBSET D : s # {} => pick[s] \in s
Solves(F, base, pick, it, D) ==
    \A s \in SUBSET D : it[s] = IterStep(F, base, pick, it, s)

LEMMA FoldExists ==
    ASSUME NEW D, IsFiniteSet(D), NEW pick, Picks(pick, D),
           NEW V, NEW base \in V, NEW F \in [V \X D -> V]
    PROVE  \E it \in [SUBSET D -> V] : Solves(F, base, pick, it, D)
<1>. USE DEF Picks, Solves
<1>. DEFINE Good(it, n) == \A s \in SUBSET D : Cardinality(s) <= n =>
                              it[s] = IterStep(F, base, pick, it, s)
            A == { n \in Nat : \E it \in [SUBSET D -> V] : Good(it, n) }
<1>1. 0 \in A
  <2>. DEFINE it == [s \in SUBSET D |-> base]
  <2>1. \A s \in SUBSET D : Cardinality(s) <= 0 => s = {}
    BY FS_Subset, FS_EmptySet, FS_CardinalityType
  <2>2. Good(it, 0)
    BY <2>1 DEF IterStep
  <2>. QED BY <2>2
<1>2. ASSUME NEW n \in Nat, n \in A PROVE n + 1 \in A
  <2>1. PICK it \in [SUBSET D -> V] : Good(it, n)
    BY <1>2
  <2>. DEFINE next == [s \in SUBSET D |-> IterStep(F, base, pick, it, s)]
  <2>2. next \in [SUBSET D -> V]
    BY DEF IterStep
  <2>3. ASSUME NEW s \in SUBSET D, Cardinality(s) <= n PROVE next[s] = it[s]
    BY <2>1, <2>3
  <2>4. ASSUME NEW s \in SUBSET D, Cardinality(s) <= n + 1
        PROVE  next[s] = IterStep(F, base, pick, next, s)
    <3>1. CASE s = {}
      BY <3>1 DEF IterStep
    <3>2. CASE s # {}
      <4>. DEFINE t == s \ {pick[s]}
      <4>1. IsFiniteSet(s) /\ Cardinality(s) \in Nat
        BY FS_Subset, FS_CardinalityType
      <4>2. Cardinality(t) = Cardinality(s) - 1
        BY <3>2, <4>1, FS_RemoveElement
      <4>3. Cardinality(t) <= n
        BY <2>4, <4>1, <4>2
      <4>4. next[t] = it[t]
        BY <2>3, <4>3
      <4>. HIDE DEF next
      <4>5. next[s] = IterStep(F, base, pick, it, s)
        BY DEF next
      <4>. QED BY <3>2, <4>4, <4>5 DEF IterStep
    <3>. QED BY <3>1, <3>2
  <2>. HIDE DEF next
  <2>5. Good(next, n + 1)
    BY <2>4
  <2>. QED BY <2>2, <2>5
<1>3. Cardinality(D) \in A
  <2>. HIDE DEF A
  <2>. QED BY <1>1, <1>2, NatSet, FS_CardinalityType
<1>4. PICK it \in [SUBSET D -> V] : Good(it, Cardinality(D))
  BY <1>3
<1>5. \A s \in SUBSET D : Cardinality(s) <= Cardinality(D)
  BY FS_Subset
<1>. QED BY <1>4, <1>5

(***************************************************************************)
(* The last index of a set of indices, which a fold from the left takes off *)
(* first.                                                                  *)
(***************************************************************************)
LEMMA MaxOfIndices ==
    ASSUME NEW n \in Nat
    PROVE  /\ \A s \in SUBSET (1 .. n) : s # {} => Max(s) \in s
           /\ \A k \in 1 .. n : Max(1 .. k) = k
<1>1. ASSUME NEW s \in SUBSET (1 .. n), s # {} PROVE Max(s) \in s
  <2>. DEFINE B == { n - x : x \in s }
  <2>1. B \subseteq Nat /\ B # {}
    <3>1. \A x \in s : x \in Int /\ n - x \in Nat
      OBVIOUS
    <3>. QED BY <1>1, <3>1
  <2>2. PICK m \in B : \A k \in B : ~(<<k, m>> \in OpToRel(<, Nat))
    BY <2>1, NatLessThanWellFounded, WFMin
  <2>3. \A k \in B : m <= k
    <3>. HIDE DEF B
    <3>1. \A k \in B : ~(k < m)
      BY <2>1, <2>2 DEF OpToRel
    <3>. QED BY <2>1, <3>1
  <2>4. PICK x \in s : m = n - x
    OBVIOUS
  <2>5. \A y \in s : x >= y
    BY <2>3, <2>4
  <2>. QED BY <2>5 DEF Max
<1>2. ASSUME NEW k \in 1 .. n PROVE Max(1 .. k) = k
  <2>1. k \in 1 .. k /\ \A y \in 1 .. k : k >= y
    OBVIOUS
  <2>2. \A x \in 1 .. k : (\A y \in 1 .. k : x >= y) => x = k
    BY <2>1
  <2>. QED BY <2>1, <2>2 DEF Max
<1>. QED BY <1>1, <1>2

(***************************************************************************)
(* A fold from the left, for a step given as a function.                   *)
(***************************************************************************)
Takes(it, F, base, seq) ==
    \A s \in SUBSET DOMAIN seq :
        it[s] = IF s = {} THEN base ELSE F[<<it[s \ {Max(s)}], seq[Max(s)]>>]

LEMMA LastOfIndices ==
    ASSUME NEW E, NEW seq \in Seq(E)
    PROVE  /\ \A s \in SUBSET DOMAIN seq :
                 s # {} => Max(s) \in DOMAIN seq /\ seq[Max(s)] \in E
           /\ \A k \in 1 .. Len(seq) :
                 Max(1 .. k) = k /\ (1 .. k) \ {k} = 1 .. (k - 1) /\ k \in 1 .. k
<1>1. Len(seq) \in Nat /\ DOMAIN seq = 1 .. Len(seq) /\ \A i \in 1 .. Len(seq) : seq[i] \in E
  OBVIOUS
<1>2. \A s \in SUBSET DOMAIN seq : s # {} => Max(s) \in DOMAIN seq
  BY <1>1, MaxOfIndices
<1>3. \A k \in 1 .. Len(seq) : Max(1 .. k) = k
  BY <1>1, MaxOfIndices
<1>. QED BY <1>1, <1>2, <1>3

LEMMA FoldLeftExists ==
    ASSUME NEW E, NEW seq \in Seq(E), NEW V, NEW base \in V, NEW F \in [V \X E -> V]
    PROVE  \E it \in [SUBSET DOMAIN seq -> V] : Takes(it, F, base, seq)
<1>. DEFINE D == 1 .. Len(seq)
            pick == [s \in SUBSET D |-> Max(s)]
            G == [p \in V \X D |-> F[<<p[1], seq[p[2]]>>]]
<1>1. Len(seq) \in Nat /\ DOMAIN seq = D /\ \A i \in D : seq[i] \in E
  OBVIOUS
<1>2. IsFiniteSet(D)
  <2>1. 1 \in Int /\ Len(seq) \in Int
    BY <1>1
  <2>2. IsFiniteSet(1 .. Len(seq))
    BY <2>1, FS_Interval
  <2>. QED BY <2>2
<1>3. \A s \in SUBSET D : s # {} => pick[s] \in s
  BY <1>1, MaxOfIndices
<1>4. G \in [V \X D -> V]
  BY <1>1
<1>5. PICK it \in [SUBSET D -> V] : \A s \in SUBSET D : it[s] = IterStep(G, base, pick, it, s)
  <2>1. Picks(pick, D)
    BY <1>3 DEF Picks
  <2>. HIDE DEF D, pick, G
  <2>2. PICK it \in [SUBSET D -> V] : Solves(G, base, pick, it, D)
    BY <1>2, <2>1, <1>4, FoldExists
  <2>. QED BY <2>2 DEF Solves
<1>6. ASSUME NEW s \in SUBSET D
      PROVE  it[s] = IF s = {} THEN base ELSE F[<<it[s \ {Max(s)}], seq[Max(s)]>>]
  <2>1. CASE s = {}
    BY <1>5, <2>1 DEF IterStep
  <2>2. CASE s # {}
    <3>1. Max(s) \in D /\ pick[s] = Max(s)
      BY <1>3, <2>2
    <3>2. it[s \ {Max(s)}] \in V
      OBVIOUS
    <3>3. G[<<it[s \ {Max(s)}], Max(s)>>] = F[<<it[s \ {Max(s)}], seq[Max(s)]>>]
      BY <3>1, <3>2
    <3>. HIDE DEF G, pick, D
    <3>. QED BY <1>5, <2>2, <3>1, <3>3 DEF IterStep
  <2>. QED BY <2>1, <2>2
<1>. QED BY <1>1, <1>6 DEF Takes

(***************************************************************************)
(* The same fold element by element: h[k] is what it is after k of them.   *)
(***************************************************************************)
OneByOne(h, F, base, seq) ==
    h[0] = base /\ \A k \in 1 .. Len(seq) : h[k] = F[<<h[k - 1], seq[k]>>]
Folded(F, base, seq) == CHOOSE v : \E h : OneByOne(h, F, base, seq) /\ v = h[Len(seq)]

IsFolded(v, F, base, seq) == \E h : OneByOne(h, F, base, seq) /\ v = h[Len(seq)]

LEMMA FoldedExists ==
    ASSUME NEW E, NEW seq \in Seq(E), NEW V, NEW base \in V, NEW F \in [V \X E -> V]
    PROVE  IsFolded(Folded(F, base, seq), F, base, seq)
<1>1. PICK it \in [SUBSET DOMAIN seq -> V] : Takes(it, F, base, seq)
  BY FoldLeftExists
<1>. DEFINE h == [k \in 0 .. Len(seq) |-> it[1 .. k]]
<1>2. Len(seq) \in Nat /\ DOMAIN seq = 1 .. Len(seq)
  OBVIOUS
<1>3. \A k \in 0 .. Len(seq) : h[k] = it[1 .. k]
  OBVIOUS
<1>. HIDE DEF h
<1>4. h[0] = base
  <2>1. 1 .. 0 = {} /\ {} \in SUBSET DOMAIN seq /\ 0 \in 0 .. Len(seq)
    BY <1>2
  <2>2. it[{}] = base
    BY <1>1, <2>1 DEF Takes
  <2>3. h[0] = it[1 .. 0]
    BY <1>3, <2>1
  <2>. QED BY <2>1, <2>2, <2>3
<1>5. ASSUME NEW k \in 1 .. Len(seq) PROVE h[k] = F[<<h[k - 1], seq[k]>>]
  <2>1. k \in 0 .. Len(seq) /\ k - 1 \in 0 .. Len(seq)
    BY <1>2
  <2>2. Max(1 .. k) = k /\ (1 .. k) \ {k} = 1 .. (k - 1) /\ k \in 1 .. k
    BY LastOfIndices
  <2>3. 1 .. k \in SUBSET DOMAIN seq /\ 1 .. k # {}
    <3>1. \A i \in 1 .. k : i \in DOMAIN seq
      BY <1>2
    <3>. QED BY <2>2, <3>1
  <2>4. it[1 .. k] = F[<<it[1 .. (k - 1)], seq[k]>>]
    BY <1>1, <2>2, <2>3 DEF Takes
  <2>. QED BY <1>3, <2>1, <2>4
<1>6. OneByOne(h, F, base, seq)
  BY <1>4, <1>5 DEF OneByOne
<1>7. \E v : \E g : OneByOne(g, F, base, seq) /\ v = g[Len(seq)]
  BY <1>6
<1>. QED BY <1>7 DEF Folded, IsFolded

\* g does the same for the first n elements, as far as its values have the type.
Imitates(g, F, base, seq, V, n) ==
    /\ g[0] = base
    /\ \A k \in 1 .. n : g[k - 1] \in V => g[k] = F[<<g[k - 1], seq[k]>>]

Typed(F, base, seq, E, V) == seq \in Seq(E) /\ base \in V /\ F \in [V \X E -> V]
UpTo(n, seq) == n \in 0 .. Len(seq)

LEMMA FoldedAgrees ==
    ASSUME NEW E, NEW seq, NEW V, NEW base, NEW F, Typed(F, base, seq, E, V),
           NEW h, OneByOne(h, F, base, seq),
           NEW n, UpTo(n, seq), NEW g, Imitates(g, F, base, seq, V, n)
    PROVE  h[n] \in V /\ g[n] = h[n]
<1>. DEFINE A == { k \in Nat : k <= n => h[k] \in V /\ g[k] = h[k] }
<1>. USE DEF Typed, UpTo
<1>1. Len(seq) \in Nat /\ n \in Nat /\ n <= Len(seq) /\ \A k \in 1 .. Len(seq) : seq[k] \in E
  OBVIOUS
<1>2. 0 \in A
  BY DEF OneByOne, Imitates
<1>3. ASSUME NEW k \in Nat, k \in A PROVE k + 1 \in A
  <2>. SUFFICES ASSUME k + 1 <= n PROVE h[k + 1] \in V /\ g[k + 1] = h[k + 1]
    OBVIOUS
  <2>1. k + 1 \in 1 .. n /\ (k + 1) - 1 = k /\ k + 1 \in 1 .. Len(seq) /\ k <= n
    BY <1>1
  <2>2. h[k] \in V /\ g[k] = h[k] /\ seq[k + 1] \in E
    BY <1>1, <1>3, <2>1
  <2>3. h[k + 1] = F[<<h[k], seq[k + 1]>>] /\ g[k + 1] = F[<<g[k], seq[k + 1]>>]
    BY <2>1, <2>2 DEF OneByOne, Imitates
  <2>. QED BY <2>2, <2>3
<1>4. n \in A
  <2>. HIDE DEF A
  <2>. QED BY <1>1, <1>2, <1>3, NatSet
<1>. QED BY <1>1, <1>4

(***************************************************************************)
(* FoldLeft chooses a function on sets of indices.  One that takes off the *)
(* last index as F says, where its values have the type, is the fold.      *)
(***************************************************************************)
Mimics(fold, F, base, seq, V) ==
    /\ fold[{}] = base
    /\ \A s \in SUBSET DOMAIN seq :
          s # {} /\ fold[s \ {Max(s)}] \in V =>
             fold[s] = F[<<fold[s \ {Max(s)}], seq[Max(s)]>>]

LEMMA FoldedIs ==
    ASSUME NEW E, NEW seq, NEW V, NEW base, NEW F, Typed(F, base, seq, E, V),
           NEW fold, Mimics(fold, F, base, seq, V)
    PROVE  fold[DOMAIN seq] = Folded(F, base, seq)
<1>. DEFINE n == Len(seq)
            g == [k \in 0 .. n |-> fold[1 .. k]]
<1>1. n \in Nat /\ DOMAIN seq = 1 .. n /\ n \in 0 .. n
  BY DEF Typed
<1>2. IsFolded(Folded(F, base, seq), F, base, seq)
  BY FoldedExists DEF Typed
<1>3. PICK h : OneByOne(h, F, base, seq) /\ Folded(F, base, seq) = h[n]
  BY <1>2 DEF IsFolded
<1>4. \A k \in 0 .. n : g[k] = fold[1 .. k]
  OBVIOUS
<1>. HIDE DEF g, n
<1>5. g[0] = base
  <2>1. 1 .. 0 = {} /\ 0 \in 0 .. n
    BY <1>1
  <2>. QED BY <1>4, <2>1 DEF Mimics
<1>6. ASSUME NEW k \in 1 .. n, g[k - 1] \in V PROVE g[k] = F[<<g[k - 1], seq[k]>>]
  <2>1. k \in 0 .. n /\ k - 1 \in 0 .. n
    BY <1>1
  <2>2. Max(1 .. k) = k /\ (1 .. k) \ {k} = 1 .. (k - 1) /\ k \in 1 .. k
    BY LastOfIndices DEF n, Typed
  <2>3. \A i \in 1 .. k : i \in DOMAIN seq
    BY <1>1
  <2>4. 1 .. k \in SUBSET DOMAIN seq /\ 1 .. k # {}
    BY <2>2, <2>3
  <2>5. g[k - 1] = fold[1 .. (k - 1)] /\ g[k] = fold[1 .. k]
    BY <1>4, <2>1
  <2>. QED BY <1>6, <2>2, <2>4, <2>5 DEF Mimics
<1>7. Imitates(g, F, base, seq, V, n) /\ UpTo(n, seq)
  BY <1>1, <1>5, <1>6 DEF Imitates, UpTo, n
<1>8. g[n] = h[n]
  BY <1>3, <1>7, FoldedAgrees
<1>. QED BY <1>1, <1>3, <1>4, <1>8

(***************************************************************************)
(* The induction over a list that a loop is: its value for nothing, and    *)
(* for one element more.                                                   *)
(***************************************************************************)
LEMMA FoldedNone ==
    ASSUME NEW E, NEW V, NEW base, NEW F, Typed(F, base, << >>, E, V)
    PROVE  Folded(F, base, << >>) = base
<1>. USE DEF Typed
<1>. DEFINE none == << >>
<1>1. none \in Seq(E) /\ Len(none) = 0
  OBVIOUS
<1>. HIDE DEF none
<1>2. IsFolded(Folded(F, base, none), F, base, none)
  BY <1>1, FoldedExists
<1>3. PICK h : OneByOne(h, F, base, none) /\ Folded(F, base, none) = h[Len(none)]
  BY <1>2 DEF IsFolded
<1>. QED BY <1>1, <1>3 DEF OneByOne, none

LEMMA FoldedOneMore ==
    ASSUME NEW E, NEW seq, NEW V, NEW base, NEW F, Typed(F, base, seq, E, V), NEW e \in E
    PROVE  /\ Folded(F, base, seq) \in V
           /\ Folded(F, base, Append(seq, e)) = F[<<Folded(F, base, seq), e>>]
<1>. USE DEF Typed
<1>. DEFINE more == Append(seq, e)
            n == Len(seq)
<1>1. /\ more \in Seq(E) /\ n \in Nat /\ Len(more) = n + 1
      /\ \A k \in 1 .. n : more[k] = seq[k]
      /\ more[n + 1] = e
  BY AppendProperties
<1>2. n \in 0 .. Len(seq) /\ \A k \in 1 .. n : k \in 1 .. Len(seq)
  BY <1>1
<1>. HIDE DEF more, n
<1>3. IsFolded(Folded(F, base, seq), F, base, seq) /\ IsFolded(Folded(F, base, more), F, base, more)
  BY <1>1, FoldedExists
<1>4. PICK h : OneByOne(h, F, base, seq) /\ Folded(F, base, seq) = h[n]
  BY <1>3 DEF IsFolded, n
<1>5. PICK g : OneByOne(g, F, base, more) /\ Folded(F, base, more) = g[n + 1]
  BY <1>1, <1>3 DEF IsFolded
<1>6. ASSUME NEW k \in 1 .. n PROVE g[k] = F[<<g[k - 1], seq[k]>>]
  <2>1. k \in 1 .. Len(more) /\ more[k] = seq[k]
    BY <1>1
  <2>. QED BY <1>5, <2>1 DEF OneByOne
<1>7. g[0] = base
  BY <1>5 DEF OneByOne
<1>. HIDE DEF Typed
<1>8. h[n] \in V /\ g[n] = h[n]
  <2>1. Imitates(g, F, base, seq, V, n)
    BY <1>6, <1>7 DEF Imitates
  <2>2. UpTo(n, seq) /\ Typed(F, base, seq, E, V)
    BY <1>2 DEF UpTo, Typed
  <2>. QED BY <1>4, <2>1, <2>2, FoldedAgrees
<1>9. g[n + 1] = F[<<g[n], e>>]
  <2>1. n + 1 \in 1 .. Len(more) /\ (n + 1) - 1 = n
    BY <1>1
  <2>. QED BY <1>1, <1>5, <2>1 DEF OneByOne
<1>. QED BY <1>4, <1>5, <1>8, <1>9 DEF more
=============================================================================
