-------------------------- MODULE FieldPaths_proofs -------------------------
(***************************************************************************)
(* Lemmas about the field algebra, for every choice of the constants.      *)
(***************************************************************************)
EXTENDS FieldPaths, WellFoundedInduction, TLAPS

(***************************************************************************)
(* Two prefixes of one path lie on one branch.                             *)
(***************************************************************************)
LEMMA PrefixesComparable ==
    ASSUME NEW S, NEW p \in Seq(S), NEW q \in Seq(S), NEW l \in Seq(S),
           IsPrefix(p, l), IsPrefix(q, l), Len(p) <= Len(q)
    PROVE  IsPrefix(p, q)
<1>1. /\ Len(p) \in Nat /\ Len(q) \in Nat /\ Len(l) \in Nat
      /\ Len(p) <= Len(l) /\ Len(q) <= Len(l)
  BY DEF IsPrefix
<1>2. \A i \in 1..Len(p) : p[i] = l[i]
  <2>1. SubSeq(p, 1, Len(p)) = SubSeq(l, 1, Len(p))
    BY DEF IsPrefix
  <2>2. \A i \in 1..Len(p) : SubSeq(p, 1, Len(p))[i] = p[i] /\ SubSeq(l, 1, Len(p))[i] = l[i]
    BY <1>1
  <2>. QED BY <2>1, <2>2
<1>3. \A i \in 1..Len(q) : q[i] = l[i]
  <2>1. SubSeq(q, 1, Len(q)) = SubSeq(l, 1, Len(q))
    BY DEF IsPrefix
  <2>2. \A i \in 1..Len(q) : SubSeq(q, 1, Len(q))[i] = q[i] /\ SubSeq(l, 1, Len(q))[i] = l[i]
    BY <1>1
  <2>. QED BY <2>1, <2>2
<1>4. \A i \in 1..Len(p) : p[i] = q[i]
  BY <1>1, <1>2, <1>3
<1>5. SubSeq(p, 1, Len(p)) = SubSeq(q, 1, Len(p))
  BY <1>1, <1>4
<1>. QED BY <1>5 DEF IsPrefix

(***************************************************************************)
(* What is at or below a path at or below a third is at or below the third.*)
(***************************************************************************)
LEMMA PrefixTransitive ==
    ASSUME NEW S, NEW p \in Seq(S), NEW q \in Seq(S), NEW l \in Seq(S),
           IsPrefix(p, q), IsPrefix(q, l)
    PROVE  IsPrefix(p, l)
<1>1. /\ Len(p) \in Nat /\ Len(q) \in Nat /\ Len(l) \in Nat
      /\ Len(p) <= Len(q) /\ Len(q) <= Len(l)
  BY DEF IsPrefix
<1>2. \A i \in 1..Len(p) : p[i] = q[i]
  <2>1. SubSeq(p, 1, Len(p)) = SubSeq(q, 1, Len(p))
    BY DEF IsPrefix
  <2>2. \A i \in 1..Len(p) : SubSeq(p, 1, Len(p))[i] = p[i] /\ SubSeq(q, 1, Len(p))[i] = q[i]
    BY <1>1
  <2>. QED BY <2>1, <2>2
<1>3. \A i \in 1..Len(q) : q[i] = l[i]
  <2>1. SubSeq(q, 1, Len(q)) = SubSeq(l, 1, Len(q))
    BY DEF IsPrefix
  <2>2. \A i \in 1..Len(q) : SubSeq(q, 1, Len(q))[i] = q[i] /\ SubSeq(l, 1, Len(q))[i] = l[i]
    BY <1>1
  <2>. QED BY <2>1, <2>2
<1>4. SubSeq(p, 1, Len(p)) = SubSeq(l, 1, Len(p))
  BY <1>1, <1>2, <1>3
<1>. QED BY <1>1, <1>4 DEF IsPrefix

(***************************************************************************)
(* The initial segments of a leaf are its prefixes.                        *)
(***************************************************************************)
LEMMA SegmentIsPrefix ==
    ASSUME NEW S, NEW l \in Seq(S), NEW i \in 0..Len(l)
    PROVE  /\ SubSeq(l, 1, i) \in Seq(S)
           /\ Len(SubSeq(l, 1, i)) = i
           /\ IsPrefix(SubSeq(l, 1, i), l)
<1>1. Len(l) \in Nat /\ i \in Nat /\ i <= Len(l)
  OBVIOUS
<1>2. SubSeq(l, 1, i) \in Seq(S) /\ Len(SubSeq(l, 1, i)) = i
  BY <1>1
<1>3. SubSeq(SubSeq(l, 1, i), 1, i) = SubSeq(l, 1, i)
  BY <1>1, <1>2
<1>. QED BY <1>1, <1>2, <1>3 DEF IsPrefix

(***************************************************************************)
(* Every path is a non-empty sequence of elements.                         *)
(***************************************************************************)
LEMMA PathsAreSequences == Paths \subseteq Seq(Elements) \ {<< >>}
<1>1. SUFFICES ASSUME NEW l \in Leaves, NEW i \in 1..Len(l)
               PROVE  SubSeq(l, 1, i) \in Seq(Elements) \ {<< >>}
  BY DEF Paths, PrefixesOf
<1>2. l \in Seq(Elements) /\ i \in 0..Len(l) /\ i # 0
  BY FieldPathsAssumption
<1>3. SubSeq(l, 1, i) \in Seq(Elements) /\ Len(SubSeq(l, 1, i)) = i
  BY <1>2, SegmentIsPrefix
<1>4. Len(<< >>) = 0
  OBVIOUS
<1>. QED BY <1>2, <1>3, <1>4

(***************************************************************************)
(* The conflict check is complete (GetConflictingFields,                   *)
(* WaiveIgnoredConflicts): if the diff reports a path at or above a leaf   *)
(* and Flux owns a path at or above it, nothing but an ignore path at or   *)
(* above that leaf can waive the conflict.                                 *)
(***************************************************************************)
THEOREM ConflictSound ==
    ASSUME NEW modified, NEW flux, NEW ignore,
           modified \subseteq Seq(Elements), flux \subseteq Seq(Elements),
           ignore \subseteq Seq(Elements),
           NEW l \in Leaves,
           NEW m \in modified, IsPrefix(m, l),
           NEW f \in flux, IsPrefix(f, l),
           WaiveIgnoredConflicts(GetConflictingFields(modified, flux), ignore) = {}
    PROVE  \E i \in ignore : IsPrefix(i, l)
<1>1. l \in Seq(Elements) /\ m \in Seq(Elements) /\ f \in Seq(Elements)
  BY FieldPathsAssumption
<1>2. IsPrefix(m, f) \/ IsPrefix(f, m)
  <2>1. Len(m) \in Nat /\ Len(f) \in Nat
    BY <1>1
  <2>2. Len(m) <= Len(f) \/ Len(f) <= Len(m)
    BY <2>1
  <2>. QED BY <1>1, <2>2, PrefixesComparable
<1>3. PICK c \in GetConflictingFields(modified, flux) : c \in {m, f}
  <2>1. CASE IsPrefix(m, f)
    BY <2>1 DEF GetConflictingFields, RecursiveDifference
  <2>2. CASE IsPrefix(f, m)
    BY <2>2 DEF GetConflictingFields, RecursiveDifference
  <2>. QED BY <1>2, <2>1, <2>2
<1>4. PICK i \in ignore : IsPrefix(i, c)
  BY <1>3 DEF WaiveIgnoredConflicts, RecursiveDifference
<1>5. IsPrefix(c, l) /\ c \in Seq(Elements)
  BY <1>1, <1>3
<1>. QED BY <1>1, <1>4, <1>5, PrefixTransitive

(***************************************************************************)
(* A path strictly above another is a shorter prefix of it; a prefix of    *)
(* the same length is the path itself.                                     *)
(***************************************************************************)
LEMMA StrictIsShorter ==
    ASSUME NEW S, NEW p \in Seq(S), NEW q \in Seq(S), IsPrefix(p, q)
    PROVE  /\ Len(p) \in Nat /\ Len(q) \in Nat /\ Len(p) <= Len(q)
           /\ IsStrictPrefix(p, q) <=> Len(p) < Len(q)
           /\ Len(p) = Len(q) => p = q
           /\ p = SubSeq(q, 1, Len(p))
<1>1. Len(p) \in Nat /\ Len(q) \in Nat /\ Len(p) <= Len(q)
  BY DEF IsPrefix
<1>2. p = SubSeq(p, 1, Len(p)) /\ q = SubSeq(q, 1, Len(q))
  BY <1>1
<1>3. p = SubSeq(q, 1, Len(p))
  BY <1>2 DEF IsPrefix
<1>4. Len(p) = Len(q) => p = q
  BY <1>2, <1>3
<1>. QED BY <1>1, <1>3, <1>4 DEF IsStrictPrefix

(***************************************************************************)
(* The walk comes to a difference (ComputeFieldDiff): where a branch to a  *)
(* leaf that changes leaves the maps of both documents, within the depth   *)
(* bound, a path of the diff lies at or above that point.  It is the       *)
(* shortest prefix of the leaf that is not a map in both.                  *)
(***************************************************************************)
LEMMA DiffReaches ==
    ASSUME NEW o \in Docs, NEW n \in Docs, NEW l \in Leaves, o[l] # n[l],
           NEW j \in 1..Len(l), j <= MaxDiffDepth, ~BothMaps(o, n, SubSeq(l, 1, j))
    PROVE  \E i \in 1..j : SubSeq(l, 1, i) \in ComputeFieldDiff(o, n)
<1>. DEFINE seg(i) == SubSeq(l, 1, i)
            T == { i \in 1..Len(l) : ~BothMaps(o, n, seg(i)) }
<1>1. l \in Seq(Elements) /\ Len(l) \in Nat /\ Len(l) >= 1
  BY FieldPathsAssumption
<1>2. \A i \in 1..Len(l) : /\ seg(i) \in Seq(Elements) /\ Len(seg(i)) = i
                           /\ IsPrefix(seg(i), l) /\ seg(i) \in Paths
  <2>. SUFFICES ASSUME NEW i \in 1..Len(l)
                PROVE  /\ seg(i) \in Seq(Elements) /\ Len(seg(i)) = i
                       /\ IsPrefix(seg(i), l) /\ seg(i) \in Paths
    OBVIOUS
  <2>1. seg(i) \in Paths
    BY DEF Paths, PrefixesOf
  <2>2. i \in 0..Len(l)
    BY <1>1
  <2>3. seg(i) \in Seq(Elements) /\ Len(seg(i)) = i /\ IsPrefix(seg(i), l)
    BY <1>1, <2>2, SegmentIsPrefix
  <2>. QED BY <2>1, <2>3
<1>4. j \in T
  OBVIOUS
<1>5. PICK i \in T : \A k \in T : ~(k < i)
  <2>1. T \subseteq Nat
    OBVIOUS
  <2>2. PICK i \in T : \A k \in T : ~(<<k, i>> \in OpToRel(<, Nat))
    BY <1>4, <2>1, NatLessThanWellFounded, WFMin
  <2>. QED BY <2>1, <2>2 DEF OpToRel
<1>3. i \in 1..j
  BY <1>4, <1>5
<1>6. i \in 1..Len(l) /\ ~BothMaps(o, n, seg(i))
  OBVIOUS
<1>7. ASSUME NEW q \in Seq(Elements), IsStrictPrefix(q, seg(i)), q # << >>
      PROVE  BothMaps(o, n, q)
  <2>1. Len(q) \in 1..Len(l) /\ Len(q) < i /\ q = seg(Len(q))
    <3>1. IsPrefix(q, seg(i)) /\ q # seg(i) /\ Len(q) <= i
      BY <1>2, <1>6, <1>7 DEF IsStrictPrefix, IsPrefix
    <3>2. q = SubSeq(q, 1, Len(q)) /\ seg(i) = SubSeq(seg(i), 1, i)
      BY <1>2, <1>6
    <3>3. Len(q) # i
      BY <1>2, <1>6, <3>1, <3>2 DEF IsPrefix
    <3>4. IsPrefix(q, l)
      BY <1>1, <1>2, <1>6, <3>1, PrefixTransitive
    <3>5. Len(q) \in Nat \ {0}
      BY <1>7
    <3>6. Len(q) < i /\ Len(q) \in 1..Len(l)
      BY <1>1, <1>6, <3>1, <3>3, <3>5
    <3>7. SubSeq(q, 1, Len(q)) = SubSeq(l, 1, Len(q))
      BY <3>4 DEF IsPrefix
    <3>. QED BY <3>2, <3>6, <3>7
  <2>2. Len(q) \notin T
    BY <1>5, <2>1
  <2>. QED BY <2>1, <2>2
<1>8. seg(i) \in Nodes
  <2>1. SUFFICES ASSUME NEW q \in ListPaths, IsStrictPrefix(q, seg(i)), q \in Seq(Elements) \ {<< >>}
                 PROVE  FALSE
    BY <1>2, <1>6, FieldPathsAssumption DEF Nodes
  <2>2. BothMaps(o, n, q)
    BY <1>7, <2>1
  <2>. QED BY <2>2 DEF BothMaps, IsMap
<1>9. seg(i) \in ComputeFieldDiff(o, n)
  <2>1. \A q \in Nodes : IsStrictPrefix(q, seg(i)) => BothMaps(o, n, q)
    <3>1. \A q \in Nodes : q \in Seq(Elements) /\ q # << >>
      BY PathsAreSequences DEF Nodes
    <3>. QED BY <1>7, <3>1
  <2>2. ~SameBelow(o, n, seg(i))
    BY <1>2, <1>6 DEF SameBelow
  <2>3. Len(seg(i)) <= MaxDiffDepth
    BY <1>1, <1>2, <1>3, <1>6, FieldPathsAssumption
  <2>. QED BY <1>6, <1>8, <2>1, <2>2, <2>3 DEF ComputeFieldDiff
<1>. QED BY <1>3, <1>9

(***************************************************************************)
(* So a leaf that changes within the depth bound, and is no empty map,     *)
(* lies at or below a path of the diff.                                    *)
(***************************************************************************)
THEOREM DiffCovers ==
    ASSUME NEW o \in Docs, NEW n \in Docs, NEW l \in Leaves,
           o[l] # n[l], o[l] # EmptyMap, n[l] # EmptyMap, Len(l) <= MaxDiffDepth
    PROVE  \E p \in ComputeFieldDiff(o, n) : IsPrefix(p, l)
<1>1. l \in Seq(Elements) /\ Len(l) \in Nat /\ Len(l) >= 1
  BY FieldPathsAssumption
<1>2. ~BothMaps(o, n, l)
  <2>1. PICK d \in {o, n} : Present(d, l)
    BY DEF Present
  <2>2. d \in Docs /\ d[l] # EmptyMap
    BY <2>1
  <2>3. \A k \in Leaves : Present(d, k) => ~IsStrictPrefix(l, k)
    BY <2>1, <2>2 DEF Docs
  <2>4. ~IsMap(d, l)
    BY <2>2, <2>3 DEF IsMap
  <2>. QED BY <2>4 DEF BothMaps
<1>3. SubSeq(l, 1, Len(l)) = l /\ Len(l) \in 1..Len(l)
  BY <1>1
<1>4. PICK i \in 1..Len(l) : SubSeq(l, 1, i) \in ComputeFieldDiff(o, n)
  BY <1>2, <1>3, DiffReaches
<1>5. i \in 0..Len(l)
  BY <1>1
<1>. QED BY <1>1, <1>4, <1>5, SegmentIsPrefix
=============================================================================
