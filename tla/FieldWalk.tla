----------------------------- MODULE FieldWalk ------------------------------
(***************************************************************************)
(* A pair of documents edited leaf by leaf, a Flux field set and an ignore *)
(* set: the inputs of the field algebra, and the walk of diffMaps and      *)
(* diffValues as the code recurses through them.                           *)
(***************************************************************************)
EXTENDS FieldPaths

CONSTANTS
    FluxSets,      \* the Flux-managed sets considered
    IgnoreSets     \* the ignore sets considered

ASSUME WalkAssumption ==
    /\ FluxSets \subseteq SUBSET Paths /\ IgnoreSets \subseteq SUBSET Paths
    /\ EmptyMap # Absent

VARIABLES old, new, flux, ignore
walkVars == <<old, new, flux, ignore>>

Empty == [l \in Leaves |-> Absent]

WalkInit == /\ old = Empty /\ new = Empty
            /\ flux \in FluxSets /\ ignore \in IgnoreSets

\* The request changes one leaf of the object.
EditNew(l, v) ==
    /\ new' = [new EXCEPT ![l] = v]
    /\ new' \in Docs
    /\ UNCHANGED <<old, flux, ignore>>

\* The request is admitted: its object is the next request's old object.
Admit == old # new /\ old' = new /\ UNCHANGED <<new, flux, ignore>>

WalkNext ==
    \/ \E l \in Leaves, v \in Values \cup {Absent} : EditNew(l, v)
    \/ Admit

WalkSpec == WalkInit /\ [][WalkNext]_walkVars

----------------------------------------------------------------------------
\* The keys of the map at p in either document.
KeysBelow(p) == { q \in Nodes : Len(q) = Len(p) + 1 /\ IsPrefix(p, q) }

\* What is inserted for a value both maps have, and for a key of either;
\* below is what the walk of the maps there inserts.
diffValues(o, n, q, below) ==
    IF BothMaps(o, n, q) THEN below
    ELSE IF SameBelow(o, n, q) THEN {} ELSE {q}

diffKey(o, n, q, below) ==
    IF Exists(o, q) /\ Exists(n, q) THEN diffValues(o, n, q, below)
    ELSE IF Exists(o, q) \/ Exists(n, q) THEN {q} ELSE {}

diffMaps(o, n) ==
    LET walk[p \in Nodes \cup {<< >>}] ==
            IF Len(p) >= MaxDiffDepth THEN {}
            ELSE UNION { diffKey(o, n, q, walk[q]) : q \in KeysBelow(p) }
    IN  walk[<< >>]

----------------------------------------------------------------------------
Modified == ComputeFieldDiff(old, new)
Conflict == GetConflictingFields(Modified, flux)

Changed(l) == old[l] # new[l]
Owned(l) == \E f \in flux : IsPrefix(f, l)
Ignored(l) == \E i \in ignore : IsPrefix(i, l)
Comparable(p, q) == IsPrefix(p, q) \/ IsPrefix(q, p)

(***************************************************************************)
(* The set definition that the handler's model and its proofs use reports  *)
(* exactly what the recursive walk of diffMaps/diffValues inserts.         *)
(***************************************************************************)
DiffIsTheWalk == Modified = diffMaps(old, new)

(***************************************************************************)
(* Every change the depth bound reaches is on a reported path's branch,    *)
(* and nothing is reported where both documents agree (ComputeFieldDiff:   *)
(* "added, removed, or changed"), including a value that becomes a map, a  *)
(* map that becomes a value and a list edited inside.  At the bound the    *)
(* walk does not look into a map, so an empty one may gain keys unseen.    *)
(***************************************************************************)
DiffIsExact ==
    /\ \A l \in Leaves :
          /\ Changed(l) /\ Len(l) <= MaxDiffDepth
          /\ Len(l) = MaxDiffDepth => EmptyMap \notin {old[l], new[l]}
          => \E p \in Modified : Comparable(p, l)
    /\ \A p \in Modified : ~SameBelow(old, new, p)
    /\ \A p, q \in Modified : ~IsStrictPrefix(p, q)

(***************************************************************************)
(* A changed value at or below a path Flux owns is a conflict that only an *)
(* ignore path at or above that value can waive: GetConflictingFields and  *)
(* WaiveIgnoredConflicts connect list edits recorded as the whole list     *)
(* with Flux members inside the list, and never let an ignored leaf excuse *)
(* its siblings.                                                           *)
(***************************************************************************)
NoDriftWaived ==
    \A l \in Leaves :
        /\ Changed(l) /\ Owned(l) /\ ~Ignored(l)
        /\ Len(l) <= MaxDiffDepth
        /\ EmptyMap \notin {old[l], new[l]}
        => WaiveIgnoredConflicts(Conflict, ignore) # {}

(***************************************************************************)
(* No false denial: a conflict that is not waived lies on the branch of a  *)
(* changed value and of a Flux field, except that an edit inside a list    *)
(* stands for the whole list (GetConflictingFields: "any change inside a   *)
(* keyed list that Flux partially owns counts as a conflict").  Flux owns  *)
(* only fields the old object has.                                         *)
(***************************************************************************)
ConflictHasCause ==
    (\A f \in flux : Exists(old, f)) =>
    \A c \in WaiveIgnoredConflicts(Conflict, ignore) :
        \E l \in Leaves, f \in flux :
            /\ Changed(l)
            /\ Comparable(c, f)
            /\ \/ Comparable(c, l) /\ Comparable(f, l)
               \/ \E q \in ListPaths : IsPrefix(q, l) /\ Comparable(q, f)
=============================================================================
