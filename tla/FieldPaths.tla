----------------------------- MODULE FieldPaths -----------------------------
(***************************************************************************)
(* The field algebra behind every UPDATE decision: internal/webhook/       *)
(* fields.go, and the operations of fieldpath.Set it uses (external:       *)
(* structured-merge-diff).                                                 *)
(*                                                                         *)
(* A field path is a sequence of elements: map keys and, below a list,     *)
(* associative keys k:{...}.  A document gives every leaf path a value or  *)
(* Absent; its maps and lists are the proper prefixes of its present       *)
(* leaves.  The value diff sees a list as one value.                       *)
(***************************************************************************)
EXTENDS Naturals, SequencesExt

CONSTANTS
    Elements,      \* path elements
    Leaves,        \* the leaf paths of the documents considered
    ListPaths,     \* the paths that hold a list
    Values,        \* what a leaf may hold
    Absent,        \* the leaf is not there
    EmptyMap,      \* the value {}: in Values where a leaf may be an empty map
    MaxDiffDepth,  \* maxDiffDepth
    Malformed,     \* a FieldsV1 that does not parse
    NoFields       \* a nil FieldsV1

ASSUME FieldPathsAssumption ==
    /\ Leaves \subseteq Seq(Elements) \ {<< >>}
    /\ ListPaths \subseteq Seq(Elements) \ {<< >>}
    /\ MaxDiffDepth \in Nat
    /\ Absent \notin Values

Present(d, l) == d[l] # Absent

\* A document is a tree: nothing lies below a leaf that holds a value.
Docs == { d \in [Leaves -> Values \cup {Absent}] :
            \A k, l \in Leaves :
               Present(d, k) /\ Present(d, l) => ~IsStrictPrefix(k, l) }

\* The non-empty prefixes of a leaf, and all of them: the paths a
\* managedFields entry or an ignore rule may name.
PrefixesOf(l) == { SubSeq(l, 1, i) : i \in 1..Len(l) }
Paths == UNION { PrefixesOf(l) : l \in Leaves }

ASSUME FieldsAssumption ==
    \A fields \in SUBSET Paths : fields # Malformed /\ fields # NoFields

\* The paths the value diff can name: none lies below a list.
Nodes == { p \in Paths : \A q \in ListPaths : ~IsStrictPrefix(q, p) }

Exists(d, p) == \E l \in Leaves : IsPrefix(p, l) /\ Present(d, l)

IsMap(d, p) ==
    /\ p \notin ListPaths
    /\ \/ \E l \in Leaves : IsStrictPrefix(p, l) /\ Present(d, l)
       \/ p \in Leaves /\ d[p] = EmptyMap

SameBelow(o, n, p) == \A l \in Leaves : IsPrefix(p, l) => o[l] = n[l]

(***************************************************************************)
(* ComputeFieldDiff as a set: a path is reported when the walk reaches it  *)
(* (everything above it is a map in both documents, and it is no deeper    *)
(* than maxDiffDepth), does not go on below it, and finds a difference.    *)
(* FieldWalk checks it against the walk of diffMaps and diffValues.        *)
(***************************************************************************)
BothMaps(o, n, p) == IsMap(o, p) /\ IsMap(n, p)

\* Mutants: one map too deep; without the removed keys; with the maps above.
DiffTooDeep(o, n) ==
    { p \in Nodes : /\ Len(p) <= MaxDiffDepth + 1
                    /\ \A q \in Nodes : IsStrictPrefix(q, p) => BothMaps(o, n, q)
                    /\ ~BothMaps(o, n, p)
                    /\ ~SameBelow(o, n, p) }
DiffWithoutRemovals(o, n) ==
    { p \in Nodes : /\ Len(p) <= MaxDiffDepth
                    /\ \A q \in Nodes : IsStrictPrefix(q, p) => BothMaps(o, n, q)
                    /\ ~BothMaps(o, n, p)
                    /\ ~SameBelow(o, n, p) /\ Exists(n, p) }
DiffWithParents(o, n) ==
    { p \in Nodes : /\ Len(p) <= MaxDiffDepth
                    /\ \A q \in Nodes : IsStrictPrefix(q, p) => BothMaps(o, n, q)
                    /\ ~SameBelow(o, n, p) }

ComputeFieldDiff(o, n) ==
    { p \in Nodes : /\ Len(p) <= MaxDiffDepth
                    /\ \A q \in Nodes : IsStrictPrefix(q, p) => BothMaps(o, n, q)
                    /\ ~BothMaps(o, n, p)
                    /\ ~SameBelow(o, n, p) }

\* fieldpath.Set.RecursiveDifference: S without what is at or below T.
RecursiveDifference(S, T) == { s \in S : ~ \E t \in T : IsPrefix(t, s) }

\* Mutant: the exact intersection.
ExactConflict(modified, flux) == modified \cap flux

GetConflictingFields(modified, flux) ==
    LET fluxUnderModified == flux \ RecursiveDifference(flux, modified)
        modifiedUnderFlux == modified \ RecursiveDifference(modified, flux)
    IN  fluxUnderModified \cup modifiedUnderFlux

WaiveIgnoredConflicts(conflict, ignoreSet) == RecursiveDifference(conflict, ignoreSet)

(***************************************************************************)
(* managedFields: a set of entries [manager, operation, fields].  A        *)
(* manager is the sequence of its segments between slashes, so "equal to   *)
(* the name, or the name and a version suffix" is a test on the first one. *)
(***************************************************************************)
isFluxFieldManager(manager) ==
    manager[1] \in {"kustomize-controller", "helm-controller"}

\* Mutant: a manager without a version suffix is missed.
SuffixedFluxEntries(managedFields) ==
    { mf \in managedFields : /\ mf.operation = "Apply"
                             /\ isFluxFieldManager(mf.manager)
                             /\ Len(mf.manager) > 1
                             /\ mf.fields # NoFields }

FluxEntries(managedFields) ==
    { mf \in managedFields : /\ mf.operation = "Apply"
                             /\ isFluxFieldManager(mf.manager)
                             /\ mf.fields # NoFields }

FluxManagedFields(managedFields) ==
    IF \E mf \in FluxEntries(managedFields) : mf.fields = Malformed
    THEN Malformed
    ELSE UNION { mf.fields : mf \in FluxEntries(managedFields) }
=============================================================================
