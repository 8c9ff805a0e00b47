----------------------------- MODULE DriftGuard -----------------------------
(***************************************************************************)
(* What drift prevention promises of one object, as if admission were one  *)
(* atomic step: no cache, no call in flight, no managedFields.  Flux gives *)
(* fields their values; everybody else may write what keeps them, release  *)
(* what an ignore rule waives, and is let off only where protection is     *)
(* off.  DriftRefinement shows that AdmissionHandler implements it.        *)
(***************************************************************************)
CONSTANTS
    Leaves, Absent,
    Docs,       \* the documents the object may hold
    Manifests,  \* those Git may declare
    Disabling,  \* the annotations that turn protection off
    Disabled,   \* their value
    Waivers,    \* sets of leaves that the owner's ignore rules waive
    Escapes     \* the configuration lets some writes pass unjudged

VARIABLES
    doc,  \* the object
    held  \* what Flux applied and nobody was since allowed to change

Nothing == [l \in Leaves |-> Absent]
Keeps(d, h) == \A l \in Leaves : h[l] # Absent => d[l] = h[l]
Armed(d) == { l \in Disabling : d[l] = Disabled }
Release(h, waived) == [l \in Leaves |-> IF l \in waived THEN Absent ELSE h[l]]

Init == doc = Nothing /\ held = Nothing

Reapply == held' \in Manifests /\ doc' \in Docs /\ Keeps(doc', held')

Write ==
    /\ \E waived \in Waivers : held' = Release(held, waived)
    /\ doc' \in Docs /\ Keeps(doc', held')
    /\ held # Nothing => Armed(doc') \subseteq Armed(doc)

WriteUnjudged ==
    /\ Escapes \/ Armed(doc) # {}
    /\ held' = Nothing /\ doc' \in Docs

Delete == doc' = Nothing /\ held' = Nothing

Next == Reapply \/ Write \/ WriteUnjudged \/ Delete

Spec == Init /\ [][Next]_<<doc, held>>
=============================================================================
