-------------------------- MODULE DriftRefinement ---------------------------
(***************************************************************************)
(* AdmissionHandler implements DriftGuard: whatever the interleaving of    *)
(* requests and however stale the cache, each committed write is one a     *)
(* webhook could have admitted that judges and commits in one step.        *)
(***************************************************************************)
EXTENDS AdmissionProperties

\* No object is not an object.
ASSUME NoneAssumption == None \notin Objects

LeavesUnder(ignore) == { l \in Leaves : Waived(ignore, l) }

\* The writes README.md lets pass whatever they change.
Scaled == \E edit \in ClientEdits : DOMAIN edit \subseteq ScaleLeaves
Unjudged ==
    \/ AuditOnly \/ FailOpen \/ ExcludedGroup \/ NamespaceLabel
    \/ Namespace = "excluded" \/ Scaled

TheDoc == IF obj = None THEN Nothing ELSE obj.doc

Guard == INSTANCE DriftGuard WITH
    doc <- TheDoc,
    held <- applied,
    Disabling <- {Bypass, Reconcile},
    Waivers <- { LeavesUnder(ignore) : ignore \in (IgnoreSets \ {Malformed}) \cup {{}} },
    Escapes <- Unjudged

(***************************************************************************)
(* Drift prevention as a whole: stale reads of the owner and the namespace *)
(* and the interleaving of calls add no behaviour to the atomic guard      *)
(* (Handle and everything below it, between the API server's read of the   *)
(* object and its commit).                                                 *)
(***************************************************************************)
ImplementsGuard == Guard!Spec

----------------------------------------------------------------------------
(***************************************************************************)
(* What the refinement needs beside ProtectionInv: a call remembers only   *)
(* what the owner or the namespace could have said, and what an apply of   *)
(* Flux grants is a manifest.                                              *)
(***************************************************************************)
Granted(req) ==
    [l \in Leaves |-> IF l \in req.declared THEN req.new.doc[l] ELSE Absent]

Sourced(call) ==
    /\ call.ignore \in (IgnoreSets \ {Malformed}) \cup {{}}
    /\ call.unlabelled => NamespaceLabel
    /\ call.req.subresource => Scaled
    /\ call.req.by = "flux" /\ call.req.op # "DELETE" => Granted(call.req) \in Manifests

RefinementInv ==
    /\ obj = None => applied = Nothing
    /\ {ns.labelled, cache.ns.labelled} \subseteq Labellings
    /\ \A s \in Slots : calls[s] # None => Sourced(calls[s])
=============================================================================
