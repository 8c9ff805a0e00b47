------------------------ MODULE AdmissionProperties -------------------------
(***************************************************************************)
(* What drift prevention promises, stated over AdmissionHandler.           *)
(***************************************************************************)
EXTENDS AdmissionHandler

Decisions ==
    [step : {"decided"}, allowed : {TRUE}, reason : AllowedReasons]
    \cup [step : {"decided"}, allowed : {FALSE}, reason : DeniedReasons]
    \cup [step : {"unanswered"} \cup OwnerReads \cup NamespaceReads,
          allowed : {FALSE}, reason : {""}]

Entries == [manager : Seq(STRING), operation : {"Apply", "Update"}, fields : SUBSET Paths]
Objects == [doc : Docs, managedFields : SUBSET Entries, deleting : BOOLEAN]
Requests ==
    [op : {"CREATE", "UPDATE", "DELETE"}, by : {"client", "flux"}, user : Identities,
     old : Objects, new : Objects, declared : SUBSET Leaves,
     subresource : BOOLEAN, derived : BOOLEAN, fault : Faults]
Calls ==
    [req : Requests, decision : Decisions, spent : Nat,
     unlabelled : BOOLEAN, ignore : SUBSET Paths, listed : BOOLEAN]

(***************************************************************************)
(* The type of every variable: documents are trees, and a decision carries *)
(* a label of the reasons.go contract that says what was decided.          *)
(***************************************************************************)
TypeOK ==
    /\ obj \in Objects \cup {None}
    /\ git \in Manifests \cup {None}
    /\ owner \in Owner
    /\ ns \in NS
    /\ cache \in [owner : Owner, ns : NS]
    /\ calls \in [Slots -> Calls \cup {None}]
    /\ applied \in [Leaves -> Values \cup {Absent}]
    /\ budget \in [requests : 0..MaxRequests, changes : 0..MaxChanges, faults : 0..MaxFaults]

----------------------------------------------------------------------------
(***************************************************************************)
(* Drift prevention: as long as the object exists, every field Flux        *)
(* applied still has the value Flux gave it, unless a write that README.md *)
(* exempts changed it.  It takes the field check, the tampering check, the *)
(* annotation check and the label fallback together, over several requests *)
(* of several writers and reads of a stale cache (Handle and everything    *)
(* below it).                                                              *)
(***************************************************************************)
DriftFree ==
    obj # None =>
        \A l \in Leaves : applied[l] # Absent => obj.doc[l] = applied[l]

(***************************************************************************)
(* What keeps the field check armed for the next request: a field Flux     *)
(* applied stays at or below a path of Flux's managedFields entry          *)
(* (checkUpdateFieldConflict: shrinkage "would silently disarm the field   *)
(* check for every later request").                                        *)
(***************************************************************************)
StillOwned ==
    obj # None =>
        \A l \in Leaves : applied[l] # Absent =>
            \E f \in FluxManagedFields(obj.managedFields) : IsPrefix(f, l)

(***************************************************************************)
(* The inductive invariant behind DriftFree and StillOwned, for an object  *)
(* of a Kustomization.  A call in flight that protection applies to has,   *)
(* at every step of checkBypass and checkUpdateFieldConflict, only         *)
(* verdicts ahead of it that keep what Flux owns: if it is admitted, every *)
(* field Flux owned that no ignore rule read by it covers has its old      *)
(* value in the new object and is still Flux's there, and no annotation    *)
(* that turns protection off was added.                                    *)
(***************************************************************************)
Protected(o, l) == \E f \in FluxManagedFields(o.managedFields) : IsPrefix(f, l)
Waived(ignore, l) == \E i \in ignore : IsPrefix(i, l)

SoundUpdate(req, ignore) ==
    \A l \in Leaves : Protected(req.old, l) /\ ~Waived(ignore, l) =>
        req.new.doc[l] = req.old.doc[l] /\ Protected(req.new, l)

Arms(req) == protectionDisablingAnnotationAdded(req.old.doc, req.new.doc)

Verdict(req, decision, ignore) ==
    /\ decision.step \in {"scope", "owner", "ignore", "decided"}
    /\ decision.step = "ignore" => OldFluxFields(req) # Malformed /\ ~Arms(req)
    /\ decision.step = "decided" /\ decision.allowed =>
          /\ SoundUpdate(req, ignore)
          /\ OldFluxFields(req) # {} => ~Arms(req)

Guarded(call) ==
    /\ call.req.by = "client" /\ call.req.op = "UPDATE"
    /\ Present(call.req.old.doc, KustomizeLabel)
    /\ ~Exempt(call)

CallInv(call) ==
    /\ ~Waived(call.ignore, OwnerLabel)
    /\ call.req.by = "client" => call.req.user \in Clients \cup {NamespaceController}
    /\ call.req.op # "CREATE" => call.req.old # None
    /\ call.req.by = "flux" /\ call.req.op # "DELETE" =>
          /\ OwnerLabel \in call.req.declared
          /\ \A l \in call.req.declared :
                call.req.new.doc[l] # Absent /\ Protected(call.req.new, l)
    /\ Guarded(call) => Verdict(call.req, call.decision, call.ignore)

LabelHeld == applied # Nothing => applied[OwnerLabel] # Absent

ProtectionInv ==
    /\ DriftFree /\ StillOwned /\ LabelHeld
    /\ \A s \in Slots : calls[s] # None => CallInv(calls[s])

Commits(s) == calls[s] # None /\ calls'[s] = None /\ obj' # obj

(***************************************************************************)
(* A live object Flux applied is deleted only by its reconciler, a         *)
(* recognised control-plane controller, the teardown of its namespace, or  *)
(* a write exempt from protection (checkDeleteManaged and what precedes it *)
(* in checkBypass).                                                        *)
(***************************************************************************)
DeletionGuarded ==
    [][\A s \in Slots :
         /\ Commits(s) /\ calls[s].req.op = "DELETE"
         /\ ~obj.deleting /\ applied # Nothing
         => \/ calls[s].req.by = "flux"
            \/ IsSystemController(calls[s].req.user, SystemControllerSAs)
            \/ ns.terminating
            \/ Exempt(calls[s])]_vars

(***************************************************************************)
(* No client arms the bypass or the reconcile: disabled annotation of an   *)
(* object Flux applied, unless protection was already off                  *)
(* (protectionDisablingAnnotationAdded: the two-step bypass).              *)
(***************************************************************************)
NotDisarmedByClients ==
    [][\A s \in Slots :
         /\ Commits(s) /\ calls[s].req.by = "client" /\ calls[s].req.op = "UPDATE"
         /\ applied # Nothing
         /\ protectionDisablingAnnotationAdded(obj.doc, obj'.doc)
         => Exempt(calls[s])]_vars

(***************************************************************************)
(* A name the owner's inventory was seen to list is not taken by anybody   *)
(* else, whatever ownerReference, annotation or identity the request       *)
(* carries (checkDerivedResourceCreate: "a forged controller reference     *)
(* must not enable squatting").                                            *)
(***************************************************************************)
NoSquatting ==
    \A s \in Slots :
        calls[s] # None /\ calls[s].listed /\ calls[s].req.by = "client" =>
            ~(calls[s].decision.step = "decided" /\ calls[s].decision.allowed)

(***************************************************************************)
(* No false denial: an update that leaves every branch and list Flux owns  *)
(* a field of alone, keeps Flux's managedFields and arms no annotation is  *)
(* admitted whatever the cache answers (checkUpdateFieldConflict: "allows  *)
(* updates to fields NOT managed by Flux").                                *)
(***************************************************************************)
SameBranch(p, q) ==
    \/ IsPrefix(p, q) \/ IsPrefix(q, p)
    \/ \E list \in ListPaths : IsPrefix(list, p) /\ (IsPrefix(list, q) \/ IsPrefix(q, list))

Harmless(req) ==
    LET flux == FluxManagedFields(req.old.managedFields)
    IN  /\ req.op = "UPDATE" /\ req.fault = "none" /\ req.by = "client"
        /\ flux \subseteq FluxManagedFields(req.new.managedFields)
        /\ ~protectionDisablingAnnotationAdded(req.old.doc, req.new.doc)
        /\ \A l \in Leaves : req.old.doc[l] # req.new.doc[l] =>
              \A f \in flux : ~SameBranch(l, f)

HarmlessAdmitted ==
    \A s \in Slots :
        calls[s] # None /\ calls[s].decision.step = "decided" /\ Harmless(calls[s].req)
        => calls[s].decision.allowed

(***************************************************************************)
(* The core Flux controllers can always repair or remove the object they   *)
(* own, however stale or broken the cache is (isOwningFluxReconciler       *)
(* decides before the first read of the owner).                            *)
(***************************************************************************)
OwnerNotLockedOut ==
    \A s \in Slots :
        /\ calls[s] # None /\ calls[s].decision.step = "decided"
        /\ calls[s].req.by = "flux" /\ calls[s].req.user = FluxController
        /\ calls[s].req.op = "UPDATE" => OwnerLabelsKept(calls[s].req)
        => calls[s].decision.allowed

----------------------------------------------------------------------------
(***************************************************************************)
(* The object follows Git in the end, whatever service account the owner   *)
(* names and however long the cache lags.                                  *)
(***************************************************************************)
FollowsGit ==
    IF git = None THEN obj = None
    ELSE obj # None /\ \A l \in Leaves : Present(git, l) => obj.doc[l] = git[l]

FluxConverges == <>[](ns.terminating \/ FollowsGit)

(***************************************************************************)
(* A terminating namespace loses the object: a cascade delete is admitted  *)
(* once the informer has seen the namespace's deletionTimestamp            *)
(* (checkBypass: denying it "only wedges the namespace in Terminating").   *)
(***************************************************************************)
TeardownCompletes == ns.terminating ~> obj = None

----------------------------------------------------------------------------
(***************************************************************************)
(* README.md:237-239: denied_wrong_flux_controller means that the labels   *)
(* name a different owner.                                                 *)
(***************************************************************************)
WrongControllerMeansTwoOwners ==
    \A s \in Slots :
        calls[s] # None /\ calls[s].decision.reason = "denied_wrong_flux_controller" =>
            /\ GetFluxManagementInfo(calls[s].req.old.doc).isManaged
            /\ GetFluxManagementInfo(calls[s].req.new.doc).isManaged

(***************************************************************************)
(* handler.go:412: the pre-request state proves that a bypass annotation   *)
(* came through Git, so an object that Flux applied and the handler lets   *)
(* go by its bypass annotation got it from Flux.                           *)
(***************************************************************************)
BypassCameThroughGit ==
    \A s \in Slots :
        /\ calls[s] # None
        /\ calls[s].decision.reason = "allowed_bypass_annotation"
        /\ FluxManagedFields(calls[s].req.old.managedFields) # {}
        => \E f \in FluxManagedFields(calls[s].req.old.managedFields) : IsPrefix(f, Bypass)

(***************************************************************************)
(* README.md:281-282, handler.go:435-436: HelmRelease-owned objects are    *)
(* unaffected by reconcile: disabled.                                      *)
(***************************************************************************)
HelmUnaffectedByReconcileDisabled ==
    \A s \in Slots :
        calls[s] # None /\ calls[s].decision.reason = "allowed_reconcile_disabled" =>
            GetFluxManagementInfo(calls[s].req.old.doc).managedBy # "helmrelease"
=============================================================================
