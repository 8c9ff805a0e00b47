----------------------- MODULE DriftProtection_proofs -----------------------
(***************************************************************************)
(* Drift prevention for an object of a Kustomization, for every value of   *)
(* the constants: the decision an UPDATE ends with is sound for the fields *)
(* Flux owns, and therefore no interleaving of writers, stale reads and    *)
(* faults changes what Flux applied; a write that touches none of them is  *)
(* not denied, and an object is deleted only by those who may.             *)
(*                                                                         *)
(* AdmissionHandler therefore implements DriftGuard: the initial states    *)
(* map to initial states, a commit to a step of the guard, and every other *)
(* step to a stutter.                                                      *)
(***************************************************************************)
EXTENDS AdmissionHandler_proofs, DriftRefinement

----------------------------------------------------------------------------
\* What Flux owns.

LEMMA FluxFields ==
    ASSUME NEW o \in Objects
    PROVE  /\ FluxManagedFields(o.managedFields)
                = UNION { mf.fields : mf \in FluxEntries(o.managedFields) }
           /\ FluxManagedFields(o.managedFields) \subseteq Paths
<1>1. \A mf \in FluxEntries(o.managedFields) : mf.fields \in SUBSET Paths
  BY DEF FluxEntries, Objects, Entries
<1>2. \A mf \in FluxEntries(o.managedFields) : mf.fields # Malformed
  BY <1>1, FieldsAssumption
<1>3. FluxManagedFields(o.managedFields)
        = UNION { mf.fields : mf \in FluxEntries(o.managedFields) }
  BY <1>2 DEF FluxManagedFields
<1>. QED BY <1>1, <1>3

LEMMA SoundMonotone ==
    ASSUME NEW req, NEW ignore, SoundUpdate(req, {})
    PROVE  SoundUpdate(req, ignore)
BY DEF SoundUpdate, Waived

(***************************************************************************)
(* An update that protection applies to, as a predicate on the request.    *)
(***************************************************************************)
Judged(req) ==
    /\ req \in Requests /\ req.op = "UPDATE"
    /\ req.user \in Clients \cup {NamespaceController}
    /\ Present(req.old.doc, KustomizeLabel)
    /\ ~HasBypassAnnotation(req.old.doc) /\ ~IsReconcileDisabled(req.old.doc)

(***************************************************************************)
(* checkUpdateFieldConflict after its read: what it admits keeps the value *)
(* and the ownership of every field Flux owns that it does not waive.      *)
(***************************************************************************)
LEMMA FinishIsSound ==
    ASSUME NEW req, Judged(req), OldFluxFields(req) # Malformed,
           NEW ignore \in SUBSET Paths, FinishUpdate(req, ignore).allowed
    PROVE  SoundUpdate(req, ignore)
<1>. DEFINE flux == FluxManagedFields(req.old.managedFields)
            newFlux == FluxManagedFields(req.new.managedFields)
            diff == ComputeFieldDiff(req.old.doc, req.new.doc)
<1>1. req.old \in Objects /\ req.new \in Objects
  BY DEF Judged, Requests
<1>2. OldFluxFields(req) = flux
  BY DEF OldFluxFields
<1>3. /\ WaiveIgnoredConflicts(GetConflictingFields(diff, flux), ignore) = {}
      /\ NewFluxFields(req) # Malformed
      /\ WaiveIgnoredConflicts(flux \ NewFluxFields(req), ignore) = {}
  BY <1>2 DEF FinishUpdate, UpdateConflict, Deny
<1>4. NewFluxFields(req) = newFlux
  BY <1>3 DEF NewFluxFields
<1>5. /\ flux \subseteq Seq(Elements) /\ newFlux \subseteq Seq(Elements)
      /\ ignore \subseteq Seq(Elements) /\ diff \subseteq Seq(Elements)
  <2>1. flux \subseteq Paths /\ newFlux \subseteq Paths
    BY <1>1, FluxFields
  <2>2. diff \subseteq Paths
    BY DEF ComputeFieldDiff, Nodes
  <2>. QED BY <2>1, <2>2, PathsAreSequences
<1>. SUFFICES ASSUME NEW l \in Leaves, Protected(req.old, l), ~Waived(ignore, l)
              PROVE  req.new.doc[l] = req.old.doc[l] /\ Protected(req.new, l)
  BY DEF SoundUpdate
<1>6. PICK f \in flux : IsPrefix(f, l)
  BY DEF Protected
<1>7. req.new.doc[l] = req.old.doc[l]
  <2>. SUFFICES ASSUME req.old.doc[l] # req.new.doc[l] PROVE FALSE
    OBVIOUS
  <2>1. req.old.doc \in Docs /\ req.new.doc \in Docs
    BY <1>1 DEF Objects
  <2>2. /\ req.old.doc[l] # EmptyMap /\ req.new.doc[l] # EmptyMap
        /\ Len(l) <= MaxDiffDepth
    BY <2>1, DocsAreFunctions, ProtectionAssumption
  <2>3. PICK m \in diff : IsPrefix(m, l)
    BY <2>1, <2>2, DiffCovers
  <2>. HIDE DEF diff, flux
  <2>4. \E i \in ignore : IsPrefix(i, l)
    BY <1>3, <1>5, <1>6, <2>3, ConflictSound
  <2>. QED BY <2>4 DEF Waived
<1>8. f \in newFlux
  <2>. SUFFICES ASSUME f \notin newFlux PROVE FALSE
    OBVIOUS
  <2>1. PICK i \in ignore : IsPrefix(i, f)
    BY <1>3, <1>4 DEF WaiveIgnoredConflicts, RecursiveDifference
  <2>2. i \in Seq(Elements) /\ f \in Seq(Elements) /\ l \in Seq(Elements)
    BY <1>5, FieldPathsAssumption
  <2>3. IsPrefix(i, l)
    BY <1>6, <2>1, <2>2, PrefixTransitive
  <2>. QED BY <2>3 DEF Waived
<1>. QED BY <1>6, <1>7, <1>8 DEF Protected

----------------------------------------------------------------------------
(***************************************************************************)
(* The verdicts, from the field check up to Handle.                        *)
(***************************************************************************)
LEMMA FinishVerdict ==
    ASSUME NEW req, Judged(req), OldFluxFields(req) # Malformed, ~Arms(req),
           NEW ignore \in SUBSET Paths
    PROVE  Verdict(req, FinishUpdate(req, ignore), ignore)
<1>1. FinishUpdate(req, ignore).step = "decided"
  BY DEF FinishUpdate, Allow, Deny
<1>. QED BY <1>1, FinishIsSound DEF Verdict

LEMMA UpdateVerdict ==
    ASSUME NEW req, Judged(req), NEW ignore
    PROVE  Verdict(req, checkUpdateFieldConflict(req), ignore)
<1>1. ASSUME NEW reason PROVE Verdict(req, Deny(reason), ignore)
  BY DEF Verdict, Deny
<1>2. CASE OldFluxFields(req) = Malformed
  BY <1>1, <1>2 DEF checkUpdateFieldConflict
<1>3. CASE OldFluxFields(req) # Malformed /\ OldFluxFields(req) = {}
  <2>1. FluxManagedFields(req.old.managedFields) = {}
    BY <1>3 DEF OldFluxFields
  <2>2. SoundUpdate(req, ignore)
    BY <2>1 DEF SoundUpdate, Protected
  <2>3. checkUpdateFieldConflict(req) = Allow("allowed_no_flux_managed_fields")
    BY <1>3 DEF checkUpdateFieldConflict
  <2>. QED BY <1>3, <2>2, <2>3 DEF Verdict, Allow
<1>4. CASE OldFluxFields(req) # Malformed /\ OldFluxFields(req) # {} /\ Arms(req)
  <2>1. checkUpdateFieldConflict(req) = Deny("denied_bypass_annotation_added")
    BY <1>4 DEF checkUpdateFieldConflict, Arms
  <2>. QED BY <1>1, <2>1
<1>5. CASE OldFluxFields(req) # Malformed /\ OldFluxFields(req) # {} /\ ~Arms(req)
  <2>1. checkUpdateFieldConflict(req) \in
          {Deny("denied_parse_error"), Await("ignore"), FinishUpdate(req, {})}
    BY <1>5 DEF checkUpdateFieldConflict, Arms
  <2>2. Verdict(req, Await("ignore"), ignore)
    BY <1>5 DEF Verdict, Await
  <2>3. Verdict(req, FinishUpdate(req, {}), {})
    BY <1>5, FinishVerdict
  <2>4. Verdict(req, FinishUpdate(req, {}), ignore)
    BY <2>3, SoundMonotone DEF Verdict
  <2>. QED BY <1>1, <2>1, <2>2, <2>4
<1>. QED BY <1>2, <1>3, <1>4, <1>5

LEMMA NotOwnerVerdict ==
    ASSUME NEW req, Judged(req), NEW ignore
    PROVE  Verdict(req, NotOwner(req), ignore)
<1>1. NotOwner(req) = operationDecision(req)
  BY DEF NotOwner, checkBypassAnnotation, checkReconcileDisabled, PreRequest, Judged
<1>2. operationDecision(req) = checkUpdateFieldConflict(req)
  BY DEF operationDecision, Judged
<1>. QED BY <1>1, <1>2, UpdateVerdict

LEMMA ManagedByValue ==
    ASSUME NEW req \in Requests, FluxInfo(req).isManaged
    PROVE  FluxInfo(req).controller \in Values
<1>1. KustomizeLabel \in Leaves /\ HelmLabel \in Leaves
  BY HandlerAssumption
<1>2. ASSUME NEW doc \in [Leaves -> Values \cup {Absent}], GetFluxManagementInfo(doc).isManaged
      PROVE  GetFluxManagementInfo(doc).controller \in Values
  BY <1>1, <1>2 DEF GetFluxManagementInfo, Present, Unmanaged
<1>3. /\ req.old.doc \in [Leaves -> Values \cup {Absent}]
      /\ req.new.doc \in [Leaves -> Values \cup {Absent}]
  BY DocsAreFunctions DEF Requests, Objects
<1>4. FluxInfo(req) \in {GetFluxManagementInfo(req.new.doc), GetFluxManagementInfo(req.old.doc)}
  BY DEF FluxInfo, ObjMeta
<1>. QED BY <1>2, <1>3, <1>4

\* A labelled object stays managed through the request that strips its labels.
LEMMA StaysManaged ==
    ASSUME NEW req, Judged(req)
    PROVE  FluxInfo(req).isManaged /\ FluxInfo(req).controller \in Values
<1>1. GetFluxManagementInfo(req.old.doc).isManaged
  BY DEF GetFluxManagementInfo, Judged
<1>2. FluxInfo(req).isManaged
  BY <1>1 DEF FluxInfo, Judged
<1>. QED BY <1>2, ManagedByValue DEF Judged

\* A client is no reconciler of any owner a request can name, by whichever name
\* it is looked for.
Outsider(req) ==
    /\ req.user \in Clients \cup {NamespaceController}
    /\ FluxInfo(req).controller \in Values

LEMMA NeverReconciler ==
    ASSUME NEW req, Outsider(req)
    PROVE  /\ ~IsFluxController(req.user)
           /\ ParseServiceAccount(req.user).ns = OwnerNamespace[FluxInfo(req).controller] =>
                ParseServiceAccount(req.user).name
                   \notin fluxReconcilerServiceAccounts \cup (ServiceAccounts \ {""})
           /\ FallbackReconciler(req) = FALSE
BY ProtectionAssumption DEF Outsider, FallbackReconciler

LEMMA NeverOwning ==
    ASSUME NEW req, Outsider(req), NEW found, NEW o \in Owner
    PROVE  AfterOwner(req, found, o) = NotOwner(req)
<1>. DEFINE sa == ParseServiceAccount(req.user)
            v == FluxInfo(req).controller
<1>1. o.sa \in ServiceAccounts
  BY DEF Owner
<1>2. o.sa # "" => (sa.ns = OwnerNamespace[v] /\ sa.name = o.sa) = FALSE
  BY <1>1, NeverReconciler
<1>3. Owning(req, FALSE) = NotOwner(req)
  BY DEF Owning
<1>. QED BY <1>2, <1>3, NeverReconciler DEF AfterOwner

LEMMA NeverBypassing ==
    ASSUME NEW req, Outsider(req)
    PROVE  checkBypass(req) \in {NotOwner(req), Await("owner")}
BY NeverReconciler DEF checkBypass, Owning

LEMMA JudgedIsOutsider == ASSUME NEW req, Judged(req) PROVE Outsider(req)
BY StaysManaged DEF Judged, Outsider

LEMMA GateVerdict ==
    ASSUME NEW req, Judged(req), NEW ignore
    PROVE  Verdict(req, ManagementGate(req), ignore)
<1>1. Verdict(req, Deny("denied_metadata_error"), ignore)
  BY DEF Verdict, Deny
<1>2. Verdict(req, Await("owner"), ignore)
  BY DEF Verdict, Await
<1>3. Verdict(req, NotOwner(req), ignore)
  BY NotOwnerVerdict
<1>4. checkBypass(req) \in {NotOwner(req), Await("owner")}
  BY JudgedIsOutsider, NeverBypassing
<1>5. ManagementGate(req) \in {Deny("denied_metadata_error"), checkBypass(req)}
  BY StaysManaged DEF ManagementGate
<1>. QED BY <1>1, <1>2, <1>3, <1>4, <1>5

LEMMA HandleVerdict ==
    ASSUME NEW req, Judged(req), NEW ignore,
           ~req.subresource, ~ExcludedGroup, Namespace # "excluded"
    PROVE  Verdict(req, Handle(req), ignore)
<1>1. Handle(req) \in {Await("scope"), ManagementGate(req)}
  BY DEF Handle
<1>2. Verdict(req, Await("scope"), ignore)
  BY DEF Verdict, Await
<1>. QED BY <1>1, <1>2, GateVerdict

(***************************************************************************)
(* Whatever the cache answers, stale or not, and whether it answers at all.*)
(***************************************************************************)
LEMMA ResumeVerdict ==
    ASSUME NEW req, Judged(req), NEW step \in {"scope", "owner", "ignore"},
           step = "ignore" => OldFluxFields(req) # Malformed /\ ~Arms(req),
           NEW found, NEW o \in Owner, NEW n,
           step = "scope" => ~(found /\ ~n.labelled),
           NEW ignore, step = "ignore" => ignore = driftIgnoreSet(found, o)
    PROVE  Verdict(req, Resume(step, req, found, o, n), ignore)
<1>1. CASE step = "scope"
  <2>1. Resume(step, req, found, o, n) = ManagementGate(req)
    BY <1>1 DEF Resume, AfterScope
  <2>. QED BY <2>1, GateVerdict
<1>2. CASE step = "owner"
  <2>1. Resume(step, req, found, o, n) = NotOwner(req)
    BY <1>2, JudgedIsOutsider, NeverOwning DEF Resume
  <2>. QED BY <2>1, NotOwnerVerdict
<1>3. CASE step = "ignore"
  <2>1. Resume(step, req, found, o, n) = FinishUpdate(req, ignore)
    BY <1>3 DEF Resume, AfterIgnore
  <2>2. ignore \in SUBSET Paths
    BY <1>3, ProtectionAssumption DEF driftIgnoreSet, Owner
  <2>. QED BY <1>3, <2>1, <2>2, FinishVerdict
<1>. QED BY <1>1, <1>2, <1>3

----------------------------------------------------------------------------
(***************************************************************************)
(* Calls in flight.                                                        *)
(***************************************************************************)
LEMMA GuardedIsJudged ==
    ASSUME NEW call \in Calls, CallInv(call), Guarded(call)
    PROVE  /\ Judged(call.req) /\ ~call.req.subresource /\ ~AuditOnly
           /\ ~ExcludedGroup /\ Namespace # "excluded"
           /\ ~call.unlabelled /\ call.decision.step # "unanswered"
BY DEF CallInv, Guarded, Exempt, Judged, Calls

\* A client's call enters the handler.
LEMMA ClientCallInv ==
    ASSUME NEW req, ClientRequest(req)
    PROVE  CallInv(Call(req))
<1>. DEFINE call == Call(req)
<1>1. call.req = req /\ call.decision = Handle(req) /\ call.ignore = {} /\ ~call.unlabelled
  BY DEF Call
<1>2. ~Waived({}, OwnerLabel)
  BY DEF Waived
<1>3. ASSUME Guarded(call) PROVE Verdict(req, Handle(req), {})
  <2>1. Judged(req) /\ ~req.subresource /\ ~ExcludedGroup /\ Namespace # "excluded"
    BY <1>1, <1>3 DEF Guarded, Exempt, Judged, ClientRequest
  <2>. QED BY <2>1, HandleVerdict
<1>. HIDE DEF call
<1>4. CallInv(call)
  BY <1>1, <1>2, <1>3 DEF CallInv, ClientRequest
<1>. QED BY <1>4 DEF call

\* A forced apply by Flux: its entry covers everything it declares.
LEMMA ApplyCallInv ==
    ASSUME NEW o \in Objects, NEW m \in Manifests, NEW user, NEW op \in {"CREATE", "UPDATE"},
           op # "CREATE" => o # None
    PROVE  CallInv(Call([Request(op, "flux", user, o, FluxWrites(o, m))
                         EXCEPT !.declared = DeclaredLeaves(m)]))
<1>. DEFINE new == FluxWrites(o, m)
            req == [Request(op, "flux", user, o, new) EXCEPT !.declared = DeclaredLeaves(m)]
            mine == Entry(FluxManager, "Apply", DeclaredLeaves(m))
<1>1. new \in Objects /\ OwnerLabel \in Leaves
  BY FluxWritesType, AdmissionAssumption, HandlerAssumption
<1>2. mine \in FluxEntries(new.managedFields) /\ mine.fields = DeclaredLeaves(m)
  <2>1. mine \in new.managedFields
    BY DEF FluxWrites, Objects
  <2>2. DeclaredLeaves(m) # NoFields
    BY LeavesArePaths, FieldsAssumption DEF DeclaredLeaves
  <2>. QED BY <2>1, <2>2, AdmissionAssumption DEF FluxEntries, Entry
<1>3. \A l \in DeclaredLeaves(m) : Protected(new, l)
  <2>. SUFFICES ASSUME NEW l \in DeclaredLeaves(m) PROVE Protected(new, l)
    OBVIOUS
  <2>1. l \in FluxManagedFields(new.managedFields)
    BY <1>1, <1>2, FluxFields
  <2>2. IsPrefix(l, l)
    BY FieldPathsAssumption DEF DeclaredLeaves, IsPrefix
  <2>. QED BY <2>1, <2>2 DEF Protected
<1>4. \A l \in DeclaredLeaves(m) : new.doc[l] # Absent
  BY DEF FluxWrites, DeclaredLeaves, Present, Objects
<1>5. OwnerLabel \in DeclaredLeaves(m)
  <2>1. m[OwnerLabel] = Me /\ Me # Absent
    BY ProtectionAssumption, AdmissionAssumption, HandlerAssumption, FieldPathsAssumption
  <2>. QED BY <1>1, <2>1 DEF DeclaredLeaves, Present
<1>6. /\ req.by = "flux" /\ req.op = op /\ req.old = o /\ req.new = new
      /\ req.declared = DeclaredLeaves(m)
  BY DEF Request
<1>. HIDE DEF req, new
<1>7. Call(req).req = req /\ Call(req).ignore = {}
  BY DEF Call
<1>8. ~Waived({}, OwnerLabel) /\ ~Guarded(Call(req))
  BY <1>6, <1>7 DEF Waived, Guarded
<1>9. CallInv(Call(req))
  BY <1>3, <1>4, <1>5, <1>6, <1>7, <1>8 DEF CallInv
<1>. QED BY <1>9 DEF req, new

LEMMA PruneCallInv ==
    ASSUME NEW user, NEW o, o # None
    PROVE  CallInv(Call(Request("DELETE", "flux", user, o, o)))
BY DEF CallInv, Call, Request, Waived, Guarded

(***************************************************************************)
(* A read comes back.                                                      *)
(***************************************************************************)
LEMMA AnsweredInv ==
    ASSUME TypeOK, NEW call \in Calls, CallInv(call), NEW found \in BOOLEAN,
           call.decision.step \in OwnerReads \cup NamespaceReads
    PROVE  CallInv(Answered(call, found))
<1>. DEFINE answer == Answered(call, found)
            step == call.decision.step
            ignore == IF step = "ignore" THEN driftIgnoreSet(found, cache.owner) ELSE call.ignore
<1>1. /\ answer.req = call.req /\ answer.ignore = ignore
      /\ answer.decision = Resume(step, call.req, found, cache.owner, cache.ns)
      /\ answer.unlabelled =
            (call.unlabelled \/ (step = "scope" /\ found /\ ~cache.ns.labelled))
  BY DEF Answered, Calls
<1>2. cache.owner \in Owner
  BY DEF TypeOK
<1>3. ~Waived(ignore, OwnerLabel)
  <2>1. ~Waived(driftIgnoreSet(found, cache.owner), OwnerLabel)
    BY <1>2, ProtectionAssumption DEF driftIgnoreSet, Waived, Owner
  <2>. QED BY <2>1 DEF CallInv
<1>4. ASSUME Guarded(answer) PROVE Verdict(call.req, answer.decision, ignore)
  <2>1. ~Exempt(answer) /\ ~answer.unlabelled
    BY <1>4 DEF Guarded, Exempt
  <2>2. step # "unanswered"
    BY DEF OwnerReads, NamespaceReads
  <2>3. ~Exempt(call)
    BY <1>1, <2>1, <2>2 DEF Exempt
  <2>4. Guarded(call)
    BY <1>1, <1>4, <2>3 DEF Guarded
  <2>5. Judged(call.req)
    BY <2>4, GuardedIsJudged
  <2>6. Verdict(call.req, call.decision, call.ignore)
    BY <2>4 DEF CallInv
  <2>7. step \in {"scope", "owner", "ignore"}
        /\ (step = "ignore" => OldFluxFields(call.req) # Malformed /\ ~Arms(call.req))
    BY <2>6 DEF Verdict, OwnerReads, NamespaceReads
  <2>8. step = "scope" => ~(found /\ ~cache.ns.labelled)
    BY <1>1, <2>1
  <2>. QED BY <1>1, <1>2, <2>5, <2>7, <2>8, ResumeVerdict
<1>. HIDE DEF answer, ignore
<1>5. CallInv(answer)
  BY <1>1, <1>3, <1>4 DEF CallInv
<1>. QED BY <1>5 DEF answer

LEMMA UnansweredInv ==
    ASSUME NEW call \in Calls, CallInv(call)
    PROVE  CallInv([call EXCEPT !.decision = Unanswered])
<1>. DEFINE lost == [call EXCEPT !.decision = Unanswered]
<1>1. lost.req = call.req /\ lost.ignore = call.ignore /\ lost.decision.step = "unanswered"
  BY DEF Calls, Unanswered
<1>. HIDE DEF lost
<1>2. ~Guarded(lost)
  BY <1>1 DEF Guarded, Exempt
<1>3. CallInv(lost)
  BY <1>1, <1>2 DEF CallInv
<1>. QED BY <1>3 DEF lost

\* The clock of a call says nothing about it.
LEMMA SpentInv ==
    ASSUME NEW call \in Calls, CallInv(call), NEW spent
    PROVE  CallInv([call EXCEPT !.spent = spent])
<1>. DEFINE later == [call EXCEPT !.spent = spent]
<1>1. /\ later.req = call.req /\ later.ignore = call.ignore
      /\ later.decision = call.decision /\ later.unlabelled = call.unlabelled
  BY DEF Calls
<1>. HIDE DEF later
<1>2. Exempt(later) = Exempt(call)
  BY <1>1 DEF Exempt
<1>3. CallInv(later)
  BY <1>1, <1>2 DEF CallInv, Guarded
<1>. QED BY <1>3 DEF later

----------------------------------------------------------------------------
(***************************************************************************)
(* The calls of every action keep CallInv.                                 *)
(***************************************************************************)
CallsInv == \A s \in Slots : calls[s] # None => CallInv(calls[s])

LEMMA SubmitInv ==
    ASSUME TypeOK, CallsInv, NEW s \in Slots, NEW req, Submit(s, req), CallInv(Call(req))
    PROVE  CallsInv'
<1>1. calls' = [calls EXCEPT ![s] = Call(req)]
  BY DEF Submit
<1>2. \A t \in Slots : calls'[t] # None => CallInv(calls'[t])
  BY <1>1 DEF CallsInv, TypeOK
<1>. QED BY <1>2 DEF CallsInv

LEMMA ClientInv ==
    ASSUME TypeOK, CallsInv, NEW s \in Slots,
           \/ \E user \in Clients : \/ ClientCreate(s, user) \/ ClientUpdate(s, user)
                                   \/ ClientScale(s, user) \/ ClientDelete(s, user)
           \/ NamespaceTeardown(s)
    PROVE  CallsInv' /\ UNCHANGED <<obj, applied>>
<1>1. PICK req : Submit(s, req) /\ ClientRequest(req)
  BY ClientSubmits, TeardownSubmits
<1>2. CallInv(Call(req))
  BY <1>1, ClientCallInv
<1>. QED BY <1>1, <1>2, SubmitInv DEF Submit

LEMMA FluxInv ==
    ASSUME TypeOK, CallsInv, NEW s \in Slots, FluxApply(s) \/ FluxPrune(s)
    PROVE  CallsInv' /\ UNCHANGED <<obj, applied>>
<1>1. CASE FluxApply(s)
  <2>. DEFINE before == IF obj = None THEN NewObject(Nothing) ELSE obj
              op == IF obj = None THEN "CREATE" ELSE "UPDATE"
              req == [Request(op, "flux", Reconciler, before, FluxWrites(before, git))
                      EXCEPT !.declared = DeclaredLeaves(git)]
  <2>1. before \in Objects /\ git \in Manifests
    BY <1>1, NewObjectType DEF FluxApply, TypeOK
  <2>2. op \in {"CREATE", "UPDATE"} /\ (op # "CREATE" => before # None)
    OBVIOUS
  <2>3. Submit(s, req)
    BY <1>1 DEF FluxApply
  <2>. HIDE DEF before, op
  <2>4. CallInv(Call(req))
    BY <2>1, <2>2, ApplyCallInv
  <2>. HIDE DEF req
  <2>. QED BY <2>3, <2>4, SubmitInv DEF Submit
<1>2. CASE FluxPrune(s)
  <2>1. Submit(s, Request("DELETE", "flux", Reconciler, obj, obj)) /\ obj # None
    BY <1>2 DEF FluxPrune
  <2>2. CallInv(Call(Request("DELETE", "flux", Reconciler, obj, obj)))
    BY <2>1, PruneCallInv
  <2>. QED BY <2>1, <2>2, SubmitInv DEF Submit
<1>. QED BY <1>1, <1>2

LEMMA ReadInv ==
    ASSUME TypeOK, CallsInv, NEW s \in Slots,
           Read(s) \/ ReadFails(s) \/ ReadTimesOut(s) \/ CallLost(s)
    PROVE  CallsInv' /\ UNCHANGED <<obj, applied>>
<1>1. /\ calls[s] \in Calls /\ CallInv(calls[s])
      /\ calls[s].decision.step \in OwnerReads \cup NamespaceReads
  BY DEF Read, ReadFails, ReadTimesOut, CallLost, Reading, TypeOK, CallsInv
<1>2. \A found \in BOOLEAN : CallInv(Answered(calls[s], found))
  BY <1>1, AnsweredInv
<1>3. CallInv([calls[s] EXCEPT !.decision = Unanswered])
  BY <1>1, UnansweredInv
<1>4. \E call : CallInv(call) /\ calls' = [calls EXCEPT ![s] = call]
  <2>1. CASE Read(s)
    BY <1>2, <2>1 DEF Read
  <2>2. CASE ReadFails(s)
    BY <1>2, <2>2 DEF ReadFails
  <2>3. CASE ReadTimesOut(s)
    <3>. DEFINE spent == calls[s].spent + FetchTimeout
                lost == [calls[s] EXCEPT !.decision = Unanswered]
                call == IF spent > WebhookTimeout THEN lost ELSE Answered(calls[s], FALSE)
    <3>1. CallInv(call)
      BY <1>2, <1>3
    <3>2. call \in Calls
      <4>1. lost \in Calls
        BY <1>1 DEF Calls, Decisions, Unanswered
      <4>. QED BY <1>1, <4>1, AnsweredType
    <3>3. calls' = [calls EXCEPT ![s] = [call EXCEPT !.spent = spent]]
      BY <2>3 DEF ReadTimesOut
    <3>. HIDE DEF spent, call
    <3>. QED BY <3>1, <3>2, <3>3, SpentInv
  <2>4. CASE CallLost(s)
    BY <1>3, <2>4 DEF CallLost
  <2>. QED BY <2>1, <2>2, <2>3, <2>4
<1>5. \A t \in Slots : calls'[t] # None => CallInv(calls'[t])
  BY <1>4 DEF CallsInv, TypeOK
<1>. QED BY <1>5 DEF CallsInv, Read, ReadFails, ReadTimesOut, CallLost

----------------------------------------------------------------------------
(***************************************************************************)
(* What the API server commits.                                            *)
(***************************************************************************)
ObjectInv == DriftFree /\ StillOwned /\ LabelHeld

\* A guarded write: what is still protected has its value and its owner.
LEMMA GuardedCommit ==
    ASSUME OwnerLabel = KustomizeLabel, TypeOK, ObjectInv, CallsInv,
           NEW s \in Slots, CommitWrite(s), calls[s].req.by = "client",
           calls[s].req.op = "UPDATE", ~Exempt(calls[s]), applied # Nothing
    PROVE  \A l \in Leaves : applied[l] # Absent /\ ~Waived(calls[s].ignore, l) =>
              obj'.doc[l] = applied[l] /\ Protected(obj', l)
<1>. DEFINE call == calls[s]
<1>1. call \in Calls /\ CallInv(call) /\ obj = call.req.old /\ obj # None
  <2>1. call \in Calls /\ CallInv(call)
    BY DEF CommitWrite, Finished, TypeOK, CallsInv
  <2>2. obj = call.req.old
    BY DEF CommitWrite, Current
  <2>3. obj # None
    BY <2>1, <2>2 DEF CallInv
  <2>. QED BY <2>1, <2>2, <2>3
<1>2. OwnerLabel \in Leaves
  BY AdmissionAssumption, HandlerAssumption
<1>3. Present(call.req.old.doc, KustomizeLabel)
  BY <1>1, <1>2 DEF ObjectInv, DriftFree, LabelHeld, Present
<1>4. Guarded(call)
  BY <1>1, <1>3 DEF Guarded
<1>5. call.decision.step = "decided" /\ call.decision.allowed
  <2>1. ~AuditOnly /\ call.decision.step # "unanswered"
    BY <1>1, <1>4, GuardedIsJudged
  <2>. QED BY <2>1 DEF CommitWrite, Finished, Admitted, Response
<1>6. SoundUpdate(call.req, call.ignore)
  BY <1>1, <1>4, <1>5 DEF CallInv, Verdict
<1>7. obj' = call.req.new
  BY DEF CommitWrite
<1>. SUFFICES ASSUME NEW l \in Leaves, applied[l] # Absent, ~Waived(call.ignore, l)
              PROVE  obj'.doc[l] = applied[l] /\ Protected(obj', l)
  OBVIOUS
<1>8. Protected(call.req.old, l) /\ call.req.old.doc[l] = applied[l]
  BY <1>1 DEF ObjectInv, StillOwned, DriftFree, Protected
<1>9. call.req.new.doc[l] = call.req.old.doc[l] /\ Protected(call.req.new, l)
  BY <1>6, <1>8 DEF SoundUpdate
<1>. QED BY <1>7, <1>8, <1>9

LEMMA WriteInv ==
    ASSUME OwnerLabel = KustomizeLabel, TypeOK, ObjectInv, CallsInv,
           NEW s \in Slots, CommitWrite(s)
    PROVE  ObjectInv'
<1>. DEFINE call == calls[s]
<1>1. call \in Calls /\ CallInv(call)
  BY DEF CommitWrite, Finished, TypeOK, CallsInv
<1>2. obj' = call.req.new /\ applied' = AppliedAfter(call) /\ call.req.op # "DELETE"
  BY DEF CommitWrite
<1>3. OwnerLabel \in Leaves
  BY AdmissionAssumption, HandlerAssumption
<1>4. /\ call.req.op \in {"CREATE", "UPDATE"} /\ call.req.by \in {"client", "flux"}
      /\ call.req.declared \subseteq Leaves
  BY <1>1, <1>2 DEF Calls, Requests
<1>5. SUFFICES /\ \A l \in Leaves : applied'[l] # Absent =>
                      obj'.doc[l] = applied'[l] /\ Protected(obj', l)
               /\ applied' # Nothing => applied'[OwnerLabel] # Absent
  <2>1. DriftFree' /\ LabelHeld'
    BY <1>5 DEF DriftFree, LabelHeld, Nothing
  <2>2. StillOwned'
    BY <1>5 DEF StillOwned, Protected
  <2>. QED BY <2>1, <2>2 DEF ObjectInv
<1>6. CASE call.req.by = "flux"
  <2>1. applied' = [l \in Leaves |-> IF l \in call.req.declared THEN obj'.doc[l] ELSE Absent]
    BY <1>2, <1>6 DEF AppliedAfter
  <2>2. /\ OwnerLabel \in call.req.declared
        /\ \A l \in call.req.declared : obj'.doc[l] # Absent /\ Protected(obj', l)
    BY <1>1, <1>2, <1>6 DEF CallInv
  <2>. QED BY <1>3, <2>1, <2>2
<1>7. CASE call.req.by = "client" /\ (call.req.op = "CREATE" \/ Exempt(call))
  <2>1. applied' = Nothing
    BY <1>2, <1>7 DEF AppliedAfter
  <2>. QED BY <2>1 DEF Nothing
<1>8. CASE call.req.by = "client" /\ call.req.op = "UPDATE" /\ ~Exempt(call)
  <2>1. applied' = [l \in Leaves |-> IF Waived(call.ignore, l) THEN Absent ELSE applied[l]]
    BY <1>2, <1>8 DEF AppliedAfter, Waived
  <2>2. CASE applied = Nothing
    <3>1. applied' = Nothing
      BY <2>1, <2>2 DEF Nothing
    <3>. QED BY <3>1 DEF Nothing
  <2>3. CASE applied # Nothing
    <3>1. \A l \in Leaves : applied[l] # Absent /\ ~Waived(call.ignore, l) =>
             obj'.doc[l] = applied[l] /\ Protected(obj', l)
      BY <1>8, <2>3, GuardedCommit
    <3>2. applied[OwnerLabel] # Absent /\ ~Waived(call.ignore, OwnerLabel)
      BY <1>1, <2>3 DEF ObjectInv, LabelHeld, CallInv
    <3>. QED BY <1>3, <2>1, <3>1, <3>2
  <2>. QED BY <2>2, <2>3
<1>. QED BY <1>4, <1>6, <1>7, <1>8

LEMMA DeleteInv ==
    ASSUME TypeOK, ObjectInv, CallsInv, NEW s \in Slots, CommitDelete(s)
    PROVE  ObjectInv'
<1>1. obj # None /\ obj \in Objects
  <2>1. CallInv(calls[s]) /\ obj = calls[s].req.old /\ calls[s].req.op = "DELETE"
    BY DEF CommitDelete, Finished, Current, CallsInv
  <2>. QED BY <2>1 DEF CallInv, TypeOK
<1>2. CASE obj' = None /\ applied' = Nothing
  BY <1>2 DEF ObjectInv, DriftFree, StillOwned, LabelHeld
<1>3. CASE obj' = [obj EXCEPT !.deleting = TRUE] /\ UNCHANGED applied
  <2>1. obj'.doc = obj.doc /\ obj'.managedFields = obj.managedFields
    BY <1>1, <1>3 DEF Objects
  <2>. QED BY <1>1, <1>3, <2>1 DEF ObjectInv, DriftFree, StillOwned, LabelHeld, Nothing
<1>. QED BY <1>2, <1>3 DEF CommitDelete

LEMMA ReturnInv ==
    ASSUME TypeOK, CallsInv, NEW s \in Slots,
           CommitWrite(s) \/ CommitDelete(s) \/ Refused(s) \/ Conflicted(s)
    PROVE  CallsInv'
<1>1. calls' = [calls EXCEPT ![s] = None]
  BY DEF CommitWrite, CommitDelete, Refused, Conflicted, Return
<1>2. \A t \in Slots : calls'[t] # None => CallInv(calls'[t])
  BY <1>1 DEF CallsInv, TypeOK
<1>. QED BY <1>2 DEF CallsInv

----------------------------------------------------------------------------
(***************************************************************************)
(* The induction.                                                          *)
(***************************************************************************)
IInv == TypeOK /\ ObjectInv /\ CallsInv

LEMMA IInvInit == Init => IInv
<1>1. Init => ObjectInv /\ CallsInv
  BY DEF Init, ObjectInv, CallsInv, DriftFree, StillOwned, LabelHeld
<1>. QED BY <1>1, InitType DEF IInv

LEMMA IInvNext ==
    ASSUME OwnerLabel = KustomizeLabel PROVE IInv /\ [Next]_vars => IInv'
<1>. SUFFICES ASSUME IInv, [Next]_vars PROVE ObjectInv' /\ CallsInv'
  BY NextType DEF IInv
<1>. USE DEF IInv
<1>1. ASSUME UNCHANGED <<obj, applied>> PROVE ObjectInv'
  BY <1>1 DEF ObjectInv, DriftFree, StillOwned, LabelHeld, Nothing
<1>2. ASSUME NEW s \in Slots,
             \/ \E user \in Clients : \/ ClientCreate(s, user) \/ ClientUpdate(s, user)
                                     \/ ClientScale(s, user) \/ ClientDelete(s, user)
             \/ NamespaceTeardown(s)
      PROVE  ObjectInv' /\ CallsInv'
  BY <1>1, <1>2, ClientInv
<1>3. ASSUME NEW s \in Slots, FluxApply(s) \/ FluxPrune(s) PROVE ObjectInv' /\ CallsInv'
  BY <1>1, <1>3, FluxInv
<1>4. ASSUME NEW s \in Slots, Read(s) \/ ReadFails(s) \/ ReadTimesOut(s) \/ CallLost(s)
      PROVE  ObjectInv' /\ CallsInv'
  BY <1>1, <1>4, ReadInv
<1>5. ASSUME NEW s \in Slots, CommitWrite(s) PROVE ObjectInv' /\ CallsInv'
  BY <1>5, WriteInv, ReturnInv
<1>6. ASSUME NEW s \in Slots, CommitDelete(s) PROVE ObjectInv' /\ CallsInv'
  BY <1>6, DeleteInv, ReturnInv
<1>7. ASSUME NEW s \in Slots, Refused(s) \/ Conflicted(s) PROVE ObjectInv' /\ CallsInv'
  BY <1>1, <1>7, ReturnInv DEF Refused, Conflicted
<1>8. ASSUME \/ FluxRecordsInventory \/ GitChanges \/ OwnerChanges
             \/ NamespaceChanges \/ CacheSync
             \/ UNCHANGED vars
      PROVE  ObjectInv' /\ CallsInv'
  <2>1. UNCHANGED <<obj, applied, calls>>
    BY <1>8 DEF FluxRecordsInventory, GitChanges, OwnerChanges, NamespaceChanges, CacheSync, vars
  <2>. QED BY <1>1, <2>1 DEF CallsInv
<1>9. ASSUME Finalized PROVE ObjectInv' /\ CallsInv'
  BY <1>9 DEF Finalized, ObjectInv, DriftFree, StillOwned, LabelHeld, CallsInv
<1>. QED BY <1>2, <1>3, <1>4, <1>5, <1>6, <1>7, <1>8, <1>9 DEF Next

(***************************************************************************)
(* The invariant behind the two theorems below, for every set of writers,  *)
(* manifests, edits, ignore rules and faults that the assumptions allow.   *)
(***************************************************************************)
THEOREM ProtectionCorrect ==
    ASSUME OwnerLabel = KustomizeLabel PROVE Spec => []ProtectionInv
<1>1. IInv => ProtectionInv
  BY DEF IInv, ObjectInv, CallsInv, ProtectionInv
<1>. QED BY <1>1, IInvInit, IInvNext, PTL DEF Spec

(***************************************************************************)
(* Drift prevention: every field Flux applied has the value Flux gave it   *)
(* unless a write README.md exempts changed it.                            *)
(***************************************************************************)
THEOREM NoDrift ==
    ASSUME OwnerLabel = KustomizeLabel PROVE Spec => []DriftFree
<1>1. ProtectionInv => DriftFree
  BY DEF ProtectionInv
<1>. QED BY <1>1, ProtectionCorrect, PTL

(***************************************************************************)
(* The field check stays armed: what Flux applied stays in its entry of    *)
(* managedFields.                                                          *)
(***************************************************************************)
THEOREM OwnershipKept ==
    ASSUME OwnerLabel = KustomizeLabel PROVE Spec => []StillOwned
<1>1. ProtectionInv => StillOwned
  BY DEF ProtectionInv
<1>. QED BY <1>1, ProtectionCorrect, PTL

----------------------------------------------------------------------------
(***************************************************************************)
(* No false denial.  A path of the diff that lies on the branch of a Flux  *)
(* field lies above it, and is then a map in both documents, for the field *)
(* is a leaf that is there and has not changed: so it is not in the diff.  *)
(***************************************************************************)
LEMMA HarmlessHasNoConflict ==
    ASSUME NEW req \in Requests, Harmless(req), OwnedExists(req.old)
    PROVE  /\ UpdateConflict(req) = {}
           /\ OldFluxFields(req) # Malformed /\ NewFluxFields(req) # Malformed
           /\ OldFluxFields(req) \subseteq NewFluxFields(req)
<1>. DEFINE flux == FluxManagedFields(req.old.managedFields)
            o == req.old.doc
            n == req.new.doc
            diff == ComputeFieldDiff(o, n)
<1>1. req.old \in Objects /\ req.new \in Objects
  BY DEF Requests
<1>2. /\ OldFluxFields(req) = flux /\ OldFluxFields(req) # Malformed
      /\ NewFluxFields(req) = FluxManagedFields(req.new.managedFields)
      /\ NewFluxFields(req) # Malformed
  BY <1>1, FluxFields, FieldsAssumption DEF OldFluxFields, NewFluxFields, Harmless
<1>3. ASSUME NEW p \in diff, NEW f \in flux PROVE ~IsPrefix(p, f) /\ ~IsPrefix(f, p)
  <2>1. f \in Leaves /\ Present(o, f)
    BY <1>1, FluxFields DEF OwnedExists, FluxEntries
  <2>2. PICK l \in Leaves : IsPrefix(p, l) /\ o[l] # n[l]
    BY DEF ComputeFieldDiff, SameBelow
  <2>3. ~SameBranch(l, f) /\ flux \subseteq FluxManagedFields(req.new.managedFields)
    BY <2>2 DEF Harmless
  <2>4. p \in Seq(Elements) /\ f \in Seq(Elements) /\ l \in Seq(Elements)
    BY <2>1, PathsAreSequences, FieldPathsAssumption DEF ComputeFieldDiff, Nodes
  <2>5. ~IsPrefix(f, p)
    BY <2>2, <2>3, <2>4, PrefixTransitive DEF SameBranch
  <2>6. ASSUME IsPrefix(p, f) PROVE FALSE
    <3>1. p # f
      BY <2>2, <2>3 DEF SameBranch
    <3>2. IsPrefix(f, f)
      BY <2>4 DEF IsPrefix
    <3>3. o[f] = n[f]
      BY <2>1, <2>3, <3>2 DEF Harmless, SameBranch
    <3>4. IsStrictPrefix(p, f) /\ Present(n, f)
      BY <2>1, <2>6, <3>1, <3>3 DEF IsStrictPrefix, Present
    <3>5. p \notin ListPaths
      BY <2>2, <2>3, <2>6 DEF SameBranch
    <3>6. BothMaps(o, n, p)
      BY <2>1, <3>4, <3>5 DEF BothMaps, IsMap
    <3>. QED BY <3>6 DEF ComputeFieldDiff
  <2>. QED BY <2>5, <2>6
<1>4. GetConflictingFields(diff, flux) = {}
  <2>. HIDE DEF diff, flux
  <2>. QED BY <1>3 DEF GetConflictingFields, RecursiveDifference
<1>. QED BY <1>2, <1>4 DEF UpdateConflict, Harmless

LEMMA HarmlessIsSettled ==
    ASSUME NEW req \in Requests, Harmless(req), OwnedExists(req.old),
           req.user \in Clients \cup {NamespaceController}
    PROVE  /\ \A found : \A o \in Owner :
                 FluxInfo(req).isManaged => Settled(AfterOwner(req, found, o), {})
           /\ Settled(ManagementGate(req), {"owner"})
           /\ Settled(Handle(req), {"scope", "owner"})
<1>1. \A reason, steps : Settled(Allow(reason), steps)
  BY DEF Settled, Allow
<1>2. Settled(checkUpdateFieldConflict(req), {})
  <2>1. checkUpdateFieldConflict(req) \in
          {Allow("allowed_no_flux_managed_fields"), FinishUpdate(req, {})}
    BY HarmlessHasNoConflict DEF checkUpdateFieldConflict, Harmless
  <2>2. FinishUpdate(req, {}) = Allow("allowed_no_field_conflict")
    <3>1. /\ UpdateConflict(req) = {} /\ NewFluxFields(req) # Malformed
          /\ OldFluxFields(req) \ NewFluxFields(req) = {}
      BY HarmlessHasNoConflict
    <3>2. WaiveIgnoredConflicts({}, {}) = {}
      BY DEF WaiveIgnoredConflicts, RecursiveDifference
    <3>. QED BY <3>1, <3>2 DEF FinishUpdate
  <2>. QED BY <1>1, <2>1, <2>2
<1>3. Settled(NotOwner(req), {})
  <2>1. operationDecision(req) = checkUpdateFieldConflict(req)
    BY DEF operationDecision, Harmless
  <2>2. NotOwner(req) \in {Allow("allowed_bypass_annotation"), Allow("allowed_reconcile_disabled"),
                           checkUpdateFieldConflict(req)}
    BY <2>1 DEF NotOwner, Harmless
  <2>. QED BY <1>1, <1>2, <2>2
<1>4. FluxInfo(req).isManaged => Outsider(req)
  BY ManagedByValue DEF Outsider
<1>5. ASSUME NEW found, NEW o \in Owner, FluxInfo(req).isManaged
      PROVE  Settled(AfterOwner(req, found, o), {})
  BY <1>3, <1>4, <1>5, NeverOwning
<1>6. Settled(ManagementGate(req), {"owner"})
  <2>1. ManagementGate(req) \in
          {Allow("allowed_not_managed"), NotOwner(req), Await("owner")}
    BY <1>4, NeverBypassing DEF ManagementGate, Harmless
  <2>2. Settled(NotOwner(req), {"owner"}) /\ Settled(Await("owner"), {"owner"})
    BY <1>3 DEF Settled, Await
  <2>. QED BY <1>1, <2>1, <2>2
<1>7. Settled(Handle(req), {"scope", "owner"})
  <2>1. Handle(req) \in
          {Allow("allowed_subresource"), Allow("allowed_excluded_group"),
           Allow("allowed_namespace_filter"), Await("scope"), ManagementGate(req)}
    BY DEF Handle
  <2>2. /\ Settled(ManagementGate(req), {"scope", "owner"})
        /\ Settled(Await("scope"), {"scope", "owner"})
    BY <1>6 DEF Settled, Await
  <2>. QED BY <1>1, <2>1, <2>2
<1>. QED BY <1>5, <1>6, <1>7

----------------------------------------------------------------------------
(***************************************************************************)
(* A delete that protection applies to.  It is held: it waits, or is       *)
(* denied, as long as its namespace is not seen terminating.               *)
(***************************************************************************)
JudgedDelete(req) ==
    /\ req \in Requests /\ req.op = "DELETE"
    /\ req.user \in Clients \cup {NamespaceController}
    /\ Present(req.old.doc, KustomizeLabel)
    /\ ~HasBypassAnnotation(req.old.doc) /\ ~IsReconcileDisabled(req.old.doc)
    /\ ~req.old.deleting
    /\ FluxManagedFields(req.old.managedFields) # {}
    /\ ~IsSystemController(req.user, SystemControllerSAs)

Held(decision, steps) ==
    decision.step \in steps \/ (decision.step = "decided" /\ ~decision.allowed)

LEMMA DeleteIsHeld ==
    ASSUME NEW req, JudgedDelete(req)
    PROVE  /\ Outsider(req)
           /\ Held(operationDecision(req), {})
           /\ Held(NotOwner(req), {"terminating"})
           /\ Held(ManagementGate(req), {"owner", "terminating"})
<1>1. \A reason, steps : Held(Deny(reason), steps)
  BY DEF Held, Deny
<1>2. Held(operationDecision(req), {})
  <2>1. OldFluxFields(req) = Malformed \/ OldFluxFields(req) # {}
    BY DEF OldFluxFields, JudgedDelete
  <2>2. operationDecision(req) = checkDeleteManaged(req)
    BY DEF operationDecision, JudgedDelete
  <2>3. checkDeleteManaged(req) \in
          {Deny("denied_managed_fields_error"), Deny("denied_delete_flux_managed")}
    BY <2>1 DEF checkDeleteManaged, JudgedDelete
  <2>. QED BY <1>1, <2>2, <2>3
<1>3. Held(NotOwner(req), {"terminating"})
  <2>1. NotOwner(req) \in {Await("terminating"), operationDecision(req)}
    BY DEF NotOwner, checkBypassAnnotation, checkReconcileDisabled, PreRequest, JudgedDelete
  <2>2. /\ Held(operationDecision(req), {"terminating"})
        /\ Held(Await("terminating"), {"terminating"})
    BY <1>2 DEF Held, Await
  <2>. QED BY <2>1, <2>2
<1>4. FluxInfo(req).isManaged
  BY DEF FluxInfo, ObjMeta, GetFluxManagementInfo, JudgedDelete
<1>5. Outsider(req)
  BY <1>4, ManagedByValue DEF Outsider, JudgedDelete
<1>6. Held(ManagementGate(req), {"owner", "terminating"})
  <2>1. ManagementGate(req) \in {Deny("denied_metadata_error"), NotOwner(req), Await("owner")}
    BY <1>4, <1>5, NeverBypassing DEF ManagementGate
  <2>2. /\ Held(NotOwner(req), {"owner", "terminating"})
        /\ Held(Await("owner"), {"owner", "terminating"})
    BY <1>3 DEF Held, Await
  <2>. QED BY <1>1, <2>1, <2>2
<1>. QED BY <1>2, <1>3, <1>5, <1>6

DeleteReads == {"scope", "owner", "terminating"}

LEMMA HandleHeld ==
    ASSUME NEW req, JudgedDelete(req),
           ~req.subresource, ~ExcludedGroup, Namespace # "excluded"
    PROVE  Held(Handle(req), DeleteReads)
<1>1. Handle(req) \in {Await("scope"), ManagementGate(req)}
  BY DEF Handle
<1>2. Held(Await("scope"), DeleteReads) /\ Held(ManagementGate(req), DeleteReads)
  BY DeleteIsHeld DEF Held, Await, DeleteReads
<1>. QED BY <1>1, <1>2

LEMMA ResumeHeld ==
    ASSUME NEW req, JudgedDelete(req), NEW step \in DeleteReads,
           NEW found, NEW o \in Owner, NEW n,
           step = "scope" => ~(found /\ ~n.labelled), ~n.terminating
    PROVE  Held(Resume(step, req, found, o, n), DeleteReads)
<1>1. CASE step = "scope"
  <2>1. Resume(step, req, found, o, n) = ManagementGate(req)
    BY <1>1 DEF Resume, AfterScope
  <2>. QED BY <2>1, DeleteIsHeld DEF Held, DeleteReads
<1>2. CASE step = "owner"
  <2>1. Resume(step, req, found, o, n) = NotOwner(req)
    BY <1>2, DeleteIsHeld, NeverOwning DEF Resume
  <2>. QED BY <2>1, DeleteIsHeld DEF Held, DeleteReads
<1>3. CASE step = "terminating"
  <2>1. Resume(step, req, found, o, n) = operationDecision(req)
    BY <1>3 DEF Resume, AfterTerminating
  <2>. QED BY <2>1, DeleteIsHeld DEF Held
<1>. QED BY <1>1, <1>2, <1>3 DEF DeleteReads

----------------------------------------------------------------------------
(***************************************************************************)
(* The induction behind both: Flux owns only what is there, the cache sees *)
(* a namespace terminate only after it does, a harmless update is never    *)
(* refused and a guarded delete is held.  It needs nothing of the kind of  *)
(* owner.                                                                  *)
(***************************************************************************)
HarmlessInv(call) ==
    Harmless(call.req) =>
        /\ Settled(call.decision, {"scope", "owner"})
        /\ call.decision.step = "owner" => FluxInfo(call.req).isManaged

DeleteInvOf(call) ==
    /\ call.req.by = "client" /\ JudgedDelete(call.req)
    /\ ~Exempt(call) /\ ~ns.terminating
    => Held(call.decision, DeleteReads)

ClientCallOK(call) ==
    /\ OwnedExists(call.req.old) /\ OwnedExists(call.req.new)
    /\ call.req.by = "client" => call.req.user \in Clients \cup {NamespaceController}
    /\ HarmlessInv(call) /\ DeleteInvOf(call)

\* The handler reads the owner of a managed object only.
LEMMA ManagedOwner ==
    ASSUME NEW req
    PROVE  /\ ManagementGate(req).step = "owner" => FluxInfo(req).isManaged
           /\ Handle(req).step = "owner" => FluxInfo(req).isManaged
BY DEF Handle, ManagementGate, Allow, Deny, Await

ClientsInv ==
    /\ cache.ns.terminating => ns.terminating
    /\ obj # None => OwnedExists(obj)
    /\ \A s \in Slots : calls[s] # None => ClientCallOK(calls[s])

LEMMA SubmittedOK ==
    ASSUME obj # None => OwnedExists(obj),
           NEW req \in Requests, ClientRequest(req) \/ FluxRequest(req)
    PROVE  ClientCallOK(Call(req))
<1>. DEFINE call == Call(req)
<1>1. call.req = req /\ call.decision = Handle(req)
  BY DEF Call
<1>2. OwnedExists(req.old) /\ OwnedExists(req.new)
  BY DEF ClientRequest, FluxRequest, OwnedStays
<1>3. req.by = "client" => req.user \in Clients \cup {NamespaceController}
  BY DEF ClientRequest, FluxRequest
<1>4. HarmlessInv(call)
  BY <1>1, <1>2, <1>3, HarmlessIsSettled, ManagedOwner DEF HarmlessInv, Harmless
<1>5. DeleteInvOf(call)
  BY <1>1, HandleHeld DEF DeleteInvOf, Exempt
<1>. HIDE DEF call
<1>6. ClientCallOK(call)
  BY <1>1, <1>2, <1>3, <1>4, <1>5 DEF ClientCallOK
<1>. QED BY <1>6 DEF call

LEMMA AnsweredOK ==
    ASSUME TypeOK, cache.ns.terminating => ns.terminating,
           NEW call, Waiting(call), ClientCallOK(call), NEW found \in BOOLEAN
    PROVE  ClientCallOK(Answered(call, found))
<1>. DEFINE answer == Answered(call, found)
            step == call.decision.step
            req == call.req
<1>1. /\ answer.req = req
      /\ answer.decision = Resume(step, req, found, cache.owner, cache.ns)
      /\ answer.unlabelled = (call.unlabelled \/ (step = "scope" /\ found /\ ~cache.ns.labelled))
      /\ cache.owner \in Owner /\ req \in Requests
  BY DEF Answered, Waiting, Calls, TypeOK
<1>2. step \notin {"decided", "unanswered"}
  BY DEF Waiting, OwnerReads, NamespaceReads
<1>3. HarmlessInv(answer)
  <2>. SUFFICES ASSUME Harmless(req)
                PROVE  /\ Settled(answer.decision, {"scope", "owner"})
                       /\ answer.decision.step = "owner" => FluxInfo(req).isManaged
    BY <1>1 DEF HarmlessInv
  <2>1. /\ step \in {"scope", "owner"} /\ OwnedExists(req.old)
        /\ req.user \in Clients \cup {NamespaceController}
        /\ step = "owner" => FluxInfo(req).isManaged
    BY <1>2 DEF ClientCallOK, HarmlessInv, Settled, Harmless
  <2>2. CASE step = "scope"
    <3>1. answer.decision \in {Allow("allowed_namespace_filter"), ManagementGate(req)}
      BY <1>1, <2>2 DEF Resume, AfterScope
    <3>2. Settled(ManagementGate(req), {"owner"})
      BY <1>1, <2>1, HarmlessIsSettled
    <3>. QED BY <3>1, <3>2, ManagedOwner DEF Settled, Allow
  <2>3. CASE step = "owner"
    <3>1. answer.decision = AfterOwner(req, found, cache.owner)
      BY <1>1, <2>3 DEF Resume
    <3>2. Settled(answer.decision, {})
      BY <1>1, <2>1, <2>3, <3>1, HarmlessIsSettled
    <3>. QED BY <2>1, <2>3, <3>2 DEF Settled
  <2>. QED BY <2>1, <2>2, <2>3
<1>4. DeleteInvOf(answer)
  <2>. SUFFICES ASSUME req.by = "client", JudgedDelete(req), ~Exempt(answer), ~ns.terminating
                PROVE  Held(answer.decision, DeleteReads)
    BY <1>1 DEF DeleteInvOf
  <2>1. ~Exempt(call) /\ (step = "scope" => ~(found /\ ~cache.ns.labelled))
    BY <1>1, <1>2 DEF Exempt
  <2>2. step \in DeleteReads
    BY <1>2, <2>1 DEF ClientCallOK, DeleteInvOf, Held
  <2>. QED BY <1>1, <2>1, <2>2, ResumeHeld
<1>. HIDE DEF answer
<1>5. ClientCallOK(answer)
  BY <1>1, <1>3, <1>4 DEF ClientCallOK
<1>. QED BY <1>5 DEF answer

LEMMA LostOK ==
    ASSUME NEW call \in Calls, ClientCallOK(call)
    PROVE  ClientCallOK([call EXCEPT !.decision = Unanswered])
<1>. DEFINE lost == [call EXCEPT !.decision = Unanswered]
<1>1. lost.req = call.req /\ lost.decision.step = "unanswered"
  BY DEF Calls, Unanswered
<1>. HIDE DEF lost
<1>2. HarmlessInv(lost) /\ DeleteInvOf(lost)
  BY <1>1 DEF HarmlessInv, DeleteInvOf, Settled, Exempt
<1>3. ClientCallOK(lost)
  BY <1>1, <1>2 DEF ClientCallOK
<1>. QED BY <1>3 DEF lost

\* Neither the clock of a call nor the rest of the world says anything about it.
LEMMA LaterOK ==
    ASSUME NEW call, ClientCallOK(call), NEW later,
           later.req = call.req, later.decision = call.decision,
           later.unlabelled = call.unlabelled,
           ns.terminating => ns'.terminating
    PROVE  ClientCallOK(later) /\ ClientCallOK(later)'
<1>1. Exempt(later) = Exempt(call)
  BY DEF Exempt
<1>. QED BY <1>1 DEF ClientCallOK, HarmlessInv, DeleteInvOf, Exempt

\* How a step changes the object: it is what some call asked for, or marked as
\* deleting, or gone.
LEMMA ObjectStep ==
    ASSUME TypeOK, [Next]_vars
    PROVE  \/ obj' = obj \/ obj' = None
           \/ \E s \in Slots : calls[s] # None /\ obj' = calls[s].req.new
           \/ \E s \in Slots :
                 /\ calls[s] # None /\ obj = calls[s].req.old /\ obj \in Objects
                 /\ obj' = [obj EXCEPT !.deleting = TRUE]
<1>1. ASSUME NEW s \in Slots, NEW user \in Clients,
             \/ ClientCreate(s, user) \/ ClientUpdate(s, user)
             \/ ClientScale(s, user) \/ ClientDelete(s, user)
      PROVE  obj' = obj
  BY <1>1 DEF ClientCreate, ClientUpdate, ClientScale, ClientDelete, Submit
<1>2. ASSUME NEW s \in Slots,
             \/ NamespaceTeardown(s) \/ FluxApply(s) \/ FluxPrune(s)
             \/ Read(s) \/ ReadFails(s) \/ ReadTimesOut(s) \/ CallLost(s)
             \/ Refused(s) \/ Conflicted(s)
      PROVE  obj' = obj
  BY <1>2 DEF NamespaceTeardown, FluxApply, FluxPrune, Submit, Read, ReadFails,
              ReadTimesOut, CallLost, Refused, Conflicted
<1>3. ASSUME NEW s \in Slots, CommitWrite(s)
      PROVE  calls[s] # None /\ obj' = calls[s].req.new
  BY <1>3 DEF CommitWrite, Finished
<1>4. ASSUME NEW s \in Slots, CommitDelete(s)
      PROVE  \/ obj' = None
             \/ /\ calls[s] # None /\ obj = calls[s].req.old /\ obj \in Objects
                /\ obj' = [obj EXCEPT !.deleting = TRUE]
  <2>1. calls[s] \in Calls /\ calls[s] # None /\ obj = calls[s].req.old
    BY <1>4 DEF CommitDelete, Finished, Current, TypeOK
  <2>2. obj \in Objects
    BY <2>1 DEF Calls, Requests
  <2>. QED BY <1>4, <2>1, <2>2 DEF CommitDelete
<1>5. ASSUME \/ FluxRecordsInventory \/ GitChanges \/ OwnerChanges
             \/ NamespaceChanges \/ CacheSync \/ Finalized
             \/ UNCHANGED vars
      PROVE  obj' = obj \/ obj' = None
  BY <1>5 DEF FluxRecordsInventory, GitChanges, OwnerChanges, NamespaceChanges, CacheSync,
              Finalized, vars
<1>. QED BY <1>1, <1>2, <1>3, <1>4, <1>5 DEF Next

\* A namespace never comes back from terminating, and the cache follows it.
LEMMA TerminatingStep ==
    ASSUME TypeOK, [Next]_vars, cache.ns.terminating => ns.terminating
    PROVE  /\ ns.terminating => ns'.terminating
           /\ cache'.ns.terminating => ns'.terminating
<1>1. CASE NamespaceChanges
  <2>1. cache' = cache /\ (ns.terminating => ns'.terminating)
    BY <1>1 DEF NamespaceChanges, TypeOK, NS
  <2>. QED BY <2>1
<1>2. CASE CacheSync
  <2>1. ns' = ns /\ cache'.ns \in {cache.ns, ns}
    BY <1>2 DEF CacheSync, TypeOK
  <2>. QED BY <2>1
<1>3. CASE ~NamespaceChanges /\ ~CacheSync
  <2>1. UNCHANGED <<ns, cache>>
    BY <1>3 DEF Next, vars, ClientCreate, ClientUpdate, ClientScale, ClientDelete,
          NamespaceTeardown, FluxApply, FluxPrune, Submit, Read, ReadFails, ReadTimesOut,
          CallLost, CommitWrite, CommitDelete, Refused, Conflicted, Return,
          FluxRecordsInventory, GitChanges, OwnerChanges, Finalized
  <2>. QED BY <2>1
<1>. QED BY <1>1, <1>2, <1>3

\* A request is committed by CommitWrite or CommitDelete only.
LEMMA CommitStep ==
    ASSUME TypeOK, [Next]_vars, NEW s \in Slots, Commits(s)
    PROVE  IF calls[s].req.op = "DELETE" THEN CommitDelete(s) ELSE CommitWrite(s)
<1>1. DOMAIN calls = Slots
  BY DEF TypeOK
<1>2. ASSUME NEW t \in Slots, NEW req, Submit(t, req) PROVE FALSE
  BY <1>1, <1>2 DEF Submit, Commits
<1>3. ASSUME NEW t \in Slots, NEW user \in Clients,
             \/ ClientCreate(t, user) \/ ClientUpdate(t, user)
             \/ ClientScale(t, user) \/ ClientDelete(t, user)
      PROVE  FALSE
  BY <1>2, <1>3, ClientSubmits
<1>4. ASSUME NEW t \in Slots, NamespaceTeardown(t) \/ FluxApply(t) \/ FluxPrune(t)
      PROVE  FALSE
  BY <1>2, <1>4, TeardownSubmits, FluxSubmits
<1>5. ASSUME NEW t \in Slots,
             \/ Read(t) \/ ReadFails(t) \/ ReadTimesOut(t) \/ CallLost(t)
             \/ Refused(t) \/ Conflicted(t)
      PROVE  FALSE
  BY <1>5 DEF Read, ReadFails, ReadTimesOut, CallLost, Refused, Conflicted, Commits
<1>6. ASSUME NEW t \in Slots, CommitWrite(t) \/ CommitDelete(t) PROVE t = s
  BY <1>1, <1>6 DEF CommitWrite, CommitDelete, Return, Commits
<1>7. ASSUME \/ FluxRecordsInventory \/ GitChanges \/ OwnerChanges
             \/ NamespaceChanges \/ CacheSync \/ Finalized
             \/ UNCHANGED vars
      PROVE  FALSE
  BY <1>7 DEF FluxRecordsInventory, GitChanges, OwnerChanges, NamespaceChanges, CacheSync,
              Finalized, vars, Commits
<1>8. CommitWrite(s) \/ CommitDelete(s)
  BY <1>3, <1>4, <1>5, <1>6, <1>7 DEF Next
<1>. QED BY <1>8 DEF CommitWrite, CommitDelete

LEMMA ClientsNext == TypeOK /\ ClientsInv /\ [Next]_vars => ClientsInv'
<1>. SUFFICES ASSUME TypeOK, ClientsInv, [Next]_vars PROVE ClientsInv'
  OBVIOUS
<1>1. /\ cache.ns.terminating => ns.terminating
      /\ obj # None => OwnedExists(obj)
      /\ \A s \in Slots : calls[s] # None => ClientCallOK(calls[s])
  BY DEF ClientsInv
<1>2. /\ ns.terminating => ns'.terminating
      /\ cache'.ns.terminating => ns'.terminating
  BY <1>1, TerminatingStep
<1>3. obj' # None => OwnedExists(obj')
  <2>1. CASE \E s \in Slots : calls[s] # None /\ obj' = calls[s].req.new
    BY <1>1, <2>1 DEF ClientCallOK
  <2>2. ASSUME NEW s \in Slots, calls[s] # None, obj = calls[s].req.old, obj \in Objects,
               obj' = [obj EXCEPT !.deleting = TRUE]
        PROVE  OwnedExists(obj')
    <3>1. obj'.doc = obj.doc /\ obj'.managedFields = obj.managedFields
      BY <2>2 DEF Objects
    <3>. QED BY <1>1, <2>2, <3>1 DEF OwnedExists, ClientCallOK
  <2>. QED BY <1>1, <2>1, <2>2, ObjectStep
<1>4. ASSUME NEW s \in Slots, calls'[s] # None PROVE ClientCallOK(calls[s])'
  <2>1. CASE calls'[s] = calls[s]
    BY <1>1, <1>2, <1>4, <2>1, LaterOK
  <2>2. ASSUME NEW req \in Requests, calls'[s] = Call(req), ClientRequest(req) \/ FluxRequest(req)
        PROVE  ClientCallOK(calls[s])'
    BY <1>1, <1>2, <2>2, SubmittedOK, LaterOK
  <2>3. ASSUME Waiting(calls[s]), calls[s] # None, NEW spent \in Nat, NEW call \in Calls,
               calls'[s] = [call EXCEPT !.spent = spent],
               \/ call = [calls[s] EXCEPT !.decision = Unanswered]
               \/ \E found \in BOOLEAN : call = Answered(calls[s], found)
        PROVE  ClientCallOK(calls[s])'
    <3>1. ClientCallOK(calls[s]) /\ calls[s] \in Calls
      BY <1>1, <2>3 DEF Waiting
    <3>2. ASSUME NEW found \in BOOLEAN, call = Answered(calls[s], found)
          PROVE  ClientCallOK(call)
      BY <1>1, <2>3, <3>1, <3>2, AnsweredOK
    <3>3. ClientCallOK(call)
      BY <2>3, <3>1, <3>2, LostOK
    <3>4. /\ calls'[s].req = call.req /\ calls'[s].decision = call.decision
          /\ calls'[s].unlabelled = call.unlabelled
      BY <2>3 DEF Calls
    <3>. QED BY <1>2, <3>3, <3>4, LaterOK
  <2>. QED BY <1>4, <2>1, <2>2, <2>3, CallStep
<1>. QED BY <1>2, <1>3, <1>4 DEF ClientsInv

LEMMA ClientsCorrect == Spec => []ClientsInv
<1>1. Init => ClientsInv
  BY DEF Init, ClientsInv
<1>. QED BY <1>1, ClientsNext, TypeCorrect, PTL DEF Spec

(***************************************************************************)
(* No false denial, for every kind of owner: an update that leaves alone   *)
(* every branch and list Flux owns a field of, keeps Flux's managedFields  *)
(* and arms no annotation is admitted whatever the cache answers           *)
(* (checkUpdateFieldConflict).                                             *)
(***************************************************************************)
THEOREM NoFalseDenial == Spec => []HarmlessAdmitted
<1>1. ClientsInv => HarmlessAdmitted
  BY DEF ClientsInv, ClientCallOK, HarmlessInv, Settled, HarmlessAdmitted
<1>. QED BY <1>1, ClientsCorrect, PTL

(***************************************************************************)
(* A live object Flux applied is deleted only by its reconciler, a         *)
(* control-plane controller of the allow-list, the teardown of its         *)
(* namespace or a write exempt from protection (checkDeleteManaged).       *)
(***************************************************************************)
THEOREM DeletionIsGuarded ==
    ASSUME OwnerLabel = KustomizeLabel PROVE Spec => DeletionGuarded
<1>. DEFINE Judging ==
       \A s \in Slots :
         /\ Commits(s) /\ calls[s].req.op = "DELETE"
         /\ ~obj.deleting /\ applied # Nothing
         => \/ calls[s].req.by = "flux"
            \/ IsSystemController(calls[s].req.user, SystemControllerSAs)
            \/ ns.terminating
            \/ Exempt(calls[s])
<1>1. IInv /\ ClientsInv /\ [Next]_vars => Judging
  <2>. SUFFICES ASSUME IInv, ClientsInv, [Next]_vars, NEW s \in Slots,
                       Commits(s), calls[s].req.op = "DELETE",
                       ~obj.deleting, applied # Nothing,
                       calls[s].req.by # "flux", ~ns.terminating, ~Exempt(calls[s]),
                       ~IsSystemController(calls[s].req.user, SystemControllerSAs)
                PROVE  FALSE
    OBVIOUS
  <2>. DEFINE call == calls[s]
  <2>1. call \in Calls /\ ClientCallOK(call) /\ CallInv(call) /\ call.req.by = "client"
    BY DEF IInv, TypeOK, ClientsInv, CallsInv, Commits, Calls, Requests
  <2>2. CommitDelete(s)
    BY CommitStep DEF IInv
  <2>3. obj = call.req.old /\ obj \in Objects /\ obj # None
    BY <2>1, <2>2 DEF CommitDelete, Current, CallInv, Calls, Requests
  <2>4. Present(obj.doc, KustomizeLabel) /\ FluxManagedFields(obj.managedFields) # {}
    <3>1. KustomizeLabel \in Leaves /\ applied[KustomizeLabel] # Absent
      BY HandlerAssumption DEF IInv, ObjectInv, LabelHeld
    <3>. QED BY <2>3, <3>1 DEF IInv, ObjectInv, DriftFree, StillOwned, Present
  <2>5. JudgedDelete(call.req)
    BY <2>1, <2>3, <2>4 DEF JudgedDelete, Calls, ClientCallOK, Exempt, Present
  <2>6. Held(call.decision, DeleteReads)
    BY <2>1, <2>5 DEF ClientCallOK, DeleteInvOf
  <2>7. call.decision.step = "decided" /\ call.decision.allowed
    <3>1. call.decision.step # "unanswered" /\ ~AuditOnly
      BY DEF Exempt
    <3>. QED BY <2>2, <3>1 DEF CommitDelete, Finished, Admitted, Response
  <2>. QED BY <2>6, <2>7 DEF Held, DeleteReads
<1>2. Spec => []IInv
  BY IInvInit, IInvNext, PTL DEF Spec
<1>3. Spec => [][Judging]_vars
  BY <1>1, <1>2, ClientsCorrect, PTL DEF Spec
<1>. QED BY <1>3 DEF DeletionGuarded

----------------------------------------------------------------------------
\* Where what a call remembers comes from.

LEMMA ClientSourced ==
    ASSUME NEW req, ClientRequest(req) PROVE Sourced(Call(req))
BY DEF ClientRequest, Call, Sourced, Scaled

LEMMA ApplySourced ==
    ASSUME NEW user, NEW op, NEW o \in Objects, NEW m \in Manifests
    PROVE  Sourced(Call([Request(op, "flux", user, o, FluxWrites(o, m))
                         EXCEPT !.declared = DeclaredLeaves(m)]))
<1>. DEFINE new == FluxWrites(o, m)
            req == [Request(op, "flux", user, o, new) EXCEPT !.declared = DeclaredLeaves(m)]
<1>1. m \in [Leaves -> Values \cup {Absent}]
  BY AdmissionAssumption, DocsAreFunctions
<1>2. \A l \in DeclaredLeaves(m) : new.doc[l] = m[l]
  BY DEF FluxWrites, DeclaredLeaves, Objects
<1>3. req.new = new /\ req.declared = DeclaredLeaves(m) /\ ~req.subresource
  BY DEF Request
<1>. HIDE DEF new, req
<1>4. \A l \in Leaves : Granted(req)[l] = m[l]
  BY <1>2, <1>3 DEF Granted, DeclaredLeaves, Present
<1>5. Granted(req) = m
  BY <1>1, <1>4 DEF Granted
<1>6. Call(req).req = req /\ Call(req).ignore = {} /\ ~Call(req).unlabelled
  BY DEF Call
<1>7. Sourced(Call(req))
  BY <1>3, <1>5, <1>6 DEF Sourced
<1>. QED BY <1>7 DEF new, req

LEMMA PruneSourced ==
    ASSUME NEW user, NEW o PROVE Sourced(Call(Request("DELETE", "flux", user, o, o)))
BY DEF Call, Request, Sourced

LEMMA AnsweredSourced ==
    ASSUME TypeOK, RefinementInv, NEW call \in Calls, Sourced(call), NEW found \in BOOLEAN
    PROVE  Sourced(Answered(call, found))
<1>. DEFINE answer == Answered(call, found)
            ignore == IF call.decision.step = "ignore"
                      THEN driftIgnoreSet(found, cache.owner) ELSE call.ignore
            left == call.decision.step = "scope" /\ found /\ ~cache.ns.labelled
<1>1. answer.req = call.req /\ answer.ignore = ignore
  BY DEF Answered, Calls
<1>2. answer.unlabelled = (call.unlabelled \/ left)
  BY DEF Answered, Calls
<1>3. ignore \in (IgnoreSets \ {Malformed}) \cup {{}}
  BY DEF Sourced, driftIgnoreSet, TypeOK, Owner
<1>4. left => NamespaceLabel
  BY DEF RefinementInv, Labellings
<1>. HIDE DEF answer, ignore, left
<1>5. Sourced(answer)
  BY <1>1, <1>2, <1>3, <1>4 DEF Sourced
<1>. QED BY <1>5 DEF answer

\* The decision and the clock of a call say nothing about its sources.
LEMMA LaterSourced ==
    ASSUME NEW call \in Calls, Sourced(call), NEW spent
    PROVE  /\ Sourced([call EXCEPT !.decision = Unanswered])
           /\ Sourced([call EXCEPT !.spent = spent])
BY DEF Sourced, Calls

CallsSourced == \A s \in Slots : calls[s] # None => Sourced(calls[s])

LEMMA SubmitSourced ==
    ASSUME TypeOK, CallsSourced, NEW s \in Slots, NEW req, Submit(s, req), Sourced(Call(req))
    PROVE  CallsSourced'
<1>1. calls' = [calls EXCEPT ![s] = Call(req)]
  BY DEF Submit
<1>2. \A t \in Slots : calls'[t] # None => Sourced(calls'[t])
  BY <1>1 DEF CallsSourced, TypeOK
<1>. QED BY <1>2 DEF CallsSourced

LEMMA SubmittedSourced ==
    ASSUME TypeOK, CallsSourced, NEW s \in Slots,
           \/ \E user \in Clients : \/ ClientCreate(s, user) \/ ClientUpdate(s, user)
                                   \/ ClientScale(s, user) \/ ClientDelete(s, user)
           \/ NamespaceTeardown(s) \/ FluxApply(s) \/ FluxPrune(s)
    PROVE  CallsSourced' /\ UNCHANGED <<obj, ns, cache, applied>>
<1>1. CASE FluxApply(s)
  <2>. DEFINE before == IF obj = None THEN NewObject(Nothing) ELSE obj
              op == IF obj = None THEN "CREATE" ELSE "UPDATE"
              req == [Request(op, "flux", Reconciler, before, FluxWrites(before, git))
                      EXCEPT !.declared = DeclaredLeaves(git)]
  <2>1. before \in Objects /\ git \in Manifests
    BY <1>1, NewObjectType DEF FluxApply, TypeOK
  <2>2. Submit(s, req)
    BY <1>1 DEF FluxApply
  <2>. HIDE DEF before, op
  <2>3. Sourced(Call(req))
    BY <2>1, ApplySourced
  <2>. HIDE DEF req
  <2>. QED BY <2>2, <2>3, SubmitSourced DEF Submit
<1>2. CASE FluxPrune(s)
  <2>1. Submit(s, Request("DELETE", "flux", Reconciler, obj, obj))
    BY <1>2 DEF FluxPrune
  <2>. QED BY <2>1, PruneSourced, SubmitSourced DEF Submit
<1>3. CASE \/ \E user \in Clients : \/ ClientCreate(s, user) \/ ClientUpdate(s, user)
                                   \/ ClientScale(s, user) \/ ClientDelete(s, user)
           \/ NamespaceTeardown(s)
  <2>1. PICK req : Submit(s, req) /\ ClientRequest(req)
    BY <1>3, ClientSubmits, TeardownSubmits
  <2>. QED BY <2>1, ClientSourced, SubmitSourced DEF Submit
<1>. QED BY <1>1, <1>2, <1>3

LEMMA ReadSourced ==
    ASSUME TypeOK, RefinementInv, NEW s \in Slots,
           Read(s) \/ ReadFails(s) \/ ReadTimesOut(s) \/ CallLost(s)
    PROVE  CallsSourced' /\ UNCHANGED <<obj, ns, cache, applied>>
<1>1. /\ calls[s] \in Calls /\ Sourced(calls[s])
      /\ calls[s].decision.step \in OwnerReads \cup NamespaceReads
  BY DEF Read, ReadFails, ReadTimesOut, CallLost, Reading, TypeOK, RefinementInv
<1>2. \A found \in BOOLEAN : Answered(calls[s], found) \in Calls /\ Sourced(Answered(calls[s], found))
  BY <1>1, AnsweredSourced, AnsweredType
<1>. DEFINE lost == [calls[s] EXCEPT !.decision = Unanswered]
<1>3. lost \in Calls /\ Sourced(lost)
  BY <1>1, LaterSourced DEF Calls, Decisions, Unanswered
<1>4. \E call : Sourced(call) /\ calls' = [calls EXCEPT ![s] = call]
  <2>1. CASE Read(s)
    BY <1>2, <2>1 DEF Read
  <2>2. CASE ReadFails(s)
    BY <1>2, <2>2 DEF ReadFails
  <2>3. CASE ReadTimesOut(s)
    <3>. DEFINE spent == calls[s].spent + FetchTimeout
                call == IF spent > WebhookTimeout THEN lost ELSE Answered(calls[s], FALSE)
    <3>1. call \in Calls /\ Sourced(call)
      BY <1>2, <1>3
    <3>2. calls' = [calls EXCEPT ![s] = [call EXCEPT !.spent = spent]]
      BY <2>3 DEF ReadTimesOut
    <3>. HIDE DEF spent, call
    <3>. QED BY <3>1, <3>2, LaterSourced
  <2>4. CASE CallLost(s)
    BY <1>3, <2>4 DEF CallLost
  <2>. QED BY <2>1, <2>2, <2>3, <2>4
<1>5. \A t \in Slots : calls'[t] # None => Sourced(calls'[t])
  BY <1>4 DEF RefinementInv, TypeOK
<1>. QED BY <1>5 DEF CallsSourced, Read, ReadFails, ReadTimesOut, CallLost

LEMMA ReturnSourced ==
    ASSUME TypeOK, CallsSourced, NEW s \in Slots,
           CommitWrite(s) \/ CommitDelete(s) \/ Refused(s) \/ Conflicted(s)
    PROVE  CallsSourced' /\ UNCHANGED <<ns, cache>>
<1>1. calls' = [calls EXCEPT ![s] = None] /\ UNCHANGED <<ns, cache>>
  BY DEF CommitWrite, CommitDelete, Refused, Conflicted, Return
<1>2. \A t \in Slots : calls'[t] # None => Sourced(calls'[t])
  BY <1>1 DEF CallsSourced, TypeOK
<1>. QED BY <1>1, <1>2 DEF CallsSourced

----------------------------------------------------------------------------
LEMMA RefinementInvInit == Init => RefinementInv
BY DEF Init, RefinementInv

LEMMA CommittedNone ==
    ASSUME TypeOK, RefinementInv, NEW s \in Slots, CommitWrite(s) \/ CommitDelete(s)
    PROVE  obj' = None => applied' = Nothing
<1>1. CASE CommitWrite(s)
  <2>1. calls[s] \in Calls /\ obj' = calls[s].req.new
    BY <1>1 DEF CommitWrite, Finished, TypeOK
  <2>2. obj' \in Objects
    BY <2>1 DEF Calls, Requests
  <2>. QED BY <2>2, NoneAssumption
<1>2. CASE CommitDelete(s)
  <2>1. CASE obj' = None /\ applied' = Nothing
    BY <2>1
  <2>2. CASE obj' = [obj EXCEPT !.deleting = TRUE] /\ UNCHANGED applied
    <3>1. calls[s] \in Calls /\ obj = calls[s].req.old
      BY <1>2 DEF CommitDelete, Finished, Current, TypeOK
    <3>2. obj \in Objects
      BY <3>1 DEF Calls, Requests
    <3>3. obj' \in Objects
      BY <2>2, <3>2 DEF Objects
    <3>. QED BY <3>3, NoneAssumption
  <2>. QED BY <1>2, <2>1, <2>2 DEF CommitDelete
<1>. QED BY <1>1, <1>2

LEMMA RefinementInvNext == TypeOK /\ RefinementInv /\ [Next]_vars => RefinementInv'
<1>. SUFFICES ASSUME TypeOK, RefinementInv, [Next]_vars PROVE RefinementInv'
  OBVIOUS
<1>0. CallsSourced
  BY DEF RefinementInv, CallsSourced
<1>1. ASSUME CallsSourced', UNCHANGED <<obj, ns, cache, applied>> PROVE RefinementInv'
  BY <1>1 DEF RefinementInv, CallsSourced, Nothing
<1>2. ASSUME NEW s \in Slots,
             \/ \E user \in Clients : \/ ClientCreate(s, user) \/ ClientUpdate(s, user)
                                     \/ ClientScale(s, user) \/ ClientDelete(s, user)
             \/ NamespaceTeardown(s) \/ FluxApply(s) \/ FluxPrune(s)
      PROVE  RefinementInv'
  BY <1>0, <1>1, <1>2, SubmittedSourced
<1>3. ASSUME NEW s \in Slots, Read(s) \/ ReadFails(s) \/ ReadTimesOut(s) \/ CallLost(s)
      PROVE  RefinementInv'
  BY <1>1, <1>3, ReadSourced
<1>4. ASSUME NEW s \in Slots, CommitWrite(s) \/ CommitDelete(s) PROVE RefinementInv'
  <2>1. CallsSourced' /\ UNCHANGED <<ns, cache>>
    BY <1>0, <1>4, ReturnSourced
  <2>2. obj' = None => applied' = Nothing
    BY <1>4, CommittedNone
  <2>. QED BY <2>1, <2>2 DEF RefinementInv, CallsSourced, Nothing
<1>5. ASSUME NEW s \in Slots, Refused(s) \/ Conflicted(s) PROVE RefinementInv'
  <2>1. CallsSourced' /\ UNCHANGED <<ns, cache>>
    BY <1>0, <1>5, ReturnSourced
  <2>. QED BY <1>1, <1>5, <2>1 DEF Refused, Conflicted
<1>6. CASE FluxRecordsInventory \/ GitChanges \/ OwnerChanges \/ UNCHANGED vars
  <2>1. UNCHANGED <<obj, ns, cache, applied, calls>>
    BY <1>6 DEF FluxRecordsInventory, GitChanges, OwnerChanges, vars
  <2>. QED BY <1>0, <1>1, <2>1 DEF CallsSourced
<1>7. CASE NamespaceChanges
  <2>1. ns'.labelled \in Labellings
    BY <1>7 DEF NamespaceChanges, RefinementInv, TypeOK, NS
  <2>. QED BY <1>7, <2>1 DEF NamespaceChanges, RefinementInv, Nothing
<1>8. CASE CacheSync
  <2>1. cache'.ns \in {cache.ns, ns}
    BY <1>8 DEF CacheSync, TypeOK
  <2>. QED BY <1>8, <2>1 DEF CacheSync, RefinementInv, Nothing
<1>9. CASE Finalized
  BY <1>9 DEF Finalized, RefinementInv, Nothing
<1>. QED BY <1>2, <1>3, <1>4, <1>5, <1>6, <1>7, <1>8, <1>9 DEF Next

----------------------------------------------------------------------------
(***************************************************************************)
(* No client turns protection off in the write that is judged: what        *)
(* StillOwned says of Flux's fields is what makes                          *)
(* checkUpdateFieldConflict look at the annotations at all.                *)
(***************************************************************************)
LEMMA GuardedArms ==
    ASSUME TypeOK, IInv, OwnerLabel = KustomizeLabel,
           NEW s \in Slots, CommitWrite(s), calls[s].req.by = "client",
           calls[s].req.op = "UPDATE", ~Exempt(calls[s]), applied # Nothing
    PROVE  ~protectionDisablingAnnotationAdded(obj.doc, obj'.doc)
<1>. DEFINE call == calls[s]
<1>1. call \in Calls /\ CallInv(call) /\ obj = call.req.old /\ obj' = call.req.new
  BY DEF CommitWrite, Finished, Current, TypeOK, IInv, CallsInv
<1>2. obj # None /\ OwnerLabel \in Leaves
  BY <1>1, AdmissionAssumption, HandlerAssumption DEF CallInv
<1>3. /\ applied[OwnerLabel] # Absent /\ obj.doc[OwnerLabel] = applied[OwnerLabel]
      /\ \E f \in FluxManagedFields(obj.managedFields) : IsPrefix(f, OwnerLabel)
  BY <1>2 DEF IInv, ObjectInv, DriftFree, StillOwned, LabelHeld
<1>4. Guarded(call)
  BY <1>1, <1>3 DEF Guarded, Present
<1>5. call.decision.step = "decided" /\ call.decision.allowed
  <2>1. ~AuditOnly /\ call.decision.step # "unanswered"
    BY <1>1, <1>4, GuardedIsJudged
  <2>. QED BY <2>1 DEF CommitWrite, Finished, Admitted, Response
<1>6. OldFluxFields(call.req) # {}
  <2>1. Malformed # {}
    BY FieldsAssumption
  <2>. QED BY <1>1, <1>3, <2>1 DEF OldFluxFields
<1>7. ~Arms(call.req)
  BY <1>1, <1>4, <1>5, <1>6 DEF CallInv, Verdict
<1>. QED BY <1>1, <1>7 DEF Arms

(***************************************************************************)
(* What an exempt write owes its exemption to.                             *)
(***************************************************************************)
LEMMA ExemptUnjudged ==
    ASSUME RefinementInv, NEW s \in Slots, CommitWrite(s), Exempt(calls[s]),
           obj # None, calls[s].req.old = obj
    PROVE  Unjudged \/ Guard!Armed(TheDoc) # {}
<1>. DEFINE call == calls[s]
<1>1. Sourced(call)
  BY DEF RefinementInv, CommitWrite, Finished
<1>2. CASE call.decision.step = "unanswered"
  BY <1>2 DEF CommitWrite, Admitted, Unjudged
<1>3. CASE AuditOnly \/ ExcludedGroup \/ Namespace = "excluded" \/ call.unlabelled
            \/ call.req.subresource
  BY <1>1, <1>3 DEF Sourced, Unjudged
<1>4. CASE HasBypassAnnotation(obj.doc) \/ IsReconcileDisabled(obj.doc)
  BY <1>4 DEF HasBypassAnnotation, IsReconcileDisabled, Guard!Armed, TheDoc
<1>. QED BY <1>2, <1>3, <1>4 DEF Exempt

----------------------------------------------------------------------------
(***************************************************************************)
(* A committed write is a step of the guard.                               *)
(***************************************************************************)
LEMMA ReleaseIsAppliedAfter ==
    ASSUME NEW call, call.req.by = "client", call.req.op = "UPDATE", ~Exempt(call)
    PROVE  AppliedAfter(call) = Guard!Release(applied, LeavesUnder(call.ignore))
BY DEF AppliedAfter, Guard!Release, LeavesUnder, Waived

LEMMA WriteSimulated ==
    ASSUME OwnerLabel = KustomizeLabel, IInv, RefinementInv, NEW s \in Slots, CommitWrite(s)
    PROVE  Guard!Next
<1>. DEFINE call == calls[s]
<1>1. /\ call \in Calls /\ CallInv(call) /\ Sourced(call)
      /\ obj' = call.req.new /\ applied' = AppliedAfter(call)
      /\ call.req.op \in {"CREATE", "UPDATE"} /\ call.req.by \in {"client", "flux"}
  BY DEF CommitWrite, Finished, IInv, TypeOK, CallsInv, RefinementInv, Calls, Requests
<1>2. obj' \in Objects /\ TheDoc' = obj'.doc /\ TheDoc' \in Docs
  <2>1. obj' \in Objects
    BY <1>1 DEF Calls, Requests
  <2>. QED BY <2>1, NoneAssumption DEF TheDoc, Objects
<1>3. Guard!Keeps(TheDoc', applied')
  <2>1. DriftFree'
    BY WriteInv DEF IInv, ObjectInv
  <2>. QED BY <1>2, <2>1, NoneAssumption DEF DriftFree, Guard!Keeps
<1>4. CASE call.req.by = "flux"
  <2>1. applied' = Granted(call.req)
    BY <1>1, <1>4 DEF AppliedAfter, Granted
  <2>2. applied' \in Manifests
    BY <1>1, <1>4, <2>1 DEF Sourced
  <2>. QED BY <1>2, <1>3, <2>2 DEF Guard!Next, Guard!Reapply
<1>5. CASE call.req.by = "client" /\ call.req.op = "CREATE"
  <2>1. applied = Nothing /\ applied' = Nothing
    BY <1>1, <1>5 DEF CommitWrite, Current, RefinementInv, AppliedAfter
  <2>2. Guard!Nothing = Nothing /\ Guard!Release(applied, LeavesUnder({})) = Nothing
    BY <2>1 DEF Guard!Nothing, Nothing, Guard!Release
  <2>3. LeavesUnder({}) \in { LeavesUnder(ignore) : ignore \in (IgnoreSets \ {Malformed}) \cup {{}} }
    OBVIOUS
  <2>4. Guard!Write
    BY <1>2, <1>3, <2>1, <2>2, <2>3 DEF Guard!Write
  <2>. QED BY <2>4 DEF Guard!Next
<1>6. CASE call.req.by = "client" /\ call.req.op = "UPDATE"
  <2>1. obj = call.req.old /\ obj # None /\ TheDoc = obj.doc
    BY <1>1, <1>6 DEF CommitWrite, Current, CallInv, TheDoc
  <2>2. CASE Exempt(call)
    <3>1. applied' = Guard!Nothing
      BY <1>1, <1>6, <2>2 DEF AppliedAfter, Nothing, Guard!Nothing
    <3>2. Unjudged \/ Guard!Armed(TheDoc) # {}
      BY <2>1, <2>2, ExemptUnjudged
    <3>. QED BY <1>2, <3>1, <3>2 DEF Guard!Next, Guard!WriteUnjudged
  <2>3. CASE ~Exempt(call)
    <3>1. applied' = Guard!Release(applied, LeavesUnder(call.ignore))
      BY <1>1, <1>6, <2>3, ReleaseIsAppliedAfter
    <3>2. LeavesUnder(call.ignore)
            \in { LeavesUnder(ignore) : ignore \in (IgnoreSets \ {Malformed}) \cup {{}} }
      BY <1>1 DEF Sourced
    <3>3. applied # Guard!Nothing => Guard!Armed(TheDoc') \subseteq Guard!Armed(TheDoc)
      <4>. SUFFICES ASSUME applied # Guard!Nothing
                    PROVE  Guard!Armed(TheDoc') \subseteq Guard!Armed(TheDoc)
        OBVIOUS
      <4>1. applied # Nothing
        BY DEF Guard!Nothing, Nothing
      <4>2. ~protectionDisablingAnnotationAdded(obj.doc, obj'.doc)
        BY <1>6, <2>3, <4>1, GuardedArms DEF IInv
      <4>. QED BY <1>2, <2>1, <4>2
           DEF Guard!Armed, protectionDisablingAnnotationAdded, HasBypassAnnotation,
               IsReconcileDisabled
    <3>4. Guard!Write
      BY <1>2, <1>3, <3>1, <3>2, <3>3 DEF Guard!Write
    <3>. QED BY <3>4 DEF Guard!Next
  <2>. QED BY <2>2, <2>3
<1>. QED BY <1>1, <1>4, <1>5, <1>6

\* A deletion either takes the object away or only marks it.
LEMMA DeleteSimulated ==
    ASSUME IInv, NEW s \in Slots, CommitDelete(s)
    PROVE  Guard!Next \/ UNCHANGED <<TheDoc, applied>>
<1>1. CASE obj' = None /\ applied' = Nothing
  BY <1>1 DEF TheDoc, Nothing, Guard!Nothing, Guard!Next, Guard!Delete
<1>2. CASE obj' = [obj EXCEPT !.deleting = TRUE] /\ UNCHANGED applied
  <2>1. obj \in Objects
    BY DEF CommitDelete, Finished, Current, IInv, TypeOK, Calls, Requests
  <2>2. obj'.doc = obj.doc /\ obj' \in Objects
    BY <1>2, <2>1 DEF Objects
  <2>. QED BY <1>2, <2>1, <2>2, NoneAssumption DEF TheDoc
<1>. QED BY <1>1, <1>2 DEF CommitDelete

LEMMA StepSimulated ==
    ASSUME OwnerLabel = KustomizeLabel, IInv, RefinementInv, [Next]_vars
    PROVE  Guard!Next \/ UNCHANGED <<TheDoc, applied>>
<1>1. ASSUME UNCHANGED <<obj, applied>> PROVE UNCHANGED <<TheDoc, applied>>
  BY <1>1 DEF TheDoc, Nothing
<1>2. ASSUME NEW s \in Slots,
             \/ \E user \in Clients : \/ ClientCreate(s, user) \/ ClientUpdate(s, user)
                                     \/ ClientScale(s, user) \/ ClientDelete(s, user)
             \/ NamespaceTeardown(s) \/ FluxApply(s) \/ FluxPrune(s)
      PROVE  UNCHANGED <<obj, applied>>
  BY <1>2 DEF ClientCreate, ClientUpdate, ClientScale, ClientDelete, NamespaceTeardown,
              FluxApply, FluxPrune, Submit
<1>3. ASSUME NEW s \in Slots,
             \/ Read(s) \/ ReadFails(s) \/ ReadTimesOut(s) \/ CallLost(s)
             \/ Refused(s) \/ Conflicted(s)
      PROVE  UNCHANGED <<obj, applied>>
  BY <1>3 DEF Read, ReadFails, ReadTimesOut, CallLost, Refused, Conflicted
<1>4. CASE \/ FluxRecordsInventory \/ GitChanges \/ OwnerChanges \/ NamespaceChanges
           \/ CacheSync \/ UNCHANGED vars
  <2>1. UNCHANGED <<obj, applied>>
    BY <1>4 DEF FluxRecordsInventory, GitChanges, OwnerChanges, NamespaceChanges, CacheSync, vars
  <2>. QED BY <1>1, <2>1
<1>5. CASE Finalized
  BY <1>5 DEF Finalized, TheDoc, Nothing, Guard!Nothing, Guard!Next, Guard!Delete
<1>. QED BY <1>1, <1>2, <1>3, <1>4, <1>5, WriteSimulated, DeleteSimulated DEF Next

(***************************************************************************)
(* Drift prevention implements the atomic guard: whatever the requests,    *)
(* manifests, ignore rules and faults, the interleaving of calls and the   *)
(* age of the cache add no behaviour to it.                                *)
(***************************************************************************)
THEOREM Refinement ==
    ASSUME OwnerLabel = KustomizeLabel PROVE Spec => ImplementsGuard
<1>1. Init => Guard!Init
  BY DEF Init, Guard!Init, TheDoc, Nothing, Guard!Nothing
<1>2. IInv /\ RefinementInv /\ [Next]_vars => [Guard!Next]_<<TheDoc, applied>>
  BY StepSimulated
<1>3. Spec => []IInv
  BY IInvInit, IInvNext, PTL DEF Spec
<1>4. IInv => TypeOK
  BY DEF IInv
<1>5. Spec => []RefinementInv
  BY <1>3, <1>4, RefinementInvInit, RefinementInvNext, PTL DEF Spec
<1>. QED BY <1>1, <1>2, <1>3, <1>5, PTL DEF Spec, ImplementsGuard, Guard!Spec

(***************************************************************************)
(* No client arms the bypass or the reconcile: disabled annotation of an   *)
(* object Flux applied, unless protection was already off                  *)
(* (protectionDisablingAnnotationAdded).                                   *)
(***************************************************************************)
THEOREM NeverDisarmed ==
    ASSUME OwnerLabel = KustomizeLabel PROVE Spec => NotDisarmedByClients
<1>. DEFINE Guarding(s) ==
        /\ Commits(s) /\ calls[s].req.by = "client" /\ calls[s].req.op = "UPDATE"
        /\ applied # Nothing
        /\ protectionDisablingAnnotationAdded(obj.doc, obj'.doc)
        => Exempt(calls[s])
<1>1. ASSUME IInv, [Next]_vars, NEW s \in Slots, Commits(s), calls[s].req.op = "UPDATE"
      PROVE  CommitWrite(s)
  <2>1. calls[s] # None /\ calls'[s] = None /\ obj' # obj
    BY <1>1 DEF Commits
  <2>2. PICK t \in Slots : CommitWrite(t) \/ CommitDelete(t)
    <3>1. ~UNCHANGED calls /\ ~UNCHANGED obj
      BY <2>1
    <3>. QED BY <1>1, <3>1 DEF Next, vars, ClientCreate, ClientUpdate, ClientScale,
             ClientDelete, NamespaceTeardown, FluxApply, FluxPrune, Submit, Read, ReadFails,
             ReadTimesOut, CallLost, Refused, Conflicted, FluxRecordsInventory, GitChanges,
             OwnerChanges, NamespaceChanges, CacheSync, Finalized
  <2>3. calls' = [calls EXCEPT ![t] = None]
    BY <2>2 DEF CommitWrite, CommitDelete, Return
  <2>4. t = s
    BY <1>1, <2>1, <2>3 DEF IInv, TypeOK
  <2>. QED BY <1>1, <2>2, <2>4 DEF CommitDelete
<1>2. ASSUME IInv, [Next]_vars PROVE \A s \in Slots : Guarding(s)
  BY <1>1, <1>2, GuardedArms DEF IInv
<1>3. IInv /\ [Next]_vars => [\A s \in Slots : Guarding(s)]_vars
  BY <1>2
<1>4. Spec => []IInv
  BY IInvInit, IInvNext, PTL DEF Spec
<1>. QED BY <1>3, <1>4, PTL DEF Spec, NotDisarmedByClients
=============================================================================
