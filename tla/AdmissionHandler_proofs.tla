----------------------- MODULE AdmissionHandler_proofs ----------------------
(***************************************************************************)
(* Type correctness of AdmissionHandler, and the two promises that rest on *)
(* nothing but what the handler decides from what it reads: Flux is not    *)
(* locked out of what it owns, and no client takes a name that the owner's *)
(* inventory was seen to list.                                             *)
(***************************************************************************)
EXTENDS AdmissionProperties, FieldPaths_proofs, SequenceTheorems

----------------------------------------------------------------------------
\* What the decision operators return.

LEMMA AllowType ==
    ASSUME NEW reason \in AllowedReasons PROVE Allow(reason) \in Decisions
BY DEF Allow, Decisions

LEMMA DenyType ==
    ASSUME NEW reason \in DeniedReasons PROVE Deny(reason) \in Decisions
BY DEF Deny, Decisions

LEMMA AwaitType ==
    ASSUME NEW read \in OwnerReads \cup NamespaceReads PROVE Await(read) \in Decisions
BY DEF Await, Decisions

(***************************************************************************)
(* Every decision is a read, or carries a label of the reasons.go contract *)
(* that agrees with it (operationDecision and what it calls).              *)
(***************************************************************************)
LEMMA OperationType ==
    ASSUME NEW req
    PROVE  /\ \A ignoreSet : FinishUpdate(req, ignoreSet) \in Decisions
           /\ \A listed, available : CreateDecision(req, listed, available) \in Decisions
           /\ operationDecision(req) \in Decisions
<1>. USE AllowType, DenyType, AwaitType DEF AllowedReasons, DeniedReasons, OwnerReads
<1>1. \A ignoreSet : FinishUpdate(req, ignoreSet) \in Decisions
  BY DEF FinishUpdate
<1>2. \A listed, available : CreateDecision(req, listed, available) \in Decisions
  BY DEF CreateDecision
<1>3. checkUpdateFieldConflict(req) \in Decisions
  BY <1>1 DEF checkUpdateFieldConflict
<1>4. checkDeleteManaged(req) \in Decisions
  BY DEF checkDeleteManaged
<1>5. operationDecision(req) \in Decisions
  BY <1>2, <1>3, <1>4 DEF operationDecision
<1>. QED BY <1>1, <1>2, <1>5

LEMMA OwnerType ==
    ASSUME NEW req
    PROVE  /\ \A isOwner \in BOOLEAN : Owning(req, isOwner) \in Decisions
           /\ checkBypass(req) \in Decisions
<1>. USE AllowType, DenyType, AwaitType
     DEF AllowedReasons, DeniedReasons, OwnerReads, NamespaceReads
<1>1. NotOwner(req) \in Decisions
  BY OperationType DEF NotOwner
<1>2. checkFluxOwnership(req) \in Decisions
  BY DEF checkFluxOwnership
<1>3. \A isOwner \in BOOLEAN : Owning(req, isOwner) \in Decisions
  BY <1>1, <1>2 DEF Owning
<1>4. checkBypass(req) \in Decisions
  BY <1>1, <1>2, <1>3 DEF checkBypass, FallbackReconciler
<1>. QED BY <1>3, <1>4

LEMMA HandleType ==
    ASSUME NEW req PROVE Handle(req) \in Decisions /\ ManagementGate(req) \in Decisions
<1>. USE AllowType, DenyType, AwaitType
     DEF AllowedReasons, DeniedReasons, OwnerReads, NamespaceReads
<1>1. ManagementGate(req) \in Decisions
  BY OwnerType DEF ManagementGate
<1>. QED BY <1>1 DEF Handle

LEMMA ResumeType ==
    ASSUME NEW step \in OwnerReads \cup NamespaceReads,
           NEW req, NEW found, NEW o, NEW n
    PROVE  Resume(step, req, found, o, n) \in Decisions
<1>. USE AllowType, DenyType, AwaitType
     DEF AllowedReasons, DeniedReasons, OwnerReads, NamespaceReads
<1>1. AfterScope(req, found, n) \in Decisions
  BY HandleType DEF AfterScope
<1>2. AfterOwner(req, found, o) \in Decisions
  BY OwnerType DEF AfterOwner, FallbackReconciler
<1>3. AfterTerminating(req, found, n) \in Decisions
  BY OperationType DEF AfterTerminating
<1>4. AfterInventory(req, found, o) \in Decisions
  BY OperationType DEF AfterInventory
<1>5. AfterIgnore(req, found, o) \in Decisions
  BY OperationType DEF AfterIgnore
<1>. QED BY <1>1, <1>2, <1>3, <1>4, <1>5 DEF Resume

----------------------------------------------------------------------------
(***************************************************************************)
(* Objects: what a write makes of an object is an object.                  *)
(***************************************************************************)
LEMMA LeavesArePaths == Leaves \subseteq Paths
<1>1. SUFFICES ASSUME NEW l \in Leaves PROVE l \in Paths
  OBVIOUS
<1>2. l \in Seq(Elements) /\ Len(l) \in Nat /\ Len(l) # 0
  BY FieldPathsAssumption
<1>3. SubSeq(l, 1, Len(l)) = l /\ Len(l) \in 1..Len(l)
  BY <1>2
<1>4. l \in PrefixesOf(l)
  BY <1>3 DEF PrefixesOf
<1>. QED BY <1>4 DEF Paths

LEMMA DocsAreFunctions == Docs = [Leaves -> Values \cup {Absent}]
BY ProtectionAssumption DEF Docs

LEMMA ClientWritesType ==
    ASSUME NEW o \in Objects, NEW edit \in ClientEdits, NEW released \in Releases \cup {{}}
    PROVE  ClientWrites(o, edit, released) \in Objects
<1>. DEFINE doc == [l \in Leaves |-> IF l \in DOMAIN edit THEN edit[l] ELSE o.doc[l]]
            lost == { l \in DOMAIN edit : edit[l] # o.doc[l] } \cup released
            kept == { [e EXCEPT !.fields = @ \ lost] : e \in o.managedFields }
<1>1. doc \in Docs
  <2>1. o.doc \in [Leaves -> Values \cup {Absent}]
    BY DocsAreFunctions DEF Objects
  <2>2. \A l \in DOMAIN edit : edit[l] \in Values \cup {Absent}
    BY AdmissionAssumption
  <2>. QED BY <2>1, <2>2, DocsAreFunctions
<1>2. kept \in SUBSET Entries
  <2>1. o.managedFields \subseteq Entries
    BY DEF Objects
  <2>2. SUFFICES ASSUME NEW e \in Entries PROVE [e EXCEPT !.fields = @ \ lost] \in Entries
    BY <2>1
  <2>. QED BY DEF Entries
<1>3. ClientWrites(o, edit, released) = [o EXCEPT !.doc = doc, !.managedFields = kept]
  BY DEF ClientWrites
<1>. HIDE DEF doc, kept
<1>. QED BY <1>1, <1>2, <1>3 DEF Objects

LEMMA FluxWritesType ==
    ASSUME NEW o \in Objects, NEW m \in Manifests
    PROVE  FluxWrites(o, m) \in Objects
<1>. DEFINE mine == { e \in o.managedFields : e.manager = FluxManager /\ e.operation = "Apply" }
            dropped == UNION { e.fields : e \in mine }
            doc == [l \in Leaves |-> IF Present(m, l) THEN m[l]
                                     ELSE IF l \in dropped THEN Absent ELSE o.doc[l]]
            fields == (o.managedFields \ mine) \cup {Entry(FluxManager, "Apply", DeclaredLeaves(m))}
<1>1. doc \in Docs
  <2>1. o.doc \in [Leaves -> Values \cup {Absent}] /\ m \in [Leaves -> Values \cup {Absent}]
    BY AdmissionAssumption, DocsAreFunctions DEF Objects
  <2>. HIDE DEF dropped
  <2>. QED BY <2>1, DocsAreFunctions
<1>2. fields \in SUBSET Entries
  <2>1. DeclaredLeaves(m) \subseteq Paths
    BY LeavesArePaths DEF DeclaredLeaves
  <2>2. Entry(FluxManager, "Apply", DeclaredLeaves(m)) \in Entries
    BY <2>1, AdmissionAssumption DEF Entry, Entries
  <2>3. o.managedFields \subseteq Entries
    BY DEF Objects
  <2>. QED BY <2>2, <2>3
<1>3. FluxWrites(o, m) = [o EXCEPT !.doc = doc, !.managedFields = fields]
  BY DEF FluxWrites
<1>. HIDE DEF doc, fields
<1>. QED BY <1>1, <1>2, <1>3 DEF Objects

LEMMA NewObjectType ==
    /\ Nothing \in Docs
    /\ \A doc \in Docs : NewObject(doc) \in Objects
<1>1. Nothing \in Docs
  BY DocsAreFunctions DEF Nothing
<1>2. \A doc \in Docs : NewObject(doc) \in Objects
  BY DEF NewObject, Objects
<1>. QED BY <1>1, <1>2

----------------------------------------------------------------------------
(***************************************************************************)
(* Requests and calls.                                                     *)
(***************************************************************************)
LEMMA RequestType ==
    ASSUME NEW op \in {"CREATE", "UPDATE", "DELETE"}, NEW by \in {"client", "flux"},
           NEW user \in Identities, NEW old \in Objects, NEW new \in Objects
    PROVE  Request(op, by, user, old, new) \in Requests
BY DEF Request, Requests, Faults

LEMMA CallType ==
    ASSUME NEW req \in Requests PROVE Call(req) \in Calls
BY HandleType DEF Call, Calls

LEMMA FourSegments ==
    ASSUME NEW S, NEW a \in S, NEW b \in S, NEW c \in S, NEW d \in S
    PROVE  <<a, b, c, d>> \in Seq(S)
<1>1. <<a, b, c, d>> \in [1..4 -> S]
  OBVIOUS
<1>2. [1..4 -> S] \subseteq Seq(S)
  BY SeqDef
<1>. QED BY <1>1, <1>2

LEMMA ReconcilerType ==
    ASSUME TypeOK PROVE Reconciler \in Identities
<1>1. owner.sa \in STRING
  BY AdmissionAssumption DEF TypeOK, Owner
<1>2. OwnerNamespace[Me] \in STRING
  BY AdmissionAssumption, HandlerAssumption
<1>3. <<"system", "serviceaccount", OwnerNamespace[Me], owner.sa>> \in Seq(STRING)
  BY <1>1, <1>2, LiteralsAssumption, FourSegments
<1>. QED BY <1>3, AdmissionAssumption DEF Reconciler, Identities

LEMMA SpendType ==
    ASSUME TypeOK, NEW what \in {"requests", "changes", "faults"}, Spend(what)
    PROVE  budget' \in [requests : 0..MaxRequests, changes : 0..MaxChanges, faults : 0..MaxFaults]
BY AdmissionAssumption DEF TypeOK, Spend

LEMMA SubmitType ==
    ASSUME TypeOK, NEW s \in Slots, NEW req \in Requests, Submit(s, req),
           \/ Spend("requests")
           \/ UNCHANGED budget
    PROVE  TypeOK'
<1>1. calls' \in [Slots -> Calls \cup {None}]
  BY CallType DEF Submit, TypeOK
<1>2. budget' \in [requests : 0..MaxRequests, changes : 0..MaxChanges, faults : 0..MaxFaults]
  BY SpendType DEF TypeOK
<1>. QED BY <1>1, <1>2 DEF Submit, TypeOK

(***************************************************************************)
(* An answered read leaves a call that waits, or that carries a decision.  *)
(***************************************************************************)
LEMMA AnsweredType ==
    ASSUME TypeOK, NEW call \in Calls, NEW found \in BOOLEAN,
           call.decision.step \in OwnerReads \cup NamespaceReads
    PROVE  Answered(call, found) \in Calls
<1>1. Resume(call.decision.step, call.req, found, cache.owner, cache.ns) \in Decisions
  BY ResumeType
<1>2. driftIgnoreSet(found, cache.owner) \in SUBSET Paths
  BY ProtectionAssumption DEF driftIgnoreSet, TypeOK, Owner
<1>. DEFINE answer == Resume(call.decision.step, call.req, found, cache.owner, cache.ns)
            ignore == IF call.decision.step = "ignore"
                      THEN driftIgnoreSet(found, cache.owner) ELSE call.ignore
<1>3. ignore \in SUBSET Paths
  BY <1>2 DEF Calls
<1>4. cache.ns.labelled \in BOOLEAN
  BY DEF TypeOK, NS
<1>. DEFINE unlabelled == call.unlabelled
                          \/ (call.decision.step = "scope" /\ found /\ ~cache.ns.labelled)
            listed == call.listed \/ (call.decision.step = "inventory" /\ found
                                        /\ cache.owner.inventory = "listed")
<1>5. unlabelled \in BOOLEAN /\ listed \in BOOLEAN
  OBVIOUS
<1>6. Answered(call, found) =
        [call EXCEPT !.decision = answer, !.unlabelled = unlabelled,
                     !.ignore = ignore, !.listed = listed]
  BY DEF Answered
<1>. HIDE DEF answer, ignore, unlabelled, listed
<1>7. answer \in Decisions
  BY <1>1 DEF answer
<1>. QED BY <1>3, <1>5, <1>6, <1>7 DEF Calls

----------------------------------------------------------------------------
(***************************************************************************)
(* Every variable keeps its type, whatever requests, identities, manifests *)
(* and faults the constants allow: TypeOK is inductive.                    *)
(***************************************************************************)
LEMMA InitType == Init => TypeOK
<1>. SUFFICES ASSUME Init PROVE TypeOK
  OBVIOUS
<1>1. obj \in Objects \cup {None} /\ git \in Manifests \cup {None}
  BY DEF Init
<1>2. owner \in Owner /\ ns \in NS
  BY DEF Init, Owner, NS, Labellings
<1>3. cache \in [owner : Owner, ns : NS]
  BY <1>2 DEF Init
<1>4. calls \in [Slots -> Calls \cup {None}] /\ applied \in [Leaves -> Values \cup {Absent}]
  BY DEF Init, Nothing
<1>5. budget \in [requests : 0..MaxRequests, changes : 0..MaxChanges, faults : 0..MaxFaults]
  BY AdmissionAssumption DEF Init
<1>. QED BY <1>1, <1>2, <1>3, <1>4, <1>5 DEF TypeOK

----------------------------------------------------------------------------
(***************************************************************************)
(* Who sends what.  Everything Flux owns of an object is a leaf that is    *)
(* there: an apply declares what it writes, and a leaf that a client       *)
(* changes or drops leaves managedFields with it.                          *)
(***************************************************************************)
OwnedExists(o) ==
    \A e \in o.managedFields :
        /\ e.manager = FluxManager /\ e.operation = "Apply"
        /\ \A l \in e.fields : l \in Leaves /\ Present(o.doc, l)

LEMMA NewObjectOwned ==
    ASSUME NEW doc PROVE OwnedExists(NewObject(doc))
BY DEF OwnedExists, NewObject

LEMMA ClientWritesOwned ==
    ASSUME NEW o \in Objects, OwnedExists(o),
           NEW edit \in ClientEdits, NEW released \in Releases \cup {{}}
    PROVE  OwnedExists(ClientWrites(o, edit, released))
<1>. DEFINE new == ClientWrites(o, edit, released)
            lost == { l \in DOMAIN edit : edit[l] # o.doc[l] } \cup released
            doc == [l \in Leaves |-> IF l \in DOMAIN edit THEN edit[l] ELSE o.doc[l]]
            kept == { [e EXCEPT !.fields = @ \ lost] : e \in o.managedFields }
<1>1. new.managedFields = kept /\ new.doc = doc
  BY DEF ClientWrites, Objects
<1>. SUFFICES ASSUME NEW e \in o.managedFields
              PROVE  LET left == [e EXCEPT !.fields = @ \ lost] IN
                     /\ left.manager = FluxManager /\ left.operation = "Apply"
                     /\ \A l \in left.fields : l \in Leaves /\ Present(doc, l)
  BY <1>1 DEF OwnedExists
<1>. DEFINE left == [e EXCEPT !.fields = @ \ lost]
<1>2. e \in Entries
  BY DEF Objects
<1>3. /\ left.manager = e.manager /\ left.operation = e.operation
      /\ left.fields = e.fields \ lost
  BY <1>2 DEF Entries
<1>4. /\ e.manager = FluxManager /\ e.operation = "Apply"
      /\ \A l \in e.fields : l \in Leaves /\ Present(o.doc, l)
  BY DEF OwnedExists
<1>5. ASSUME NEW l \in e.fields \ lost PROVE l \in Leaves /\ doc[l] = o.doc[l]
  BY <1>4
<1>. QED BY <1>3, <1>4, <1>5 DEF Present

LEMMA FluxWritesOwned ==
    ASSUME NEW o \in Objects, OwnedExists(o), NEW m \in Manifests
    PROVE  OwnedExists(FluxWrites(o, m))
<1>. DEFINE new == FluxWrites(o, m)
            mine == { e \in o.managedFields : e.manager = FluxManager /\ e.operation = "Apply" }
            entry == Entry(FluxManager, "Apply", DeclaredLeaves(m))
<1>1. mine = o.managedFields
  BY DEF OwnedExists
<1>2. new.managedFields = {entry}
  BY <1>1 DEF FluxWrites, Objects
<1>3. \A l \in DeclaredLeaves(m) : l \in Leaves /\ new.doc[l] = m[l] /\ Present(m, l)
  BY DEF FluxWrites, DeclaredLeaves, Objects
<1>. HIDE DEF new
<1>4. OwnedExists(new)
  BY <1>2, <1>3 DEF OwnedExists, Entry, Present
<1>. QED BY <1>4 DEF new

\* What a request says of the object it was made from.
OwnedStays(req) ==
    (obj # None => OwnedExists(obj)) => OwnedExists(req.old) /\ OwnedExists(req.new)

\* What every client and the namespace controller send.
ClientRequest(req) ==
    /\ req \in Requests /\ req.by = "client"
    /\ req.user \in Clients \cup {NamespaceController}
    /\ req.op # "CREATE" => req.old # None
    /\ req.subresource => \E edit \in ClientEdits : DOMAIN edit \subseteq ScaleLeaves
    /\ OwnedStays(req)

\* What Flux sends: payloads that parse, and no subresource.
FluxRequest(req) ==
    /\ req \in Requests /\ req.by = "flux"
    /\ req.fault = "none" /\ ~req.subresource
    /\ OwnedStays(req)

LEMMA ClientSubmits ==
    ASSUME TypeOK, NEW s \in Slots, NEW user \in Clients,
           \/ ClientCreate(s, user) \/ ClientUpdate(s, user)
           \/ ClientScale(s, user) \/ ClientDelete(s, user)
    PROVE  \E req : Submit(s, req) /\ ClientRequest(req)
<1>1. user \in Identities /\ (obj # None => obj \in Objects)
  BY AdmissionAssumption DEF TypeOK
<1>2. CASE ClientCreate(s, user)
  <2>1. PICK doc \in ClientDocs, derived \in BOOLEAN, fault \in RequestFaults :
           Submit(s, [Request("CREATE", "client", user, NewObject(Nothing), NewObject(doc))
                      EXCEPT !.derived = derived, !.fault = fault])
    BY <1>2 DEF ClientCreate
  <2>. DEFINE req == [Request("CREATE", "client", user, NewObject(Nothing), NewObject(doc))
                      EXCEPT !.derived = derived, !.fault = fault]
  <2>2. NewObject(Nothing) \in Objects /\ NewObject(doc) \in Objects /\ fault \in Faults
    BY NewObjectType, AdmissionAssumption
  <2>3. req.old = NewObject(Nothing) /\ req.new = NewObject(doc)
    BY DEF Request
  <2>4. OwnedStays(req)
    BY <2>3, NewObjectOwned DEF OwnedStays
  <2>5. ClientRequest(req)
    BY <1>1, <2>2, <2>4 DEF ClientRequest, Request, Requests
  <2>6. Submit(s, req)
    BY <2>1
  <2>. HIDE DEF req
  <2>. QED BY <2>5, <2>6
<1>3. CASE ClientUpdate(s, user)
  <2>1. PICK edit \in ClientEdits, released \in Releases, fault \in RequestFaults :
           Submit(s, [Request("UPDATE", "client", user, obj, ClientWrites(obj, edit, released))
                      EXCEPT !.fault = fault])
    BY <1>3 DEF ClientUpdate
  <2>. DEFINE req == [Request("UPDATE", "client", user, obj, ClientWrites(obj, edit, released))
                      EXCEPT !.fault = fault]
  <2>2. /\ obj \in Objects /\ obj # None /\ fault \in Faults
        /\ ClientWrites(obj, edit, released) \in Objects
    BY <1>1, <1>3, ClientWritesType, AdmissionAssumption DEF ClientUpdate
  <2>3. req.old = obj /\ req.new = ClientWrites(obj, edit, released)
    BY DEF Request
  <2>4. OwnedStays(req)
    BY <2>2, <2>3, ClientWritesOwned DEF OwnedStays
  <2>5. ClientRequest(req)
    BY <1>1, <2>2, <2>4 DEF ClientRequest, Request, Requests
  <2>6. Submit(s, req)
    BY <2>1
  <2>. HIDE DEF req
  <2>. QED BY <2>5, <2>6
<1>4. CASE ClientScale(s, user)
  <2>1. PICK edit \in ClientEdits :
           /\ DOMAIN edit \subseteq ScaleLeaves
           /\ Submit(s, [Request("UPDATE", "client", user, obj, ClientWrites(obj, edit, {}))
                         EXCEPT !.subresource = TRUE])
    BY <1>4 DEF ClientScale
  <2>. DEFINE req == [Request("UPDATE", "client", user, obj, ClientWrites(obj, edit, {}))
                      EXCEPT !.subresource = TRUE]
  <2>2. obj \in Objects /\ obj # None /\ ClientWrites(obj, edit, {}) \in Objects
    BY <1>1, <1>4, ClientWritesType DEF ClientScale
  <2>3. req.old = obj /\ req.new = ClientWrites(obj, edit, {})
    BY DEF Request
  <2>4. OwnedStays(req)
    BY <2>2, <2>3, ClientWritesOwned DEF OwnedStays
  <2>5. ClientRequest(req)
    BY <1>1, <2>1, <2>2, <2>4 DEF ClientRequest, Request, Requests, Faults
  <2>6. Submit(s, req)
    BY <2>1
  <2>. HIDE DEF req
  <2>. QED BY <2>5, <2>6
<1>5. CASE ClientDelete(s, user)
  <2>1. PICK fault \in RequestFaults :
           Submit(s, [Request("DELETE", "client", user, obj, obj) EXCEPT !.fault = fault])
    BY <1>5 DEF ClientDelete
  <2>. DEFINE req == [Request("DELETE", "client", user, obj, obj) EXCEPT !.fault = fault]
  <2>2. obj \in Objects /\ obj # None /\ fault \in Faults
    BY <1>1, <1>5, AdmissionAssumption DEF ClientDelete
  <2>3. req.old = obj /\ req.new = obj
    BY DEF Request
  <2>4. OwnedStays(req)
    BY <2>2, <2>3 DEF OwnedStays
  <2>5. ClientRequest(req)
    BY <1>1, <2>2, <2>4 DEF ClientRequest, Request, Requests
  <2>6. Submit(s, req)
    BY <2>1
  <2>. HIDE DEF req
  <2>. QED BY <2>5, <2>6
<1>. QED BY <1>2, <1>3, <1>4, <1>5

LEMMA TeardownSubmits ==
    ASSUME TypeOK, NEW s \in Slots, NamespaceTeardown(s)
    PROVE  \E req : Submit(s, req) /\ ClientRequest(req)
<1>. DEFINE req == Request("DELETE", "client", NamespaceController, obj, obj)
<1>1. Submit(s, req) /\ obj # None /\ obj \in Objects
  BY DEF NamespaceTeardown, TypeOK
<1>2. req \in Requests
  BY <1>1, RequestType, AdmissionAssumption
<1>3. ClientRequest(req)
  BY <1>1, <1>2 DEF ClientRequest, OwnedStays, Request
<1>. HIDE DEF req
<1>. QED BY <1>1, <1>3

LEMMA ClientType ==
    ASSUME TypeOK, NEW s \in Slots, NEW user \in Clients,
           \/ ClientCreate(s, user) \/ ClientUpdate(s, user)
           \/ ClientScale(s, user) \/ ClientDelete(s, user)
    PROVE  TypeOK'
<1>1. PICK req : Submit(s, req) /\ ClientRequest(req)
  BY ClientSubmits
<1>2. Spend("requests")
  BY DEF ClientCreate, ClientUpdate, ClientScale, ClientDelete
<1>. QED BY <1>1, <1>2, SubmitType DEF ClientRequest

LEMMA FluxSubmits ==
    ASSUME TypeOK, NEW s \in Slots, FluxApply(s) \/ FluxPrune(s)
    PROVE  \E req : Submit(s, req) /\ FluxRequest(req)
<1>1. CASE FluxApply(s)
  <2>. DEFINE before == IF obj = None THEN NewObject(Nothing) ELSE obj
              op == IF obj = None THEN "CREATE" ELSE "UPDATE"
              req == [Request(op, "flux", Reconciler, before, FluxWrites(before, git))
                      EXCEPT !.declared = DeclaredLeaves(git)]
  <2>1. before \in Objects /\ git \in Manifests
    BY <1>1, NewObjectType DEF FluxApply, TypeOK
  <2>2. FluxWrites(before, git) \in Objects
    BY <2>1, FluxWritesType
  <2>3. op \in {"CREATE", "UPDATE"} /\ DeclaredLeaves(git) \subseteq Leaves
    BY DEF DeclaredLeaves
  <2>4. Submit(s, req)
    BY <1>1 DEF FluxApply
  <2>5. (obj # None => OwnedExists(obj)) => OwnedExists(before)
    BY NewObjectOwned
  <2>. HIDE DEF before, op
  <2>6. req.old = before /\ req.new = FluxWrites(before, git)
    BY DEF Request
  <2>7. OwnedStays(req)
    BY <2>1, <2>5, <2>6, FluxWritesOwned DEF OwnedStays
  <2>8. FluxRequest(req)
    BY <2>1, <2>2, <2>3, <2>7, ReconcilerType DEF FluxRequest, Request, Requests, Faults
  <2>. HIDE DEF req
  <2>. QED BY <2>4, <2>8
<1>2. CASE FluxPrune(s)
  <2>. DEFINE req == Request("DELETE", "flux", Reconciler, obj, obj)
  <2>1. Submit(s, req) /\ obj # None
    BY <1>2 DEF FluxPrune
  <2>2. req \in Requests
    BY <2>1, RequestType, ReconcilerType DEF TypeOK
  <2>3. FluxRequest(req)
    BY <2>1, <2>2 DEF FluxRequest, OwnedStays, Request
  <2>. HIDE DEF req
  <2>. QED BY <2>1, <2>3
<1>. QED BY <1>1, <1>2

LEMMA FluxType ==
    ASSUME TypeOK, NEW s \in Slots,
           NamespaceTeardown(s) \/ FluxApply(s) \/ FluxPrune(s)
    PROVE  TypeOK'
<1>1. CASE NamespaceTeardown(s)
  <2>1. PICK req : Submit(s, req) /\ ClientRequest(req)
    BY <1>1, TeardownSubmits
  <2>. QED BY <1>1, <2>1, SubmitType DEF NamespaceTeardown, ClientRequest
<1>2. CASE FluxApply(s) \/ FluxPrune(s)
  <2>1. PICK req : Submit(s, req) /\ FluxRequest(req)
    BY <1>2, FluxSubmits
  <2>. QED BY <1>2, <2>1, SubmitType DEF FluxApply, FluxPrune, FluxRequest
<1>. QED BY <1>1, <1>2

LEMMA ReadType ==
    ASSUME TypeOK, NEW s \in Slots,
           Read(s) \/ ReadFails(s) \/ ReadTimesOut(s) \/ CallLost(s)
    PROVE  TypeOK'
<1>1. /\ calls[s] \in Calls
      /\ calls[s].decision.step \in OwnerReads \cup NamespaceReads
  BY DEF Read, ReadFails, ReadTimesOut, CallLost, Reading, TypeOK
<1>2. \A found \in BOOLEAN : Answered(calls[s], found) \in Calls
  BY <1>1, AnsweredType
<1>3. Unanswered \in Decisions
  BY DEF Unanswered, Decisions
<1>4. \A call \in Calls : [call EXCEPT !.decision = Unanswered] \in Calls
  BY <1>3 DEF Calls
<1>5. \E call \in Calls : calls' = [calls EXCEPT ![s] = call]
  <2>1. CASE Read(s)
    BY <1>2, <2>1 DEF Read
  <2>2. CASE ReadFails(s)
    BY <1>2, <2>2 DEF ReadFails
  <2>3. CASE ReadTimesOut(s)
    <3>. DEFINE spent == calls[s].spent + FetchTimeout
                call == IF spent > WebhookTimeout THEN [calls[s] EXCEPT !.decision = Unanswered]
                        ELSE Answered(calls[s], FALSE)
    <3>1. spent \in Nat
      BY <1>1, AdmissionAssumption DEF Calls
    <3>2. call \in Calls
      BY <1>1, <1>2, <1>4
    <3>3. calls' = [calls EXCEPT ![s] = [call EXCEPT !.spent = spent]]
      BY <2>3 DEF ReadTimesOut
    <3>. HIDE DEF spent, call
    <3>4. [call EXCEPT !.spent = spent] \in Calls
      BY <3>1, <3>2 DEF Calls
    <3>. QED BY <3>3, <3>4
  <2>4. CASE CallLost(s)
    <3>1. calls' = [calls EXCEPT ![s] = [calls[s] EXCEPT !.decision = Unanswered]]
      BY <2>4 DEF CallLost
    <3>. QED BY <1>1, <1>4, <3>1
  <2>. QED BY <2>1, <2>2, <2>3, <2>4
<1>6. calls' \in [Slots -> Calls \cup {None}]
  BY <1>5 DEF TypeOK
<1>7. /\ UNCHANGED <<obj, git, owner, ns, cache, applied>>
      /\ UNCHANGED budget \/ Spend("faults")
  BY DEF Read, ReadFails, ReadTimesOut, CallLost
<1>8. budget' \in [requests : 0..MaxRequests, changes : 0..MaxChanges, faults : 0..MaxFaults]
  BY <1>7, SpendType DEF TypeOK
<1>. QED BY <1>6, <1>7, <1>8 DEF TypeOK

LEMMA AppliedType ==
    ASSUME TypeOK, NEW call \in Calls
    PROVE  AppliedAfter(call) \in [Leaves -> Values \cup {Absent}]
<1>1. call.req.new.doc \in [Leaves -> Values \cup {Absent}]
  BY DocsAreFunctions DEF Calls, Requests, Objects
<1>2. applied \in [Leaves -> Values \cup {Absent}]
  BY DEF TypeOK
<1>3. CASE call.req.by = "flux"
  BY <1>1, <1>3 DEF AppliedAfter
<1>4. CASE call.req.by # "flux" /\ (call.req.op = "CREATE" \/ Exempt(call))
  BY <1>4 DEF AppliedAfter, Nothing
<1>5. CASE call.req.by # "flux" /\ ~(call.req.op = "CREATE" \/ Exempt(call))
  BY <1>2, <1>5 DEF AppliedAfter
<1>. QED BY <1>3, <1>4, <1>5

LEMMA CommitType ==
    ASSUME TypeOK, NEW s \in Slots,
           CommitWrite(s) \/ CommitDelete(s) \/ Refused(s) \/ Conflicted(s)
    PROVE  TypeOK'
<1>1. calls' \in [Slots -> Calls \cup {None}] /\ UNCHANGED <<git, owner, ns, cache, budget>>
  BY DEF CommitWrite, CommitDelete, Refused, Conflicted, Return, TypeOK
<1>2. CASE CommitWrite(s)
  <2>1. calls[s] \in Calls
    BY <1>2 DEF CommitWrite, Finished, TypeOK
  <2>2. obj' \in Objects
    BY <1>2, <2>1 DEF CommitWrite, Calls, Requests
  <2>3. applied' \in [Leaves -> Values \cup {Absent}]
    BY <1>2, <2>1, AppliedType DEF CommitWrite
  <2>. QED BY <1>1, <2>2, <2>3 DEF TypeOK
<1>3. CASE CommitDelete(s)
  <2>1. calls[s] \in Calls /\ calls[s].req.op = "DELETE" /\ obj = calls[s].req.old
    BY <1>3 DEF CommitDelete, Finished, Current, TypeOK
  <2>2. obj \in Objects
    BY <2>1 DEF Calls, Requests
  <2>3. [obj EXCEPT !.deleting = TRUE] \in Objects
    BY <2>2 DEF Objects
  <2>4. obj' \in Objects \cup {None}
    BY <1>3, <2>3 DEF CommitDelete
  <2>5. applied' \in [Leaves -> Values \cup {Absent}]
    BY <1>3 DEF CommitDelete, Nothing, TypeOK
  <2>. QED BY <1>1, <2>4, <2>5 DEF TypeOK
<1>4. CASE Refused(s) \/ Conflicted(s)
  BY <1>1, <1>4 DEF Refused, Conflicted, TypeOK
<1>. QED BY <1>2, <1>3, <1>4

LEMMA WorldType ==
    ASSUME TypeOK,
           \/ FluxRecordsInventory \/ GitChanges \/ OwnerChanges
           \/ NamespaceChanges \/ CacheSync \/ Finalized
    PROVE  TypeOK'
<1>1. CASE FluxRecordsInventory
  <2>1. \E listing \in {"empty", "listed", "others"} :
           owner' = [owner EXCEPT !.inventory = listing]
    BY <1>1 DEF FluxRecordsInventory, TypeOK, Owner
  <2>2. owner' \in Owner
    BY <2>1 DEF TypeOK, Owner
  <2>. QED BY <1>1, <2>2 DEF FluxRecordsInventory, TypeOK
<1>2. CASE GitChanges
  BY <1>2, SpendType DEF GitChanges, TypeOK
<1>3. CASE OwnerChanges
  <2>1. owner' \in Owner
    BY <1>3 DEF OwnerChanges, TypeOK, Owner
  <2>. QED BY <1>3, <2>1, SpendType DEF OwnerChanges, TypeOK
<1>4. CASE NamespaceChanges
  <2>1. ns' \in NS
    BY <1>4 DEF NamespaceChanges, Labellings, TypeOK, NS
  <2>. QED BY <1>4, <2>1, SpendType DEF NamespaceChanges, TypeOK
<1>5. CASE CacheSync
  BY <1>5 DEF CacheSync, TypeOK
<1>6. CASE Finalized
  BY <1>6 DEF Finalized, TypeOK, Nothing
<1>. QED BY <1>1, <1>2, <1>3, <1>4, <1>5, <1>6

LEMMA NextType == TypeOK /\ [Next]_vars => TypeOK'
<1>. SUFFICES ASSUME TypeOK, [Next]_vars PROVE TypeOK'
  OBVIOUS
<1>1. ASSUME NEW s \in Slots, NEW user \in Clients,
             \/ ClientCreate(s, user) \/ ClientUpdate(s, user)
             \/ ClientScale(s, user) \/ ClientDelete(s, user)
      PROVE  TypeOK'
  BY <1>1, ClientType
<1>2. ASSUME NEW s \in Slots, NamespaceTeardown(s) \/ FluxApply(s) \/ FluxPrune(s)
      PROVE  TypeOK'
  BY <1>2, FluxType
<1>3. ASSUME NEW s \in Slots, Read(s) \/ ReadFails(s) \/ ReadTimesOut(s) \/ CallLost(s)
      PROVE  TypeOK'
  BY <1>3, ReadType
<1>4. ASSUME NEW s \in Slots,
             CommitWrite(s) \/ CommitDelete(s) \/ Refused(s) \/ Conflicted(s)
      PROVE  TypeOK'
  BY <1>4, CommitType
<1>5. ASSUME \/ FluxRecordsInventory \/ GitChanges \/ OwnerChanges
             \/ NamespaceChanges \/ CacheSync \/ Finalized
      PROVE  TypeOK'
  BY <1>5, WorldType
<1>6. CASE UNCHANGED vars
  BY <1>6 DEF vars, TypeOK
<1>. QED BY <1>1, <1>2, <1>3, <1>4, <1>5, <1>6 DEF Next

(***************************************************************************)
(* TypeOK holds for every number of requests in flight, every document     *)
(* shape, cache content and fault: in particular no evaluation ends        *)
(* outside the reasons.go contract or without the step it waits at.        *)
(***************************************************************************)
THEOREM TypeCorrect == Spec => []TypeOK
BY InitType, NextType, PTL DEF Spec

----------------------------------------------------------------------------
(***************************************************************************)
(* The life of a call: it is submitted, it waits, a read returns or its    *)
(* caller gives up on it.  What is shown of every one of these steps holds *)
(* of every call in flight, whatever the other slots do.                   *)
(***************************************************************************)
Waiting(call) == call \in Calls /\ call.decision.step \in OwnerReads \cup NamespaceReads

LEMMA ReadReturns ==
    ASSUME TypeOK, NEW s \in Slots,
           Read(s) \/ ReadFails(s) \/ ReadTimesOut(s) \/ CallLost(s)
    PROVE  /\ Waiting(calls[s])
           /\ \E spent \in Nat, call \in Calls :
                 /\ calls' = [calls EXCEPT ![s] = [call EXCEPT !.spent = spent]]
                 /\ \/ call = [calls[s] EXCEPT !.decision = Unanswered]
                    \/ \E found \in BOOLEAN : call = Answered(calls[s], found)
<1>1. Waiting(calls[s])
  BY DEF Read, ReadFails, ReadTimesOut, CallLost, Reading, TypeOK, Waiting
<1>2. \A found \in BOOLEAN : Answered(calls[s], found) \in Calls
  BY <1>1, AnsweredType DEF Waiting
<1>. DEFINE lost == [calls[s] EXCEPT !.decision = Unanswered]
<1>3. lost \in Calls
  BY <1>1 DEF Waiting, Calls, Decisions, Unanswered
<1>4. \A call \in Calls : call.spent \in Nat /\ [call EXCEPT !.spent = call.spent] = call
  BY DEF Calls
<1>5. CASE Read(s) \/ ReadFails(s)
  <2>1. PICK found \in BOOLEAN : calls' = [calls EXCEPT ![s] = Answered(calls[s], found)]
    BY <1>5 DEF Read, ReadFails
  <2>. QED BY <1>1, <1>2, <1>4, <2>1
<1>6. CASE ReadTimesOut(s)
  <2>. DEFINE spent == calls[s].spent + FetchTimeout
              call == IF spent > WebhookTimeout THEN lost ELSE Answered(calls[s], FALSE)
  <2>1. spent \in Nat
    BY <1>1, AdmissionAssumption DEF Waiting, Calls
  <2>2. call \in Calls /\ (call = lost \/ call = Answered(calls[s], FALSE))
    BY <1>2, <1>3
  <2>3. calls' = [calls EXCEPT ![s] = [call EXCEPT !.spent = spent]]
    BY <1>6 DEF ReadTimesOut
  <2>. HIDE DEF spent, call
  <2>. QED BY <1>1, <2>1, <2>2, <2>3
<1>7. CASE CallLost(s)
  <2>1. calls' = [calls EXCEPT ![s] = lost]
    BY <1>7 DEF CallLost
  <2>. HIDE DEF lost
  <2>2. calls' = [calls EXCEPT ![s] = [lost EXCEPT !.spent = lost.spent]]
    BY <1>3, <1>4, <2>1
  <2>. QED BY <1>1, <1>3, <1>4, <2>2 DEF lost
<1>. QED BY <1>5, <1>6, <1>7

LEMMA CallStep ==
    ASSUME TypeOK, [Next]_vars, NEW s \in Slots, calls'[s] # None
    PROVE  \/ calls'[s] = calls[s]
           \/ \E req \in Requests : /\ calls'[s] = Call(req)
                                    /\ ClientRequest(req) \/ FluxRequest(req)
           \/ /\ Waiting(calls[s]) /\ calls[s] # None
              /\ \E spent \in Nat, call \in Calls :
                    /\ calls'[s] = [call EXCEPT !.spent = spent]
                    /\ \/ call = [calls[s] EXCEPT !.decision = Unanswered]
                       \/ \E found \in BOOLEAN : call = Answered(calls[s], found)
<1>1. DOMAIN calls = Slots
  BY DEF TypeOK
<1>2. ASSUME NEW t \in Slots, NEW req, Submit(t, req), ClientRequest(req) \/ FluxRequest(req)
      PROVE  \/ calls'[s] = calls[s]
             \/ \E r \in Requests : /\ calls'[s] = Call(r)
                                    /\ ClientRequest(r) \/ FluxRequest(r)
  <2>1. req \in Requests
    BY <1>2 DEF ClientRequest, FluxRequest
  <2>2. calls'[s] = IF s = t THEN Call(req) ELSE calls[s]
    BY <1>1, <1>2 DEF Submit
  <2>. QED BY <1>2, <2>1, <2>2
<1>3. ASSUME NEW t \in Slots, NEW user \in Clients,
             \/ ClientCreate(t, user) \/ ClientUpdate(t, user)
             \/ ClientScale(t, user) \/ ClientDelete(t, user)
      PROVE  \E req : Submit(t, req) /\ ClientRequest(req)
  BY <1>3, ClientSubmits
<1>4. ASSUME NEW t \in Slots, NamespaceTeardown(t)
      PROVE  \E req : Submit(t, req) /\ ClientRequest(req)
  BY <1>4, TeardownSubmits
<1>5. ASSUME NEW t \in Slots, FluxApply(t) \/ FluxPrune(t)
      PROVE  \E req : Submit(t, req) /\ FluxRequest(req)
  BY <1>5, FluxSubmits
<1>6. ASSUME NEW t \in Slots,
             Read(t) \/ ReadFails(t) \/ ReadTimesOut(t) \/ CallLost(t)
      PROVE  \/ calls'[s] = calls[s]
             \/ /\ Waiting(calls[s]) /\ calls[s] # None
                /\ \E spent \in Nat, call \in Calls :
                      /\ calls'[s] = [call EXCEPT !.spent = spent]
                      /\ \/ call = [calls[s] EXCEPT !.decision = Unanswered]
                         \/ \E found \in BOOLEAN : call = Answered(calls[s], found)
  <2>1. PICK spent \in Nat, call \in Calls :
           /\ calls' = [calls EXCEPT ![t] = [call EXCEPT !.spent = spent]]
           /\ \/ call = [calls[t] EXCEPT !.decision = Unanswered]
              \/ \E found \in BOOLEAN : call = Answered(calls[t], found)
    BY <1>6, ReadReturns
  <2>2. Waiting(calls[t]) /\ calls[t] # None
    BY <1>6, ReadReturns DEF Read, ReadFails, ReadTimesOut, CallLost, Reading
  <2>3. calls'[s] = IF s = t THEN [call EXCEPT !.spent = spent] ELSE calls[s]
    BY <1>1, <2>1
  <2>. QED BY <2>1, <2>2, <2>3
<1>7. ASSUME NEW t \in Slots,
             CommitWrite(t) \/ CommitDelete(t) \/ Refused(t) \/ Conflicted(t)
      PROVE  calls'[s] = calls[s]
  BY <1>1, <1>7 DEF CommitWrite, CommitDelete, Refused, Conflicted, Return
<1>8. ASSUME \/ FluxRecordsInventory \/ GitChanges \/ OwnerChanges
             \/ NamespaceChanges \/ CacheSync \/ Finalized
             \/ UNCHANGED vars
      PROVE  calls'[s] = calls[s]
  BY <1>8 DEF FluxRecordsInventory, GitChanges, OwnerChanges, NamespaceChanges, CacheSync,
              Finalized, vars
<1>. QED BY <1>2, <1>3, <1>4, <1>5, <1>6, <1>7, <1>8 DEF Next

----------------------------------------------------------------------------
(***************************************************************************)
(* Two guards of the handler, for every kind of owner.  A write of the     *)
(* core controller that keeps the owner labels waits for nothing but the   *)
(* scope of the namespace and is then allowed; a call whose inventory was  *)
(* seen to list the object was denied by that very read.                   *)
(***************************************************************************)
OwnerWrite(req) ==
    /\ req.by = "flux" /\ req.user = FluxController
    /\ req.op = "UPDATE" => OwnerLabelsKept(req)

Settled(decision, steps) ==
    \/ decision.step \in steps \cup {"unanswered"}
    \/ decision.step = "decided" /\ decision.allowed

GuardInv(call) ==
    /\ call.req.by = "flux" => call.req.fault = "none"
    /\ OwnerWrite(call.req) => Settled(call.decision, {"scope"})
    /\ call.listed => call.decision.step = "decided" /\ ~call.decision.allowed

LEMMA OwnerIsHeard ==
    ASSUME NEW req, OwnerWrite(req), req.fault = "none"
    PROVE  Settled(ManagementGate(req), {}) /\ Settled(Handle(req), {"scope"})
<1>1. IsFluxController(req.user)
  BY AdmissionAssumption DEF OwnerWrite
<1>2. checkFluxOwnership(req) = Allow("allowed_owning_flux_controller")
  BY DEF checkFluxOwnership, OwnerWrite
<1>3. ManagementGate(req) \in
         {Allow("allowed_not_managed"), Allow("allowed_owning_flux_controller")}
  BY <1>1, <1>2 DEF ManagementGate, checkBypass
<1>4. Settled(ManagementGate(req), {})
  BY <1>3 DEF Settled, Allow
<1>5. Handle(req) \in
         {Allow("allowed_subresource"), Allow("allowed_excluded_group"),
          Allow("allowed_namespace_filter"), Await("scope"), ManagementGate(req)}
  BY DEF Handle
<1>6. Settled(ManagementGate(req), {"scope"})
  BY <1>4 DEF Settled
<1>7. Settled(Await("scope"), {"scope"}) /\ \A reason : Settled(Allow(reason), {"scope"})
  BY DEF Settled, Await, Allow
<1>. QED BY <1>4, <1>5, <1>6, <1>7

LEMMA SubmittedGuard ==
    ASSUME NEW req \in Requests, ClientRequest(req) \/ FluxRequest(req)
    PROVE  GuardInv(Call(req))
<1>1. Call(req).req = req /\ Call(req).decision = Handle(req) /\ Call(req).listed = FALSE
  BY DEF Call
<1>2. req.by = "flux" => req.fault = "none"
  BY DEF ClientRequest, FluxRequest
<1>. QED BY <1>1, <1>2, OwnerIsHeard DEF GuardInv, OwnerWrite

LEMMA AnsweredGuard ==
    ASSUME TypeOK, NEW call, Waiting(call), GuardInv(call), NEW found \in BOOLEAN
    PROVE  GuardInv(Answered(call, found))
<1>. DEFINE answer == Answered(call, found)
            step == call.decision.step
<1>1. /\ answer.req = call.req
      /\ answer.decision = Resume(step, call.req, found, cache.owner, cache.ns)
      /\ answer.listed = (call.listed \/ (step = "inventory" /\ found
                                            /\ cache.owner.inventory = "listed"))
  BY DEF Answered, Waiting, Calls
<1>2. step \notin {"decided", "unanswered"}
  BY DEF Waiting, OwnerReads, NamespaceReads
<1>3. ~call.listed
  BY <1>2 DEF GuardInv
<1>4. ASSUME OwnerWrite(call.req) PROVE Settled(answer.decision, {"scope"})
  <2>1. step = "scope" /\ call.req.fault = "none"
    BY <1>2, <1>4 DEF GuardInv, Settled, OwnerWrite
  <2>2. answer.decision \in {Allow("allowed_namespace_filter"), ManagementGate(call.req)}
    BY <1>1, <2>1 DEF Resume, AfterScope
  <2>. QED BY <1>4, <2>1, <2>2, OwnerIsHeard DEF Settled, Allow
<1>5. ASSUME answer.listed PROVE answer.decision = Deny("denied_create_flux_labels")
  <2>1. step = "inventory" /\ found /\ cache.owner.inventory = "listed"
    BY <1>1, <1>3, <1>5
  <2>. QED BY <1>1, <2>1 DEF Resume, AfterInventory, CreateDecision
<1>. HIDE DEF answer
<1>6. GuardInv(answer)
  BY <1>1, <1>4, <1>5 DEF GuardInv, Deny
<1>. QED BY <1>6 DEF answer

GuardsInv == \A s \in Slots : calls[s] # None => GuardInv(calls[s])

LEMMA GuardsNext == TypeOK /\ GuardsInv /\ [Next]_vars => GuardsInv'
<1>. SUFFICES ASSUME TypeOK, GuardsInv, [Next]_vars, NEW s \in Slots, calls'[s] # None
              PROVE  GuardInv(calls'[s])
  BY DEF GuardsInv
<1>1. CASE calls'[s] = calls[s]
  BY <1>1 DEF GuardsInv
<1>2. ASSUME NEW req \in Requests, calls'[s] = Call(req), ClientRequest(req) \/ FluxRequest(req)
      PROVE  GuardInv(calls'[s])
  BY <1>2, SubmittedGuard
<1>3. ASSUME Waiting(calls[s]), calls[s] # None, NEW spent \in Nat, NEW call \in Calls,
             calls'[s] = [call EXCEPT !.spent = spent],
             \/ call = [calls[s] EXCEPT !.decision = Unanswered]
             \/ \E found \in BOOLEAN : call = Answered(calls[s], found)
      PROVE  GuardInv(calls'[s])
  <2>1. GuardInv(calls[s])
    BY <1>3 DEF GuardsInv
  <2>2. GuardInv(call)
    <3>1. CASE call = [calls[s] EXCEPT !.decision = Unanswered]
      <4>1. ~calls[s].listed
        BY <1>3, <2>1 DEF GuardInv, Waiting, OwnerReads, NamespaceReads
      <4>2. /\ call.req = calls[s].req /\ call.listed = calls[s].listed
            /\ call.decision.step = "unanswered"
        BY <1>3, <3>1 DEF Waiting, Calls, Unanswered
      <4>. QED BY <2>1, <4>1, <4>2 DEF GuardInv, Settled
    <3>2. ASSUME NEW found \in BOOLEAN, call = Answered(calls[s], found)
          PROVE  GuardInv(call)
      BY <1>3, <2>1, <3>2, AnsweredGuard
    <3>. QED BY <1>3, <3>1, <3>2
  <2>3. /\ calls'[s].req = call.req /\ calls'[s].decision = call.decision
        /\ calls'[s].listed = call.listed
    BY <1>3 DEF Calls
  <2>. QED BY <2>2, <2>3 DEF GuardInv
<1>. QED BY <1>1, <1>2, <1>3, CallStep

LEMMA GuardsCorrect == Spec => []GuardsInv
<1>1. Init => GuardsInv
  BY DEF Init, GuardsInv
<1>. QED BY <1>1, GuardsNext, TypeCorrect, PTL DEF Spec

(***************************************************************************)
(* The core Flux controllers can repair and remove what they own: whatever *)
(* the cache answers and whatever the object carries, no write of theirs   *)
(* that keeps the owner labels is ever denied (isOwningFluxReconciler).    *)
(***************************************************************************)
THEOREM OwnerIsNeverLockedOut == Spec => []OwnerNotLockedOut
<1>1. GuardsInv => OwnerNotLockedOut
  BY DEF GuardsInv, GuardInv, OwnerWrite, Settled, OwnerNotLockedOut
<1>. QED BY <1>1, GuardsCorrect, PTL

(***************************************************************************)
(* A name the owner's inventory was seen to list is never taken, whatever  *)
(* identity, ownerReference or annotation the request carries              *)
(* (checkDerivedResourceCreate).                                           *)
(***************************************************************************)
THEOREM NamesAreNotSquatted == Spec => []NoSquatting
<1>1. GuardsInv => NoSquatting
  BY DEF GuardsInv, GuardInv, NoSquatting
<1>. QED BY <1>1, GuardsCorrect, PTL
=============================================================================
