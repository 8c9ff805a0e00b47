-------------------------- MODULE AuditTrail_proofs -------------------------
(***************************************************************************)
(* The handler's metrics count what was answered, for any number of        *)
(* concurrent calls and any requests.                                      *)
(***************************************************************************)
EXTENDS AuditTrail, FiniteSetTheorems, WellFoundedInduction, TLAPS

----------------------------------------------------------------------------
(***************************************************************************)
(* A sum of counters is the number of their units: <<x, i>> is the i-th    *)
(* increment of f[x].  The recursion that defines the sum takes any one    *)
(* element off the set, so its value at each subset is that number.        *)
(***************************************************************************)
Units(f, S) == UNION { {x} \X (1 .. f[x]) : x \in S }

AnyOf(s) == CHOOSE x \in s : TRUE
SumStep(f, sum, s) == IF s = {} THEN 0 ELSE f[AnyOf(s)] + sum[s \ {AnyOf(s)}]

(***************************************************************************)
(* An interval 1 .. n has n elements.                                      *)
(***************************************************************************)
LEMMA IntervalSize ==
    ASSUME NEW n \in Nat PROVE IsFiniteSet(1 .. n) /\ Cardinality(1 .. n) = n
<1>1. /\ IsFiniteSet(1 .. n)
      /\ Cardinality(1 .. n) = IF 1 > n THEN 0 ELSE n - 1 + 1
  <2>1. 1 \in Int /\ n \in Int
    OBVIOUS
  <2>. QED BY <2>1, FS_Interval
<1>. QED BY <1>1

LEMMA UnitsFinite ==
    ASSUME NEW f, NEW S, IsFiniteSet(S), \A x \in S : f[x] \in Nat
    PROVE  IsFiniteSet(Units(f, S)) /\ Cardinality(Units(f, S)) \in Nat
<1>. DEFINE column(x) == {x} \X (1 .. f[x])
            Columns == { column(x) : x \in S }
<1>1. \A x \in S : IsFiniteSet(column(x))
  <2>. SUFFICES ASSUME NEW x \in S PROVE IsFiniteSet(column(x))
    OBVIOUS
  <2>1. IsFiniteSet({x}) /\ IsFiniteSet(1 .. f[x])
    BY FS_Singleton, IntervalSize
  <2>. QED BY <2>1, FS_Product
<1>2. IsFiniteSet(Columns)
  <2>1. Columns = { column(x) : x \in S }
    OBVIOUS
  <2>. DEFINE g == [x \in S |-> column(x)]
  <2>2. g \in Surjection(S, Columns)
    <3>1. g \in [S -> Columns]
      OBVIOUS
    <3>2. \A c \in Columns : \E x \in S : g[x] = c
      OBVIOUS
    <3>. QED BY <3>1, <3>2, Zenon DEF Surjection
  <2>. QED BY <2>2, FS_Surjection
<1>3. IsFiniteSet(UNION Columns)
  <2>1. \A c \in Columns : IsFiniteSet(c)
    BY <1>1
  <2>. HIDE DEF Columns
  <2>. QED BY <1>2, <2>1, FS_UNION
<1>4. Units(f, S) = UNION Columns
  BY DEF Units
<1>. QED BY <1>3, <1>4, FS_CardinalityType

LEMMA UnitsStep ==
    ASSUME NEW f, NEW S, IsFiniteSet(S), \A x \in S : f[x] \in Nat, NEW c \in S
    PROVE  Cardinality(Units(f, S)) = f[c] + Cardinality(Units(f, S \ {c}))
<1>. DEFINE column == {c} \X (1 .. f[c])
            others == Units(f, S \ {c})
<1>1. IsFiniteSet(column) /\ Cardinality(column) = f[c]
  <2>1. /\ IsFiniteSet({c}) /\ Cardinality({c}) = 1
        /\ IsFiniteSet(1 .. f[c]) /\ Cardinality(1 .. f[c]) = f[c]
    BY FS_Singleton, IntervalSize
  <2>2. IsFiniteSet(column) /\ Cardinality(column) = 1 * f[c]
    BY <2>1, FS_Product
  <2>. QED BY <2>2
<1>2. IsFiniteSet(others) /\ Cardinality(others) \in Nat
  <2>1. IsFiniteSet(S \ {c})
    BY FS_RemoveElement
  <2>. QED BY <2>1, UnitsFinite
<1>3. Units(f, S) = column \cup others
  BY DEF Units
<1>4. column \cap others = {}
  BY DEF Units
<1>. HIDE DEF column, others
<1>5. Cardinality(column \cup others) = Cardinality(column) + Cardinality(others) - Cardinality({})
  BY <1>1, <1>2, <1>4, FS_Union
<1>. QED BY <1>1, <1>2, <1>3, <1>5, FS_EmptySet DEF others

LEMMA UnitsAreSummed ==
    ASSUME NEW f, NEW S, IsFiniteSet(S), \A x \in S : f[x] \in Nat,
           NEW s \in SUBSET S, NEW sum,
           s # {} => sum[s \ {AnyOf(s)}] = Cardinality(Units(f, s \ {AnyOf(s)}))
    PROVE  SumStep(f, sum, s) = Cardinality(Units(f, s))
<1>1. CASE s = {}
  <2>1. Units(f, s) = {}
    BY <1>1 DEF Units
  <2>. QED BY <1>1, <2>1, FS_EmptySet DEF SumStep
<1>2. CASE s # {}
  <2>1. AnyOf(s) \in s
    BY <1>2 DEF AnyOf
  <2>2. IsFiniteSet(s)
    BY FS_Subset
  <2>. QED BY <1>2, <2>1, <2>2, UnitsStep DEF SumStep
<1>. QED BY <1>1, <1>2

LEMMA SumIsUnique ==
    ASSUME NEW f, NEW S, IsFiniteSet(S), \A x \in S : f[x] \in Nat,
           NEW sum, sum = [s \in SUBSET S |-> SumStep(f, sum, s)]
    PROVE  \A s \in SUBSET S : sum[s] = Cardinality(Units(f, s))
<1>. DEFINE Wrong == { s \in SUBSET S : sum[s] # Cardinality(Units(f, s)) }
            Sizes == { Cardinality(s) : s \in Wrong }
<1>1. \A s \in SUBSET S : sum[s] = SumStep(f, sum, s)
  OBVIOUS
<1>2. ASSUME NEW s \in Wrong
      PROVE  Cardinality(s) \in Nat /\ \E t \in Wrong : Cardinality(t) < Cardinality(s)
  <2>1. IsFiniteSet(s) /\ Cardinality(s) \in Nat
    BY <1>2, FS_Subset, FS_CardinalityType
  <2>. DEFINE t == s \ {AnyOf(s)}
  <2>2. s # {} /\ sum[t] # Cardinality(Units(f, t))
    BY <1>1, <1>2, UnitsAreSummed
  <2>3. AnyOf(s) \in s
    BY <2>2 DEF AnyOf
  <2>4. Cardinality(t) = Cardinality(s) - 1
    BY <2>1, <2>3, FS_RemoveElement
  <2>5. t \in Wrong
    BY <1>2, <2>2
  <2>. HIDE DEF t
  <2>. QED BY <2>1, <2>4, <2>5
<1>3. Wrong = {}
  <2>. SUFFICES ASSUME Wrong # {} PROVE FALSE
    OBVIOUS
  <2>. HIDE DEF Wrong
  <2>1. Sizes \subseteq Nat /\ Sizes # {}
    BY <1>2
  <2>2. PICK m \in Sizes : \A k \in Sizes : ~(<<k, m>> \in OpToRel(<, Nat))
    BY <2>1, NatLessThanWellFounded, WFMin
  <2>3. \A k \in Sizes : ~(k < m)
    BY <2>1, <2>2 DEF OpToRel
  <2>4. PICK s \in Wrong : m = Cardinality(s)
    BY <2>2
  <2>. QED BY <1>2, <2>3, <2>4
<1>. QED BY <1>3

LEMMA SumIsUnits ==
    ASSUME NEW f, NEW S, IsFiniteSet(S), \A x \in S : f[x] \in Nat
    PROVE  SumFunctionOnSet(f, S) = Cardinality(Units(f, S))
<1>. DEFINE closed == [s \in SUBSET S |-> Cardinality(Units(f, s))]
            sum == CHOOSE g : g = [s \in SUBSET S |-> SumStep(f, g, s)]
<1>1. closed = [s \in SUBSET S |-> SumStep(f, closed, s)]
  <2>1. ASSUME NEW s \in SUBSET S PROVE SumStep(f, closed, s) = Cardinality(Units(f, s))
    <3>1. closed[s \ {AnyOf(s)}] = Cardinality(Units(f, s \ {AnyOf(s)}))
      OBVIOUS
    <3>. HIDE DEF closed
    <3>. QED BY <3>1, UnitsAreSummed
  <2>. QED BY <2>1
<1>2. sum = [s \in SUBSET S |-> SumStep(f, sum, s)]
  <2>. HIDE DEF closed
  <2>. QED BY <1>1
<1>3. SumFunctionOnSet(f, S) = sum[S]
  BY DEF SumFunctionOnSet, FoldFunctionOnSet, MapThenFoldSet, SumStep, AnyOf
<1>4. \A s \in SUBSET S : sum[s] = Cardinality(Units(f, s))
  <2>. HIDE DEF sum
  <2>. QED BY <1>2, SumIsUnique
<1>5. S \in SUBSET S
  OBVIOUS
<1>. HIDE DEF sum
<1>. QED BY <1>3, <1>4, <1>5

(***************************************************************************)
(* One increment adds one unit to the sums its counter is in.              *)
(***************************************************************************)
One(holds) == IF holds THEN 1 ELSE 0

LEMMA OneIncrement ==
    ASSUME NEW D, NEW f \in [D -> Nat], NEW r \in D, NEW g,
           g = [x \in D |-> f[x] + (IF x \in {r} THEN 1 ELSE 0)],
           NEW S \in SUBSET D, IsFiniteSet(S)
    PROVE  /\ g \in [D -> Nat]
           /\ SumFunctionOnSet(g, S) = SumFunctionOnSet(f, S) + One(r \in S)
<1>1. g \in [D -> Nat]
  OBVIOUS
<1>2. /\ SumFunctionOnSet(g, S) = Cardinality(Units(g, S))
      /\ SumFunctionOnSet(f, S) = Cardinality(Units(f, S))
      /\ IsFiniteSet(Units(f, S)) /\ Cardinality(Units(f, S)) \in Nat
  BY <1>1, SumIsUnits, UnitsFinite
<1>3. CASE r \notin S
  <2>1. \A x \in S : g[x] = f[x]
    BY <1>3
  <2>2. Units(g, S) = Units(f, S)
    BY <2>1 DEF Units
  <2>. QED BY <1>1, <1>2, <1>3, <2>2 DEF One
<1>4. CASE r \in S
  <2>. DEFINE unit == <<r, f[r] + 1>>
  <2>1. unit \notin Units(f, S)
    BY DEF Units
  <2>2. \A x \in S : g[x] = IF x = r THEN f[x] + 1 ELSE f[x]
    OBVIOUS
  <2>3. \A x \in S : {x} \X (1 .. g[x])
                       = ({x} \X (1 .. f[x])) \cup (IF x = r THEN {unit} ELSE {})
    BY <2>2
  <2>4. Units(g, S) = Units(f, S) \cup {unit}
    BY <1>4, <2>3 DEF Units
  <2>5. Cardinality(Units(f, S) \cup {unit}) = Cardinality(Units(f, S)) + 1
    BY <1>2, <2>1, FS_AddElement
  <2>. QED BY <1>1, <1>2, <1>4, <2>4, <2>5 DEF One
<1>. QED BY <1>3, <1>4

----------------------------------------------------------------------------
LEMMA ReasonsFinite ==
    IsFiniteSet(AllowedReasons) /\ IsFiniteSet(DeniedReasons) /\ IsFiniteSet(DecisionReasons)
<1>1. IsFiniteSet(AllowedReasons)
  <2>. DEFINE reasons ==
         << "allowed_not_managed", "allowed_namespace_filter", "allowed_owning_flux_controller",
            "allowed_bypass_annotation", "allowed_reconcile_disabled",
            "allowed_deletion_in_progress", "allowed_namespace_terminating",
            "allowed_no_flux_managed_fields", "allowed_no_field_conflict",
            "allowed_drift_ignored_field", "allowed_owned_resource", "allowed_system_controller",
            "allowed_not_in_owner_inventory", "allowed_subresource", "allowed_excluded_group",
            "allowed_unknown_operation" >>
  <2>1. /\ reasons \in Seq(AllowedReasons)
        /\ \A reason \in AllowedReasons : \E i \in 1 .. Len(reasons) : reasons[i] = reason
    BY DEF AllowedReasons
  <2>. HIDE DEF reasons
  <2>. QED BY <2>1 DEF IsFiniteSet
<1>2. IsFiniteSet(DeniedReasons)
  <2>. DEFINE reasons ==
         << "denied_metadata_error", "denied_parse_error", "denied_managed_fields_error",
            "denied_managed_fields_tampered", "denied_bypass_annotation_added",
            "denied_create_flux_labels", "denied_create_inventory_unavailable",
            "denied_delete_flux_managed", "denied_update_flux_managed_fields",
            "denied_wrong_flux_controller" >>
  <2>1. /\ reasons \in Seq(DeniedReasons)
        /\ \A reason \in DeniedReasons : \E i \in 1 .. Len(reasons) : reasons[i] = reason
    BY DEF DeniedReasons
  <2>. HIDE DEF reasons
  <2>. QED BY <2>1 DEF IsFiniteSet
<1>. QED BY <1>1, <1>2, FS_Union DEF DecisionReasons

(***************************************************************************)
(* A decision says whether it admits by its reason (reasons.go); a read to *)
(* wait for has none.                                                      *)
(***************************************************************************)
LEMMA DecisionFacts ==
    ASSUME NEW d \in Decisions
    PROVE  \/ /\ d.step = "decided" /\ d.reason \in DecisionReasons
              /\ d.allowed \in BOOLEAN
              /\ ~d.allowed <=> d.reason \in DeniedReasons
           \/ /\ d.step \in OwnerReads \cup NamespaceReads /\ d.step # "decided"
              /\ d.reason # "denied_wrong_flux_controller"
<1>1. CASE \E reason \in AllowedReasons : d = Allow(reason)
  <2>1. PICK reason \in AllowedReasons : d = Allow(reason)
    BY <1>1
  <2>2. d.step = "decided" /\ d.allowed = TRUE /\ d.reason = reason
    BY <2>1 DEF Allow
  <2>3. reason \notin DeniedReasons
    BY DEF AllowedReasons, DeniedReasons
  <2>. QED BY <2>2, <2>3 DEF DecisionReasons
<1>2. CASE \E reason \in DeniedReasons : d = Deny(reason)
  <2>1. PICK reason \in DeniedReasons : d = Deny(reason)
    BY <1>2
  <2>2. d.step = "decided" /\ d.allowed = FALSE /\ d.reason = reason
    BY <2>1 DEF Deny
  <2>. QED BY <2>2 DEF DecisionReasons
<1>3. CASE \E read \in OwnerReads \cup NamespaceReads : d = Await(read)
  <2>1. PICK read \in OwnerReads \cup NamespaceReads : d = Await(read)
    BY <1>3
  <2>2. d.step = read
    BY <2>1, Zenon DEF Await
  <2>3. d.reason # "denied_wrong_flux_controller"
    BY <2>1, Zenon DEF Await
  <2>. QED BY <2>2, <2>3 DEF OwnerReads, NamespaceReads
<1>. QED BY <1>1, <1>2, <1>3 DEF Decisions

LEMMA AllowIn ==
    ASSUME NEW reason \in AllowedReasons PROVE Allow(reason) \in Decisions
BY DEF Decisions

LEMMA DenyIn ==
    ASSUME NEW reason \in DeniedReasons PROVE Deny(reason) \in Decisions
BY DEF Decisions

LEMMA AwaitIn ==
    ASSUME NEW read \in OwnerReads \cup NamespaceReads PROVE Await(read) \in Decisions
BY DEF Decisions

(***************************************************************************)
(* Every way through Handle, and on from every read, ends in a decision.   *)
(***************************************************************************)
LEMMA OperationDecides ==
    ASSUME NEW req
    PROVE  /\ \A ignoreSet : FinishUpdate(req, ignoreSet) \in Decisions
           /\ \A listed, available : CreateDecision(req, listed, available) \in Decisions
           /\ operationDecision(req) \in Decisions
<1>. USE AllowIn, DenyIn, AwaitIn DEF AllowedReasons, DeniedReasons, OwnerReads
<1>1. \A ignoreSet : FinishUpdate(req, ignoreSet) \in Decisions
  BY DEF FinishUpdate
<1>2. \A listed, available : CreateDecision(req, listed, available) \in Decisions
  BY DEF CreateDecision
<1>3. checkUpdateFieldConflict(req) \in Decisions
  BY <1>1 DEF checkUpdateFieldConflict
<1>4. checkDeleteManaged(req) \in Decisions
  BY DEF checkDeleteManaged
<1>5. operationDecision(req) \in Decisions
  BY <1>2, <1>3, <1>4 DEF operationDecision
<1>. QED BY <1>1, <1>2, <1>5

LEMMA OwnershipDecides ==
    ASSUME NEW req
    PROVE  /\ \A isOwner \in BOOLEAN : Owning(req, isOwner) \in Decisions
           /\ checkBypass(req) \in Decisions
<1>. USE AllowIn, DenyIn, AwaitIn DEF AllowedReasons, DeniedReasons, OwnerReads, NamespaceReads
<1>1. NotOwner(req) \in Decisions
  BY OperationDecides DEF NotOwner
<1>2. checkFluxOwnership(req) \in Decisions
  BY DEF checkFluxOwnership
<1>3. \A isOwner \in BOOLEAN : Owning(req, isOwner) \in Decisions
  BY <1>1, <1>2 DEF Owning
<1>4. checkBypass(req) \in Decisions
  BY <1>1, <1>2, <1>3 DEF checkBypass, FallbackReconciler
<1>. QED BY <1>3, <1>4

LEMMA HandleDecides ==
    ASSUME NEW req PROVE Entry(req) \in Decisions /\ ManagementGate(req) \in Decisions
<1>. USE AllowIn, DenyIn, AwaitIn DEF AllowedReasons, DeniedReasons, OwnerReads, NamespaceReads
<1>1. ManagementGate(req) \in Decisions
  BY OwnershipDecides DEF ManagementGate
<1>2. Handle(req) \in Decisions
  BY <1>1 DEF Handle
<1>. QED BY <1>1, <1>2 DEF Entry

LEMMA ResumeDecides ==
    ASSUME NEW step \in OwnerReads \cup NamespaceReads,
           NEW req, NEW found, NEW owner, NEW namespace
    PROVE  Resume(step, req, found, owner, namespace) \in Decisions
<1>. USE AllowIn, DenyIn, AwaitIn DEF AllowedReasons, DeniedReasons, OwnerReads, NamespaceReads
<1>1. AfterScope(req, found, namespace) \in Decisions
  BY HandleDecides DEF AfterScope
<1>2. AfterOwner(req, found, owner) \in Decisions
  BY OwnershipDecides DEF AfterOwner, FallbackReconciler
<1>3. AfterTerminating(req, found, namespace) \in Decisions
  BY OperationDecides DEF AfterTerminating
<1>4. AfterInventory(req, found, owner) \in Decisions
  BY OperationDecides DEF AfterInventory
<1>5. AfterIgnore(req, found, owner) \in Decisions
  BY OperationDecides DEF AfterIgnore
<1>. QED BY <1>1, <1>2, <1>3, <1>4, <1>5 DEF Resume

----------------------------------------------------------------------------
(***************************************************************************)
(* A call stands where the handler returns with its decision: an early     *)
(* return's own label is the decision's reason, and a call reads until it  *)
(* is decided.                                                             *)
(***************************************************************************)
PlaceOK(pc, d) ==
    /\ pc \in Places
    /\ pc = "read" <=> d.step # "decided"
    /\ pc = "subresource" => d = Allow("allowed_subresource")
    /\ pc = "group" => d = Allow("allowed_excluded_group")
    /\ pc = "scope" => d = Allow("allowed_namespace_filter")
    /\ pc = "unmanaged" => d = Allow("allowed_not_managed")

LEMMA GatePlaced ==
    ASSUME NEW req
    PROVE  /\ GatePlace(req) \in {"unmanaged", "buildResponse"}
           /\ GatePlace(req) = "unmanaged" => ManagementGate(req) = Allow("allowed_not_managed")
BY DEF GatePlace, ManagementGate

LEMMA EntryPlaced ==
    ASSUME NEW req PROVE PlaceOK(At(EntryPlace(req), Entry(req)), Entry(req))
<1>1. CASE Entry(req).step # "decided"
  BY <1>1 DEF At, PlaceOK, Places
<1>2. CASE Entry(req).step = "decided"
  <2>1. At(EntryPlace(req), Entry(req)) = EntryPlace(req)
    BY <1>2 DEF At
  <2>2. /\ EntryPlace(req) \in EarlyReturns \cup {"buildResponse"}
        /\ EntryPlace(req) = "subresource" => req.subresource
        /\ EntryPlace(req) = "group" => ~req.subresource /\ Excluded(req)
        /\ EntryPlace(req) = "scope" => ~req.subresource /\ ~Excluded(req) /\ Namespace = "excluded"
        /\ EntryPlace(req) = "unmanaged" =>
              /\ ~req.subresource /\ ~Excluded(req) /\ Namespace # "excluded"
              /\ GatePlace(req) = "unmanaged"
    BY GatePlaced DEF EntryPlace, EarlyReturns
  <2>3. EntryPlace(req) = "subresource" => Entry(req) = Allow("allowed_subresource")
    BY <2>2 DEF Entry, Handle
  <2>4. EntryPlace(req) = "group" => Entry(req) = Allow("allowed_excluded_group")
    BY <2>2 DEF Entry, Handle, Excluded
  <2>5. EntryPlace(req) = "scope" => Entry(req) = Allow("allowed_namespace_filter")
    BY <2>2 DEF Entry, Handle, Excluded
  <2>6. EntryPlace(req) = "unmanaged" => Entry(req) = Allow("allowed_not_managed")
    <3>. SUFFICES ASSUME EntryPlace(req) = "unmanaged"
                  PROVE  Entry(req) = Allow("allowed_not_managed")
      OBVIOUS
    <3>1. Entry(req) \in {Await("scope"), ManagementGate(req)}
      BY <2>2 DEF Entry, Handle, Excluded
    <3>2. Await("scope").step = "scope"
      BY Zenon DEF Await
    <3>3. Entry(req) # Await("scope")
      BY <1>2, <3>2
    <3>. QED BY <2>2, <3>1, <3>3, GatePlaced
  <2>7. EntryPlace(req) \in Places /\ EntryPlace(req) # "read"
    BY <2>2 DEF Places, EarlyReturns
  <2>8. PlaceOK(EntryPlace(req), Entry(req))
    BY <1>2, <2>3, <2>4, <2>5, <2>6, <2>7 DEF PlaceOK
  <2>. QED BY <2>1, <2>8
<1>. QED BY <1>1, <1>2

LEMMA ResumePlaced ==
    ASSUME NEW step \in OwnerReads \cup NamespaceReads, NEW req, NEW found, NEW owner,
           NEW namespace, NEW d, d = Resume(step, req, found, owner, namespace)
    PROVE  PlaceOK(At(ResumePlace(step, req, found, namespace), d), d)
<1>1. CASE d.step # "decided"
  BY <1>1 DEF At, PlaceOK, Places
<1>2. CASE d.step = "decided"
  <2>. DEFINE place == ResumePlace(step, req, found, namespace)
  <2>1. At(place, d) = place
    BY <1>2 DEF At
  <2>2. /\ place \in {"scope", "unmanaged", "buildResponse"}
        /\ place = "scope" => step = "scope" /\ found /\ ~namespace.labelled
        /\ place = "unmanaged" =>
              step = "scope" /\ ~(found /\ ~namespace.labelled) /\ GatePlace(req) = "unmanaged"
    BY GatePlaced DEF ResumePlace
  <2>3. step = "scope" => d = AfterScope(req, found, namespace)
    BY DEF Resume
  <2>4. place = "scope" => d = Allow("allowed_namespace_filter")
    BY <2>2, <2>3 DEF AfterScope
  <2>5. place = "unmanaged" => d = Allow("allowed_not_managed")
    BY <2>2, <2>3, GatePlaced DEF AfterScope
  <2>. QED BY <1>2, <2>1, <2>2, <2>4, <2>5 DEF PlaceOK, Places, EarlyReturns
<1>. QED BY <1>1, <1>2

----------------------------------------------------------------------------
(***************************************************************************)
(* The calls in progress, and the sets of them that the counters are       *)
(* behind or ahead of the answers by.                                      *)
(***************************************************************************)
CallOK(call) ==
    /\ call \in Calls
    /\ PlaceOK(call.pc, call.decision)
    /\ call.timer = call.waited

CallsOK ==
    /\ calls \in [Slots -> Calls \cup {None}]
    /\ \A s \in Slots : calls[s] # None => CallOK(calls[s])

CountedIn(call) == call # None /\ call.pc \in {"denial", "respond"}
CountedAsIn(call, reason) == CountedIn(call) /\ call.decision.reason = reason
CountedDenialIn(call) == CountedIn(call) /\ ~call.decision.allowed
JudgedDenialIn(call) == call # None /\ call.pc = "respond" /\ ~call.decision.allowed
PendingIn(call) ==
    /\ call # None /\ ~CountedIn(call)
    /\ call.decision.reason = "denied_wrong_flux_controller"

CountedAs(reason) == { s \in Slots : CountedAsIn(calls[s], reason) }
CountedDenials == { s \in Slots : CountedDenialIn(calls[s]) }
JudgedDenials == { s \in Slots : JudgedDenialIn(calls[s]) }
PendingConflicts == { s \in Slots : PendingIn(calls[s]) }

LEMMA TheSets ==
    /\ \A reason : DecidedAs(Recorded, reason) = CountedAs(reason)
    /\ DeniedIn(Recorded) = CountedDenials
    /\ DeniedIn(Judged) = JudgedDenials
    /\ DecidedAs(InProgress \ Recorded, "denied_wrong_flux_controller") = PendingConflicts
BY DEF Recorded, Judged, DecidedAs, DeniedIn, InProgress, CountedAs, CountedDenials,
       JudgedDenials, PendingConflicts, CountedIn, CountedAsIn, CountedDenialIn, JudgedDenialIn,
       PendingIn

LEMMA CardinalityMoves ==
    ASSUME NEW X, NEW Y, NEW s, IsFiniteSet(X), X \ {s} = Y \ {s}
    PROVE  /\ IsFiniteSet(Y) /\ Cardinality(X) \in Nat /\ Cardinality(Y) \in Nat
           /\ Cardinality(Y) = Cardinality(X) + One(s \in Y) - One(s \in X)
<1>. DEFINE Z == X \ {s}
<1>1. /\ IsFiniteSet(Z) /\ Cardinality(X) \in Nat
      /\ Cardinality(Z) = Cardinality(X) - One(s \in X)
  BY FS_RemoveElement, FS_CardinalityType DEF One
<1>2. s \notin Z
  OBVIOUS
<1>3. Y = IF s \in Y THEN Z \cup {s} ELSE Z
  OBVIOUS
<1>. HIDE DEF Z
<1>4. IsFiniteSet(Z \cup {s}) /\ Cardinality(Z \cup {s}) = Cardinality(Z) + 1
  BY <1>1, <1>2, FS_AddElement
<1>5. IsFiniteSet(Y) /\ Cardinality(Y) = Cardinality(Z) + One(s \in Y)
  <2>1. CASE s \in Y
    BY <1>3, <1>4, <2>1 DEF One
  <2>2. CASE s \notin Y
    <3>1. Cardinality(Z) \in Nat
      BY <1>1, FS_CardinalityType
    <3>. QED BY <1>1, <1>3, <2>2, <3>1 DEF One
  <2>. QED BY <2>1, <2>2
<1>6. Cardinality(Y) \in Nat /\ Cardinality(Z) \in Nat
  BY <1>1, <1>5, FS_CardinalityType
<1>. QED BY <1>1, <1>5, <1>6 DEF One

(***************************************************************************)
(* A step of one call moves only that call in and out of the sets.         *)
(***************************************************************************)
Finite == IsFiniteSet(InProgress)

\* The number of calls in each set, and what a call adds to it.
TalliesAre(c, d) ==
    /\ \A reason \in DecisionReasons :
          /\ Cardinality(CountedAs(reason)) \in Nat
          /\ Cardinality(CountedAs(reason)')
               = Cardinality(CountedAs(reason)) + One(CountedAsIn(d, reason)) - One(CountedAsIn(c, reason))
    /\ Cardinality(CountedDenials) \in Nat
    /\ Cardinality(CountedDenials')
         = Cardinality(CountedDenials) + One(CountedDenialIn(d)) - One(CountedDenialIn(c))
    /\ Cardinality(JudgedDenials) \in Nat
    /\ Cardinality(JudgedDenials')
         = Cardinality(JudgedDenials) + One(JudgedDenialIn(d)) - One(JudgedDenialIn(c))
    /\ Cardinality(PendingConflicts) \in Nat
    /\ Cardinality(PendingConflicts')
         = Cardinality(PendingConflicts) + One(PendingIn(d)) - One(PendingIn(c))

LEMMA Tallies ==
    ASSUME CallsOK, Finite, NEW s \in Slots, NEW c \in Calls \cup {None},
           calls' = [calls EXCEPT ![s] = c], c # None => CallOK(c)
    PROVE  CallsOK' /\ Finite' /\ TalliesAre(calls[s], c)
<1>1. /\ calls'[s] = c /\ \A t \in Slots : t # s => calls'[t] = calls[t]
      /\ calls' \in [Slots -> Calls \cup {None}]
  BY DEF CallsOK
<1>2. CallsOK'
  BY <1>1 DEF CallsOK
<1>3. Finite'
  <2>1. InProgress \ {s} = InProgress' \ {s}
    BY <1>1 DEF InProgress
  <2>. QED BY <2>1, CardinalityMoves DEF Finite
<1>4. /\ \A reason : IsFiniteSet(CountedAs(reason))
      /\ IsFiniteSet(CountedDenials) /\ IsFiniteSet(JudgedDenials)
      /\ IsFiniteSet(PendingConflicts)
  <2>1. /\ \A reason : CountedAs(reason) \subseteq InProgress
        /\ CountedDenials \subseteq InProgress /\ JudgedDenials \subseteq InProgress
        /\ PendingConflicts \subseteq InProgress
    BY DEF InProgress, CountedAs, CountedDenials, JudgedDenials, PendingConflicts,
           CountedIn, CountedAsIn, CountedDenialIn, JudgedDenialIn, PendingIn
  <2>. QED BY <2>1, FS_Subset DEF Finite
<1>5. ASSUME NEW reason \in DecisionReasons
      PROVE  /\ Cardinality(CountedAs(reason)) \in Nat
             /\ Cardinality(CountedAs(reason)')
                  = Cardinality(CountedAs(reason))
                      + One(CountedAsIn(c, reason)) - One(CountedAsIn(calls[s], reason))
  <2>1. /\ CountedAs(reason) \ {s} = CountedAs(reason)' \ {s}
        /\ s \in CountedAs(reason) <=> CountedAsIn(calls[s], reason)
        /\ s \in CountedAs(reason)' <=> CountedAsIn(c, reason)
    BY <1>1 DEF CountedAs
  <2>. QED BY <1>4, <2>1, CardinalityMoves DEF One
<1>6. /\ Cardinality(CountedDenials) \in Nat
      /\ Cardinality(CountedDenials')
           = Cardinality(CountedDenials) + One(CountedDenialIn(c)) - One(CountedDenialIn(calls[s]))
  <2>1. /\ CountedDenials \ {s} = CountedDenials' \ {s}
        /\ s \in CountedDenials <=> CountedDenialIn(calls[s])
        /\ s \in CountedDenials' <=> CountedDenialIn(c)
    BY <1>1 DEF CountedDenials
  <2>. QED BY <1>4, <2>1, CardinalityMoves DEF One
<1>7. /\ Cardinality(JudgedDenials) \in Nat
      /\ Cardinality(JudgedDenials')
           = Cardinality(JudgedDenials) + One(JudgedDenialIn(c)) - One(JudgedDenialIn(calls[s]))
  <2>1. /\ JudgedDenials \ {s} = JudgedDenials' \ {s}
        /\ s \in JudgedDenials <=> JudgedDenialIn(calls[s])
        /\ s \in JudgedDenials' <=> JudgedDenialIn(c)
    BY <1>1 DEF JudgedDenials
  <2>. QED BY <1>4, <2>1, CardinalityMoves DEF One
<1>8. /\ Cardinality(PendingConflicts) \in Nat
      /\ Cardinality(PendingConflicts')
           = Cardinality(PendingConflicts) + One(PendingIn(c)) - One(PendingIn(calls[s]))
  <2>1. /\ PendingConflicts \ {s} = PendingConflicts' \ {s}
        /\ s \in PendingConflicts <=> PendingIn(calls[s])
        /\ s \in PendingConflicts' <=> PendingIn(c)
    BY <1>1 DEF PendingConflicts
  <2>. QED BY <1>4, <2>1, CardinalityMoves DEF One
<1>. QED BY <1>2, <1>3, <1>5, <1>6, <1>7, <1>8 DEF TalliesAre

----------------------------------------------------------------------------
(***************************************************************************)
(* The inductive invariant: what the properties say, the types of the      *)
(* counters, and that a call stands at the place of its decision.          *)
(***************************************************************************)
CountersOK ==
    /\ requests \in [DecisionReasons -> Nat] /\ denials \in Nat /\ conflicts \in Nat
    /\ latency \in [count : Nat, le : [Buckets -> Nat]]
    /\ answered \in [all : Nat, by : [DecisionReasons -> Nat], blocked : Nat, late : Nat]

Agree ==
    /\ \A reason \in DecisionReasons :
          requests[reason] = answered.by[reason] + Cardinality(CountedAs(reason))
    /\ denials = answered.blocked + Cardinality(JudgedDenials)
    /\ SumFunctionOnSet(requests, DeniedReasons)
         = answered.blocked + Cardinality(CountedDenials)
    /\ conflicts = requests["denied_wrong_flux_controller"] + Cardinality(PendingConflicts)

TrailInv == CallsOK /\ Finite /\ CountersOK /\ Agree

LEMMA TrailInit == Init => TrailInv
<1>. SUFFICES ASSUME Init PROVE TrailInv
  OBVIOUS
<1>1. CallsOK /\ CountersOK /\ requests = [reason \in DecisionReasons |-> 0]
  BY DEF Init, CallsOK, CountersOK
<1>2. /\ InProgress = {} /\ \A reason : CountedAs(reason) = {}
      /\ JudgedDenials = {} /\ CountedDenials = {} /\ PendingConflicts = {}
  BY DEF Init, InProgress, CountedAs, JudgedDenials, CountedDenials, PendingConflicts,
         CountedIn, CountedAsIn, JudgedDenialIn, CountedDenialIn, PendingIn
<1>3. IsFiniteSet({}) /\ Cardinality({}) = 0
  BY FS_EmptySet
<1>4. ASSUME NEW S \in SUBSET DecisionReasons, IsFiniteSet(S)
      PROVE  SumFunctionOnSet(requests, S) = 0
  <2>1. \A x \in S : requests[x] = 0
    BY <1>1
  <2>2. Units(requests, S) = {}
    BY <2>1 DEF Units
  <2>. QED BY <1>3, <1>4, <2>1, <2>2, SumIsUnits
<1>5. SumFunctionOnSet(requests, DeniedReasons) = 0
  BY <1>4, ReasonsFinite DEF DecisionReasons
<1>6. /\ denials = 0 /\ conflicts = 0 /\ answered.blocked = 0
      /\ \A reason \in DecisionReasons : answered.by[reason] = 0
  BY DEF Init
<1>7. requests["denied_wrong_flux_controller"] = 0
  BY <1>1 DEF DecisionReasons, DeniedReasons
<1>. QED BY <1>1, <1>2, <1>3, <1>5, <1>6, <1>7 DEF TrailInv, Finite, Agree

\* Where a call is in the sets, as far as it has come.
LEMMA PlaceOfCall ==
    ASSUME NEW call, CallOK(call)
    PROVE  /\ call # None
           /\ call.pc = "read" =>
                 /\ call.decision.step \in OwnerReads \cup NamespaceReads
                 /\ call.decision.reason # "denied_wrong_flux_controller"
           /\ call.pc # "read" =>
                 /\ call.decision.reason \in DecisionReasons
                 /\ ~call.decision.allowed <=> call.decision.reason \in DeniedReasons
           /\ call.pc \in EarlyReturns => call.decision.allowed
<1>1. call # None
  BY AuditAssumption DEF CallOK
<1>2. call.decision \in Decisions /\ (call.pc = "read" <=> call.decision.step # "decided")
  BY DEF CallOK, Calls, PlaceOK
<1>3. /\ call.decision.step # "decided" =>
            /\ call.decision.step \in OwnerReads \cup NamespaceReads
            /\ call.decision.reason # "denied_wrong_flux_controller"
      /\ call.decision.step = "decided" =>
            /\ call.decision.reason \in DecisionReasons
            /\ ~call.decision.allowed <=> call.decision.reason \in DeniedReasons
  BY <1>2, DecisionFacts, Zenon
<1>4. call.pc \in EarlyReturns => call.decision.allowed
  BY DEF CallOK, PlaceOK, EarlyReturns, Allow
<1>. QED BY <1>1, <1>2, <1>3, <1>4, Zenon

LEMMA NotCounted ==
    ASSUME NEW call, call = None \/ call.pc \notin {"denial", "respond"}
    PROVE  /\ \A reason : One(CountedAsIn(call, reason)) = 0
           /\ One(CountedDenialIn(call)) = 0 /\ One(JudgedDenialIn(call)) = 0
BY DEF One, CountedIn, CountedAsIn, CountedDenialIn, JudgedDenialIn

(***************************************************************************)
(* A call that comes to a decision, or to another read, adds to none of    *)
(* the counters but its conflict.                                          *)
(***************************************************************************)
LEMMA DecideStep ==
    ASSUME TrailInv, NEW s \in Slots, NEW c, CallOK(c), c.pc \notin {"denial", "respond"},
           calls[s] = None \/ calls[s].pc = "read", calls' = [calls EXCEPT ![s] = c],
           conflicts' = conflicts + OwnershipConflicts(c.decision),
           UNCHANGED <<requests, denials, latency, answered>>
    PROVE  TrailInv'
<1>. DEFINE call == calls[s]
<1>1. CallsOK' /\ Finite' /\ TalliesAre(call, c)
  BY Tallies DEF TrailInv, CallOK
<1>2. One(PendingIn(call)) = 0
  <2>1. call # None => CallOK(call)
    BY DEF TrailInv, CallsOK
  <2>. QED BY <2>1, PlaceOfCall DEF One, PendingIn
<1>3. One(PendingIn(c)) = OwnershipConflicts(c.decision)
  BY PlaceOfCall DEF One, PendingIn, CountedIn, OwnershipConflicts
<1>4. /\ \A reason : One(CountedAsIn(call, reason)) = 0 /\ One(CountedAsIn(c, reason)) = 0
      /\ One(CountedDenialIn(call)) = 0 /\ One(CountedDenialIn(c)) = 0
      /\ One(JudgedDenialIn(call)) = 0 /\ One(JudgedDenialIn(c)) = 0
  BY NotCounted
<1>5. OwnershipConflicts(c.decision) \in Nat
  BY DEF OwnershipConflicts
<1>. HIDE DEF call
<1>6. /\ \A reason \in DecisionReasons :
            Cardinality(CountedAs(reason)') = Cardinality(CountedAs(reason))
      /\ Cardinality(CountedDenials') = Cardinality(CountedDenials)
      /\ Cardinality(JudgedDenials') = Cardinality(JudgedDenials)
      /\ Cardinality(PendingConflicts')
           = Cardinality(PendingConflicts) + OwnershipConflicts(c.decision)
      /\ Cardinality(PendingConflicts) \in Nat
  BY <1>1, <1>2, <1>3, <1>4, <1>5 DEF TalliesAre
<1>7. CountersOK'
  BY <1>5 DEF TrailInv, CountersOK
<1>8. Agree'
  <2>1. requests["denied_wrong_flux_controller"] \in Nat
    BY DEF TrailInv, CountersOK, DecisionReasons, DeniedReasons
  <2>2. /\ \A reason \in DecisionReasons :
              requests'[reason] = answered'.by[reason] + Cardinality(CountedAs(reason)')
        /\ denials' = answered'.blocked + Cardinality(JudgedDenials')
        /\ SumFunctionOnSet(requests', DeniedReasons)
             = answered'.blocked + Cardinality(CountedDenials')
    BY <1>6 DEF TrailInv, Agree
  <2>3. conflicts' = requests'["denied_wrong_flux_controller"] + Cardinality(PendingConflicts')
    BY <1>5, <1>6, <2>1 DEF TrailInv, Agree
  <2>. QED BY <2>2, <2>3 DEF Agree
<1>. QED BY <1>1, <1>7, <1>8 DEF TrailInv

LEMMA ReceiveStep ==
    ASSUME TrailInv, NEW s \in Slots, Receive(s) PROVE TrailInv'
<1>1. PICK req \in RequestPool :
        /\ calls' = [calls EXCEPT ![s] =
              [req |-> req, decision |-> Entry(req), pc |-> At(EntryPlace(req), Entry(req)),
               waited |-> 0, timer |-> 0, late |-> FALSE]]
        /\ conflicts' = conflicts + OwnershipConflicts(Entry(req))
  BY DEF Receive
<1>2. calls[s] = None /\ UNCHANGED <<requests, denials, latency, answered>>
  BY DEF Receive
<1>. DEFINE c == [req |-> req, decision |-> Entry(req), pc |-> At(EntryPlace(req), Entry(req)),
                  waited |-> 0, timer |-> 0, late |-> FALSE]
<1>3. PlaceOK(At(EntryPlace(req), Entry(req)), Entry(req)) /\ Entry(req) \in Decisions
  BY EntryPlaced, HandleDecides
<1>4. CallOK(c)
  <2>1. At(EntryPlace(req), Entry(req)) \in Places
    BY <1>3 DEF PlaceOK
  <2>2. c \in Calls
    BY <1>3, <2>1, AuditAssumption DEF Calls
  <2>. QED BY <1>3, <2>2 DEF CallOK
<1>5. c.pc \notin {"denial", "respond"}
  BY DEF At, EntryPlace, GatePlace
<1>6. c.decision = Entry(req) /\ calls' = [calls EXCEPT ![s] = c]
  BY <1>1
<1>. HIDE DEF c
<1>. QED BY <1>1, <1>2, <1>4, <1>5, <1>6, DecideStep

LEMMA ReturnStep ==
    ASSUME TrailInv, NEW s \in Slots, calls[s] # None, NEW found \in BOOLEAN,
           NEW blocked \in Nat, NEW late \in BOOLEAN, Returned(s, found, blocked, late)
    PROVE  TrailInv'
<1>. DEFINE call == calls[s]
            step == call.decision.step
<1>1. /\ call.pc = "read" /\ call.waited + blocked <= WebhookTimeout
      /\ UNCHANGED <<requests, denials, latency, answered>>
  BY DEF Returned
<1>2. CallOK(call) /\ call \in Calls
  BY DEF TrailInv, CallsOK, CallOK
<1>3. step \in OwnerReads \cup NamespaceReads
  BY <1>1, <1>2, PlaceOfCall
<1>4. PICK owner \in OwnerStates : \E namespace \in NamespaceStates :
        LET decision == Resume(step, call.req, found, owner, namespace)
            place == ResumePlace(step, call.req, found, namespace)
        IN  /\ calls' = [calls EXCEPT ![s] =
                  [call EXCEPT !.decision = decision, !.pc = At(place, decision),
                               !.late = late, !.waited = @ + blocked,
                               !.timer = @ + Timed(step, blocked)]]
            /\ conflicts' = conflicts + OwnershipConflicts(decision)
  BY DEF Returned
<1>5. PICK namespace \in NamespaceStates :
        LET decision == Resume(step, call.req, found, owner, namespace)
            place == ResumePlace(step, call.req, found, namespace)
        IN  /\ calls' = [calls EXCEPT ![s] =
                  [call EXCEPT !.decision = decision, !.pc = At(place, decision),
                               !.late = late, !.waited = @ + blocked,
                               !.timer = @ + Timed(step, blocked)]]
            /\ conflicts' = conflicts + OwnershipConflicts(decision)
  BY <1>4
<1>. DEFINE decision == Resume(step, call.req, found, owner, namespace)
            pc == At(ResumePlace(step, call.req, found, namespace), decision)
            c == [call EXCEPT !.decision = decision, !.pc = pc, !.late = late,
                              !.waited = @ + blocked, !.timer = @ + Timed(step, blocked)]
<1>6. decision \in Decisions /\ PlaceOK(pc, decision)
  <2>. HIDE DEF call
  <2>. QED BY <1>3, ResumeDecides, ResumePlaced
<1>7. pc \in Places /\ pc \notin {"denial", "respond"}
  <2>1. pc \notin {"denial", "respond"}
    BY DEF At, ResumePlace, GatePlace
  <2>. HIDE DEF pc
  <2>. QED BY <1>6, <2>1 DEF PlaceOK
<1>8. /\ call.waited + blocked \in 0 .. WebhookTimeout
      /\ call.timer + Timed(step, blocked) = call.waited + blocked
  BY <1>1, <1>2, AuditAssumption DEF CallOK, Calls, Timed
<1>9. calls' = [calls EXCEPT ![s] = c] /\ conflicts' = conflicts + OwnershipConflicts(decision)
  BY <1>5
<1>. HIDE DEF decision, pc
<1>10. c \in Calls /\ c.decision = decision /\ c.pc = pc /\ c.timer = c.waited
  BY <1>2, <1>6, <1>7, <1>8 DEF Calls
<1>. HIDE DEF c
<1>11. CallOK(c)
  BY <1>6, <1>10 DEF CallOK
<1>. QED BY <1>1, <1>7, <1>9, <1>10, <1>11, DecideStep

(***************************************************************************)
(* An early return that counts the call under its decision, or             *)
(* buildResponse.                                                          *)
(***************************************************************************)
LEMMA RecordStep ==
    ASSUME TrailInv, NEW s \in Slots, NEW from, NEW to, Moves(s, from, to),
           RecordRequest(calls[s].decision.reason), from \notin {"read", "denial", "respond"},
           \/ to = "denial"
           \/ to = "respond" /\ from \in EarlyReturns
    PROVE  TrailInv'
<1>. DEFINE call == calls[s]
            reason == call.decision.reason
            c == [call EXCEPT !.pc = to]
<1>1. /\ call # None /\ call.pc = from /\ calls' = [calls EXCEPT ![s] = c]
      /\ UNCHANGED <<denials, conflicts, latency, answered>>
      /\ requests' = [requests EXCEPT ![reason] = @ + 1]
  BY DEF Moves, RecordRequest
<1>2. CallOK(call) /\ call \in Calls
  BY <1>1 DEF TrailInv, CallsOK, CallOK
<1>3. /\ reason \in DecisionReasons
      /\ ~call.decision.allowed <=> reason \in DeniedReasons
      /\ to = "respond" => call.decision.allowed
  <2>. HIDE DEF call
  <2>. QED BY <1>1, <1>2, PlaceOfCall
<1>4. /\ c.pc = to /\ c.decision = call.decision /\ CallOK(c)
  <2>1. to \in Places /\ call.decision.step = "decided"
    BY <1>1, <1>2 DEF CallOK, PlaceOK, Places
  <2>2. c \in Calls /\ c.pc = to /\ c.decision = call.decision /\ c.timer = c.waited
    BY <1>2, <2>1 DEF Calls, CallOK
  <2>. HIDE DEF c
  <2>. QED BY <2>1, <2>2 DEF CallOK, PlaceOK
<1>5. /\ requests' \in [DecisionReasons -> Nat]
      /\ \A x \in DecisionReasons : requests'[x] = requests[x] + One(x = reason)
      /\ SumFunctionOnSet(requests', DeniedReasons)
           = SumFunctionOnSet(requests, DeniedReasons) + One(reason \in DeniedReasons)
  <2>1. requests \in [DecisionReasons -> Nat]
    BY DEF TrailInv, CountersOK
  <2>2. DeniedReasons \in SUBSET DecisionReasons /\ IsFiniteSet(DeniedReasons)
    BY ReasonsFinite DEF DecisionReasons
  <2>. HIDE DEF reason
  <2>3. /\ requests' \in [DecisionReasons -> Nat]
        /\ SumFunctionOnSet(requests', DeniedReasons)
             = SumFunctionOnSet(requests, DeniedReasons) + One(reason \in DeniedReasons)
    <3>1. requests' = [x \in DecisionReasons |->
                         requests[x] + (IF x \in {reason} THEN 1 ELSE 0)]
      <4>1. requests' = [requests EXCEPT ![reason] = requests[reason] + 1]
        BY <1>1
      <4>2. /\ requests' \in [DecisionReasons -> Nat]
            /\ \A x \in DecisionReasons :
                  requests'[x] = requests[x] + (IF x \in {reason} THEN 1 ELSE 0)
        BY <1>3, <2>1, <4>1
      <4>. QED BY <4>2
    <3>. QED BY <1>3, <2>1, <2>2, <3>1, OneIncrement
  <2>4. \A x \in DecisionReasons : requests'[x] = requests[x] + One(x = reason)
    BY <1>1, <1>3, <2>1 DEF One
  <2>. QED BY <2>3, <2>4
<1>. HIDE DEF c
<1>6. CallsOK' /\ Finite' /\ TalliesAre(call, c)
  BY <1>1, <1>4, Tallies DEF TrailInv, CallOK
<1>7. /\ \A x : One(CountedAsIn(call, x)) = 0
      /\ One(CountedDenialIn(call)) = 0 /\ One(JudgedDenialIn(call)) = 0
  <2>. HIDE DEF call
  <2>. QED BY <1>1, NotCounted
<1>8. /\ One(PendingIn(call)) = One(reason = "denied_wrong_flux_controller")
      /\ One(PendingIn(c)) = 0 /\ One(JudgedDenialIn(c)) = 0
      /\ One(CountedDenialIn(c)) = One(reason \in DeniedReasons)
      /\ \A x : One(CountedAsIn(c, x)) = One(x = reason)
  <2>1. c # None
    BY <1>4, PlaceOfCall
  <2>2. CountedIn(c) /\ ~CountedIn(call)
    BY <1>1, <1>4, <2>1 DEF CountedIn
  <2>3. PendingIn(call) <=> reason = "denied_wrong_flux_controller"
    BY <1>1, <2>2 DEF PendingIn
  <2>4. ~PendingIn(c) /\ ~JudgedDenialIn(c)
    BY <1>3, <1>4, <2>2 DEF PendingIn, JudgedDenialIn
  <2>5. CountedDenialIn(c) <=> reason \in DeniedReasons
    BY <1>3, <1>4, <2>2 DEF CountedDenialIn
  <2>6. \A x : CountedAsIn(c, x) <=> x = reason
    BY <1>4, <2>2 DEF CountedAsIn
  <2>. HIDE DEF call, reason
  <2>. QED BY <2>3, <2>4, <2>5, <2>6 DEF One
<1>9. /\ One(reason \in DeniedReasons) \in Nat
      /\ One(reason = "denied_wrong_flux_controller") \in Nat
      /\ \A x : One(x = reason) \in Nat
  BY DEF One
<1>. HIDE DEF call, reason
<1>10. /\ \A x \in DecisionReasons :
             /\ Cardinality(CountedAs(x)') = Cardinality(CountedAs(x)) + One(x = reason)
             /\ Cardinality(CountedAs(x)) \in Nat
       /\ Cardinality(CountedDenials')
            = Cardinality(CountedDenials) + One(reason \in DeniedReasons)
       /\ Cardinality(JudgedDenials') = Cardinality(JudgedDenials)
       /\ Cardinality(PendingConflicts')
            = Cardinality(PendingConflicts) - One(reason = "denied_wrong_flux_controller")
       /\ Cardinality(CountedDenials) \in Nat /\ Cardinality(PendingConflicts) \in Nat
  <2>1. ASSUME NEW x \in DecisionReasons
        PROVE  /\ Cardinality(CountedAs(x)') = Cardinality(CountedAs(x)) + One(x = reason)
               /\ Cardinality(CountedAs(x)) \in Nat
    <3>1. /\ Cardinality(CountedAs(x)')
               = Cardinality(CountedAs(x)) + One(CountedAsIn(c, x)) - One(CountedAsIn(call, x))
          /\ Cardinality(CountedAs(x)) \in Nat
      BY <1>6, <2>1 DEF TalliesAre
    <3>2. /\ One(CountedAsIn(call, x)) = 0 /\ One(CountedAsIn(c, x)) = One(x = reason)
          /\ One(x = reason) \in Nat
      BY <1>7, <1>8, <1>9
    <3>. QED BY <3>1, <3>2
  <2>2. /\ Cardinality(CountedDenials')
             = Cardinality(CountedDenials) + One(reason \in DeniedReasons)
        /\ Cardinality(CountedDenials) \in Nat
    BY <1>6, <1>7, <1>8, <1>9 DEF TalliesAre
  <2>3. /\ Cardinality(PendingConflicts')
             = Cardinality(PendingConflicts) - One(reason = "denied_wrong_flux_controller")
        /\ Cardinality(PendingConflicts) \in Nat
    BY <1>6, <1>8, <1>9 DEF TalliesAre
  <2>4. Cardinality(JudgedDenials') = Cardinality(JudgedDenials)
    BY <1>6, <1>7, <1>8 DEF TalliesAre
  <2>. QED BY <2>1, <2>2, <2>3, <2>4
<1>11. CountersOK'
  BY <1>1, <1>5 DEF TrailInv, CountersOK
<1>12. Agree'
  <2>1. /\ answered.by \in [DecisionReasons -> Nat] /\ answered.blocked \in Nat
        /\ requests \in [DecisionReasons -> Nat]
        /\ "denied_wrong_flux_controller" \in DecisionReasons
    BY DEF TrailInv, CountersOK, DecisionReasons, DeniedReasons
  <2>2. \A x \in DecisionReasons :
          requests'[x] = answered'.by[x] + Cardinality(CountedAs(x)')
    <3>. SUFFICES ASSUME NEW x \in DecisionReasons
                  PROVE  requests'[x] = answered'.by[x] + Cardinality(CountedAs(x)')
      OBVIOUS
    <3>1. /\ requests[x] = answered.by[x] + Cardinality(CountedAs(x))
          /\ answered'.by[x] = answered.by[x] /\ answered.by[x] \in Nat
      BY <1>1, <2>1 DEF TrailInv, Agree
    <3>2. One(x = reason) \in Nat
      BY <1>9
    <3>. QED BY <1>5, <1>10, <3>1, <3>2
  <2>3. denials' = answered'.blocked + Cardinality(JudgedDenials')
    BY <1>1, <1>10 DEF TrailInv, Agree
  <2>4. SumFunctionOnSet(requests', DeniedReasons)
          = answered'.blocked + Cardinality(CountedDenials')
    <3>1. SumFunctionOnSet(requests, DeniedReasons)
            = answered.blocked + Cardinality(CountedDenials)
      BY DEF TrailInv, Agree
    <3>. QED BY <1>1, <1>5, <1>9, <1>10, <2>1, <3>1
  <2>5. conflicts' = requests'["denied_wrong_flux_controller"] + Cardinality(PendingConflicts')
    <3>1. requests'["denied_wrong_flux_controller"]
            = requests["denied_wrong_flux_controller"]
                + One("denied_wrong_flux_controller" = reason)
      BY <1>5, <2>1
    <3>2. One("denied_wrong_flux_controller" = reason)
            = One(reason = "denied_wrong_flux_controller")
      BY DEF One
    <3>3. requests["denied_wrong_flux_controller"] \in Nat
      BY <2>1
    <3>4. One(reason = "denied_wrong_flux_controller") \in Nat
      BY <1>9
    <3>. QED BY <1>1, <1>10, <3>1, <3>2, <3>3, <3>4 DEF TrailInv, Agree
  <2>. QED BY <2>2, <2>3, <2>4, <2>5 DEF Agree
<1>. QED BY <1>6, <1>11, <1>12 DEF TrailInv

LEMMA EarlyReturnStep ==
    ASSUME TrailInv, NEW s \in Slots,
           \/ SubresourceReturn(s) \/ ExcludedGroupReturn(s) \/ ScopeReturn(s)
           \/ UnmanagedReturn(s)
    PROVE  TrailInv'
<1>. DEFINE call == calls[s]
<1>1. /\ call # None
      /\ PlaceOK(call.pc, call.decision)
  <2>1. call # None
    BY DEF SubresourceReturn, ExcludedGroupReturn, ScopeReturn, UnmanagedReturn, Moves
  <2>. QED BY <2>1 DEF TrailInv, CallsOK, CallOK
<1>2. \A reason : Allow(reason).reason = reason
  BY DEF Allow
<1>3. CASE SubresourceReturn(s)
  <2>1. call.decision.reason = "allowed_subresource"
    BY <1>1, <1>2, <1>3 DEF SubresourceReturn, Moves, PlaceOK
  <2>. QED BY <1>3, <2>1, RecordStep DEF SubresourceReturn, EarlyReturns
<1>4. CASE ExcludedGroupReturn(s)
  <2>1. call.decision.reason = "allowed_excluded_group"
    BY <1>1, <1>2, <1>4 DEF ExcludedGroupReturn, Moves, PlaceOK
  <2>. QED BY <1>4, <2>1, RecordStep DEF ExcludedGroupReturn, EarlyReturns
<1>5. CASE ScopeReturn(s)
  <2>1. call.decision.reason = "allowed_namespace_filter"
    BY <1>1, <1>2, <1>5 DEF ScopeReturn, Moves, PlaceOK
  <2>. QED BY <1>5, <2>1, RecordStep DEF ScopeReturn, EarlyReturns
<1>6. CASE UnmanagedReturn(s)
  <2>1. call.decision.reason = "allowed_not_managed"
    BY <1>1, <1>2, <1>6 DEF UnmanagedReturn, Moves, PlaceOK
  <2>. QED BY <1>6, <2>1, RecordStep DEF UnmanagedReturn, EarlyReturns
<1>. QED BY <1>3, <1>4, <1>5, <1>6

LEMMA CountDenialStep ==
    ASSUME TrailInv, NEW s \in Slots, CountDenial(s) PROVE TrailInv'
<1>. DEFINE call == calls[s]
            c == [call EXCEPT !.pc = "respond"]
            one == RecordDenial(call.decision)
<1>1. /\ call # None /\ call.pc = "denial" /\ calls' = [calls EXCEPT ![s] = c]
      /\ UNCHANGED <<requests, conflicts, latency, answered>>
      /\ denials' = denials + one
  BY DEF CountDenial, Moves
<1>2. CallOK(call) /\ call \in Calls
  BY <1>1 DEF TrailInv, CallsOK, CallOK
<1>3. c.pc = "respond" /\ c.decision = call.decision /\ CallOK(c)
  <2>1. call.decision.step = "decided"
    BY <1>1, <1>2 DEF CallOK, PlaceOK
  <2>2. c \in Calls /\ c.pc = "respond" /\ c.decision = call.decision /\ c.timer = c.waited
    BY <1>2 DEF Calls, CallOK, Places
  <2>. HIDE DEF c
  <2>. QED BY <2>1, <2>2 DEF CallOK, PlaceOK, Places
<1>. HIDE DEF c
<1>4. CallsOK' /\ Finite' /\ TalliesAre(call, c)
  BY <1>1, <1>3, Tallies DEF TrailInv, CallOK
<1>5. /\ \A x : One(CountedAsIn(call, x)) = One(CountedAsIn(c, x))
      /\ One(CountedDenialIn(call)) = One(CountedDenialIn(c))
      /\ One(JudgedDenialIn(call)) = 0 /\ One(JudgedDenialIn(c)) = one
      /\ One(PendingIn(call)) = 0 /\ One(PendingIn(c)) = 0
      /\ one \in Nat
  <2>1. c # None
    BY <1>3, PlaceOfCall
  <2>2. CountedIn(call) /\ CountedIn(c)
    BY <1>1, <1>3, <2>1 DEF CountedIn
  <2>. HIDE DEF call
  <2>3. ~PendingIn(call) /\ ~PendingIn(c)
    BY <2>2 DEF PendingIn
  <2>4. ~JudgedDenialIn(call) /\ (JudgedDenialIn(c) <=> ~call.decision.allowed)
    BY <1>1, <1>3, <2>1 DEF JudgedDenialIn
  <2>5. CountedDenialIn(call) <=> CountedDenialIn(c)
    BY <1>3, <2>2 DEF CountedDenialIn
  <2>6. \A x : CountedAsIn(call, x) <=> CountedAsIn(c, x)
    BY <1>3, <2>2 DEF CountedAsIn
  <2>. QED BY <2>3, <2>4, <2>5, <2>6 DEF One, RecordDenial
<1>. HIDE DEF call, one
<1>6. /\ \A x \in DecisionReasons : Cardinality(CountedAs(x)') = Cardinality(CountedAs(x))
      /\ Cardinality(CountedDenials') = Cardinality(CountedDenials)
      /\ Cardinality(JudgedDenials') = Cardinality(JudgedDenials) + one
      /\ Cardinality(PendingConflicts') = Cardinality(PendingConflicts)
      /\ Cardinality(JudgedDenials) \in Nat
  <2>1. ASSUME NEW x \in DecisionReasons
        PROVE  Cardinality(CountedAs(x)') = Cardinality(CountedAs(x))
    <3>1. One(CountedAsIn(call, x)) \in Nat
      BY DEF One
    <3>. QED BY <1>4, <1>5, <3>1 DEF TalliesAre
  <2>2. One(CountedDenialIn(call)) \in Nat
    BY DEF One
  <2>. QED BY <1>4, <1>5, <2>1, <2>2 DEF TalliesAre
<1>7. CountersOK'
  BY <1>1, <1>5 DEF TrailInv, CountersOK
<1>8. Agree'
  <2>1. answered.blocked \in Nat
    BY DEF TrailInv, CountersOK
  <2>2. denials' = answered'.blocked + Cardinality(JudgedDenials')
    BY <1>1, <1>5, <1>6, <2>1 DEF TrailInv, Agree
  <2>. QED BY <1>1, <1>6, <2>2 DEF TrailInv, Agree
<1>. QED BY <1>4, <1>7, <1>8 DEF TrailInv

(***************************************************************************)
(* One more observation, within the bounds above it.                       *)
(***************************************************************************)
LEMMA Observed ==
    ASSUME latency \in [count : Nat, le : [Buckets -> Nat]], NEW timer
    PROVE  /\ ObserveDuration(timer) \in [count : Nat, le : [Buckets -> Nat]]
           /\ ObserveDuration(timer).count = latency.count + 1
           /\ \A b \in Buckets :
                ObserveDuration(timer).le[b] = latency.le[b] + One(timer <= b)
BY DEF ObserveDuration, One

LEMMA RespondStep ==
    ASSUME TrailInv, NEW s \in Slots, Respond(s) PROVE TrailInv'
<1>. DEFINE call == calls[s]
            reason == call.decision.reason
            one == One(~call.decision.allowed)
<1>1. /\ call # None /\ call.pc = "respond"
      /\ UNCHANGED <<requests, denials, conflicts>>
      /\ calls' = [calls EXCEPT ![s] = None]
      /\ answered' = [all |-> answered.all + 1,
                      by |-> [answered.by EXCEPT ![reason] = @ + 1],
                      blocked |-> answered.blocked + one,
                      late |-> answered.late + One(call.late)]
  BY DEF Respond, One
<1>2. latency' \in [count : Nat, le : [Buckets -> Nat]]
  <2>1. latency \in [count : Nat, le : [Buckets -> Nat]]
    BY DEF TrailInv, CountersOK
  <2>2. latency' = latency \/ latency' = ObserveDuration(call.timer)
    BY DEF Respond
  <2>. QED BY <2>1, <2>2, Observed
<1>3. CallOK(call) /\ reason \in DecisionReasons
  <2>1. CallOK(call)
    BY <1>1 DEF TrailInv, CallsOK
  <2>. HIDE DEF call
  <2>. QED BY <1>1, <2>1, PlaceOfCall
<1>4. CallsOK' /\ Finite' /\ TalliesAre(call, None)
  BY <1>1, Tallies DEF TrailInv
<1>5. /\ \A x : One(CountedAsIn(call, x)) = One(x = reason) /\ One(x = reason) \in Nat
      /\ One(CountedDenialIn(call)) = one /\ One(JudgedDenialIn(call)) = one
      /\ One(PendingIn(call)) = 0 /\ one \in Nat
  <2>1. CountedIn(call)
    BY <1>1 DEF CountedIn
  <2>. HIDE DEF call
  <2>2. \A x : CountedAsIn(call, x) <=> x = reason
    BY <2>1 DEF CountedAsIn
  <2>3. /\ CountedDenialIn(call) <=> ~call.decision.allowed
        /\ JudgedDenialIn(call) <=> ~call.decision.allowed
        /\ ~PendingIn(call)
    BY <1>1, <2>1 DEF CountedDenialIn, JudgedDenialIn, PendingIn
  <2>. HIDE DEF reason
  <2>. QED BY <2>2, <2>3 DEF One
<1>6. /\ \A x : One(CountedAsIn(None, x)) = 0
      /\ One(CountedDenialIn(None)) = 0 /\ One(JudgedDenialIn(None)) = 0
      /\ One(PendingIn(None)) = 0
  BY NotCounted DEF One, PendingIn
<1>. HIDE DEF call, reason, one
<1>7. ASSUME NEW x \in DecisionReasons
      PROVE  /\ Cardinality(CountedAs(x)') = Cardinality(CountedAs(x)) - One(x = reason)
             /\ Cardinality(CountedAs(x)) \in Nat
  <2>1. /\ Cardinality(CountedAs(x)')
             = Cardinality(CountedAs(x)) + One(CountedAsIn(None, x)) - One(CountedAsIn(call, x))
        /\ Cardinality(CountedAs(x)) \in Nat
    BY <1>4, <1>7 DEF TalliesAre
  <2>2. /\ One(CountedAsIn(call, x)) = One(x = reason) /\ One(CountedAsIn(None, x)) = 0
        /\ One(x = reason) \in Nat
    BY <1>5, <1>6
  <2>. QED BY <2>1, <2>2
<1>8. /\ Cardinality(CountedDenials') = Cardinality(CountedDenials) - one
      /\ Cardinality(JudgedDenials') = Cardinality(JudgedDenials) - one
      /\ Cardinality(PendingConflicts') = Cardinality(PendingConflicts)
      /\ Cardinality(CountedDenials) \in Nat /\ Cardinality(JudgedDenials) \in Nat
  BY <1>4, <1>5, <1>6 DEF TalliesAre
<1>9. /\ answered.all \in Nat /\ answered.by \in [DecisionReasons -> Nat]
      /\ answered.blocked \in Nat /\ answered.late \in Nat
      /\ One(call.late) \in Nat
  BY DEF TrailInv, CountersOK, One
<1>10. /\ answered'.blocked = answered.blocked + one
       /\ answered'.by \in [DecisionReasons -> Nat]
       /\ \A x \in DecisionReasons : answered'.by[x] = answered.by[x] + One(x = reason)
  <2>1. answered'.by = [answered.by EXCEPT ![reason] = @ + 1]
    BY <1>1
  <2>2. answered'.blocked = answered.blocked + one
    BY <1>1
  <2>3. \A x \in DecisionReasons : answered'.by[x] = answered.by[x] + One(x = reason)
    BY <1>3, <1>9, <2>1 DEF One
  <2>. QED BY <1>3, <1>9, <2>1, <2>2, <2>3
<1>11. CountersOK'
  <2>1. answered' \in [all : Nat, by : [DecisionReasons -> Nat], blocked : Nat, late : Nat]
    <3>1. [answered.by EXCEPT ![reason] = @ + 1] \in [DecisionReasons -> Nat]
      BY <1>3, <1>9
    <3>. QED BY <1>1, <1>5, <1>9, <3>1
  <2>. QED BY <1>1, <1>2, <2>1 DEF TrailInv, CountersOK
<1>12. Agree'
  <2>1. ASSUME NEW x \in DecisionReasons
        PROVE  requests'[x] = answered'.by[x] + Cardinality(CountedAs(x)')
    <3>1. requests[x] = answered.by[x] + Cardinality(CountedAs(x)) /\ requests'[x] = requests[x]
      BY <1>1 DEF TrailInv, Agree
    <3>2. answered.by[x] \in Nat /\ One(x = reason) \in Nat
      BY <1>5, <1>9
    <3>. QED BY <1>7, <1>10, <3>1, <3>2
  <2>2. denials' = answered'.blocked + Cardinality(JudgedDenials')
    BY <1>1, <1>5, <1>8, <1>9, <1>10 DEF TrailInv, Agree
  <2>3. SumFunctionOnSet(requests', DeniedReasons)
          = answered'.blocked + Cardinality(CountedDenials')
    BY <1>1, <1>5, <1>8, <1>9, <1>10 DEF TrailInv, Agree
  <2>4. conflicts' = requests'["denied_wrong_flux_controller"] + Cardinality(PendingConflicts')
    BY <1>1, <1>8 DEF TrailInv, Agree
  <2>. QED BY <2>1, <2>2, <2>3, <2>4 DEF Agree
<1>. QED BY <1>4, <1>11, <1>12 DEF TrailInv

----------------------------------------------------------------------------
(***************************************************************************)
(* A read comes back, whichever of the three ways.                         *)
(***************************************************************************)
LEMMA ReadReturns ==
    ASSUME TrailInv, NEW s \in Slots, Read(s) \/ ReadTimesOut(s) \/ ReadCancelled(s)
    PROVE  /\ calls[s] # None /\ CallOK(calls[s])
           /\ \E found \in BOOLEAN, blocked \in Nat, late \in BOOLEAN :
                 /\ Returned(s, found, blocked, late)
                 /\ late => \/ calls[s].waited + blocked = WebhookTimeout
                            \/ calls[s].late /\ blocked = 0
<1>1. calls[s] # None
  BY DEF Read, ReadTimesOut, ReadCancelled
<1>2. CallOK(calls[s])
  BY <1>1 DEF TrailInv, CallsOK
<1>3. /\ calls[s].late \in BOOLEAN /\ calls[s].waited \in 0 .. WebhookTimeout
      /\ FetchTimeout \in Nat /\ WebhookTimeout \in Nat
  BY <1>2, AuditAssumption DEF CallOK, Calls
<1>4. CASE Read(s)
  <2>1. PICK found \in BOOLEAN, blocked \in 0 .. FetchTimeout :
          (calls[s].late => blocked = 0) /\ Returned(s, found, blocked, calls[s].late)
    BY <1>4 DEF Read
  <2>2. blocked \in Nat
    BY <1>3
  <2>. QED BY <1>1, <1>2, <1>3, <2>1, <2>2
<1>5. CASE ReadTimesOut(s)
  BY <1>1, <1>2, <1>3, <1>5 DEF ReadTimesOut
<1>6. CASE ReadCancelled(s)
  <2>. DEFINE left == WebhookTimeout - calls[s].waited
  <2>1. Returned(s, FALSE, left, TRUE)
    BY <1>6 DEF ReadCancelled
  <2>2. left \in Nat /\ calls[s].waited + left = WebhookTimeout
    BY <1>3
  <2>. HIDE DEF left
  <2>. QED BY <1>1, <1>2, <2>1, <2>2
<1>. QED BY <1>4, <1>5, <1>6

LEMMA TrailStep == TrailInv /\ [Next]_vars => TrailInv'
<1>. SUFFICES ASSUME TrailInv, [Next]_vars PROVE TrailInv'
  OBVIOUS
<1>1. ASSUME NEW s \in Slots, Receive(s) PROVE TrailInv'
  BY <1>1, ReceiveStep
<1>2. ASSUME NEW s \in Slots, Read(s) \/ ReadTimesOut(s) \/ ReadCancelled(s) PROVE TrailInv'
  <2>1. calls[s] # None
    BY <1>2, ReadReturns
  <2>2. PICK found \in BOOLEAN, blocked \in Nat, late \in BOOLEAN : Returned(s, found, blocked, late)
    BY <1>2, ReadReturns
  <2>. QED BY <2>1, <2>2, ReturnStep
<1>3. ASSUME NEW s \in Slots,
             \/ SubresourceReturn(s) \/ ExcludedGroupReturn(s) \/ ScopeReturn(s)
             \/ UnmanagedReturn(s)
      PROVE  TrailInv'
  BY <1>3, EarlyReturnStep
<1>4. ASSUME NEW s \in Slots, buildResponse(s) PROVE TrailInv'
  BY <1>4, RecordStep DEF buildResponse
<1>5. ASSUME NEW s \in Slots, CountDenial(s) PROVE TrailInv'
  BY <1>5, CountDenialStep
<1>6. ASSUME NEW s \in Slots, Respond(s) PROVE TrailInv'
  BY <1>6, RespondStep
<1>7. CASE UNCHANGED vars
  BY <1>7 DEF vars, metrics, TrailInv, CallsOK, Finite, CountersOK, Agree, InProgress,
              CountedAs, JudgedDenials, CountedDenials, PendingConflicts
<1>. QED BY <1>1, <1>2, <1>3, <1>4, <1>5, <1>6, <1>7 DEF Next

LEMMA TrailCorrect == Spec => []TrailInv
<1>. QED BY TrailInit, TrailStep, PTL DEF Spec

(***************************************************************************)
(* Every answer is counted once, under the decision it is of, whichever of *)
(* the five places that record it was given at and however the calls       *)
(* interleave (buildResponse and the four early returns).                  *)
(***************************************************************************)
THEOREM AnswersAreCounted == Spec => []EveryAnswerCounted
<1>1. TrailInv => EveryAnswerCounted
  BY TheSets DEF TrailInv, Agree, EveryAnswerCounted
<1>. QED BY <1>1, TrailCorrect, PTL

(***************************************************************************)
(* What enforcement would block is counted, enforced or not, and every     *)
(* conflict of two owners with it (README.md:421): an audit-only rollout   *)
(* reads the truth off the counters, up to the calls between increments.   *)
(***************************************************************************)
THEOREM WouldDeniesAreCounted == Spec => []WouldDeniesCounted
<1>1. TrailInv => WouldDeniesCounted
  BY TheSets DEF TrailInv, Agree, WouldDeniesCounted, Total
<1>. QED BY <1>1, TrailCorrect, PTL

----------------------------------------------------------------------------
(***************************************************************************)
(* A call the API server gave up on has run for the webhook's timeout, and *)
(* was being timed.                                                        *)
(***************************************************************************)
WaitOK(call) ==
    /\ call.late => call.waited = WebhookTimeout
    /\ Untimed(call.req) => call.pc # "read" /\ ~call.late

TailInv ==
    /\ \A s \in Slots : calls[s] # None => WaitOK(calls[s])
    /\ TailCoversTheUnanswered

LEMMA TailKept ==
    ASSUME TrailInv, TailInv, NEW s \in Slots, NEW c, WaitOK(c),
           calls' = [calls EXCEPT ![s] = c], UNCHANGED <<latency, answered>>
    PROVE  TailInv'
<1>1. \A t \in Slots : calls'[t] = IF t = s THEN c ELSE calls[t]
  BY DEF TrailInv, CallsOK
<1>2. \A t \in Slots : calls'[t] # None => WaitOK(calls'[t])
  BY <1>1 DEF TailInv
<1>. QED BY <1>2 DEF TailInv, WaitOK, TailCoversTheUnanswered

LEMMA TailReceive ==
    ASSUME TrailInv, TailInv, NEW s \in Slots, Receive(s) PROVE TailInv'
<1>1. PICK req \in RequestPool :
        calls' = [calls EXCEPT ![s] =
              [req |-> req, decision |-> Entry(req), pc |-> At(EntryPlace(req), Entry(req)),
               waited |-> 0, timer |-> 0, late |-> FALSE]]
  BY DEF Receive
<1>. DEFINE c == [req |-> req, decision |-> Entry(req), pc |-> At(EntryPlace(req), Entry(req)),
                  waited |-> 0, timer |-> 0, late |-> FALSE]
<1>2. Untimed(req) => At(EntryPlace(req), Entry(req)) # "read"
  <2>. SUFFICES ASSUME Untimed(req) PROVE At(EntryPlace(req), Entry(req)) # "read"
    OBVIOUS
  <2>1. Entry(req) = Allow("allowed_subresource") \/ Entry(req) = Allow("allowed_excluded_group")
    BY DEF Untimed, Excluded, Entry, Handle
  <2>2. Entry(req).step = "decided"
    BY <2>1 DEF Allow
  <2>3. EntryPlace(req) # "read"
    BY DEF EntryPlace, GatePlace
  <2>. QED BY <2>2, <2>3 DEF At
<1>3. /\ c.req = req /\ c.late = FALSE /\ c.pc = At(EntryPlace(req), Entry(req))
      /\ calls' = [calls EXCEPT ![s] = c]
  BY <1>1
<1>. HIDE DEF c
<1>4. WaitOK(c)
  BY <1>2, <1>3 DEF WaitOK
<1>5. UNCHANGED <<latency, answered>>
  BY DEF Receive
<1>. QED BY <1>3, <1>4, <1>5, TailKept

LEMMA TailReturn ==
    ASSUME TrailInv, TailInv, NEW s \in Slots,
           Read(s) \/ ReadTimesOut(s) \/ ReadCancelled(s)
    PROVE  TailInv'
<1>. DEFINE call == calls[s]
<1>1. call # None /\ call \in Calls /\ WaitOK(call)
  BY ReadReturns DEF TailInv, CallOK
<1>2. PICK found \in BOOLEAN, blocked \in Nat, late \in BOOLEAN :
        /\ Returned(s, found, blocked, late)
        /\ late => \/ call.waited + blocked = WebhookTimeout
                   \/ call.late /\ blocked = 0
  BY ReadReturns
<1>3. call.pc = "read" /\ UNCHANGED <<latency, answered>>
  BY <1>2 DEF Returned
<1>4. PICK decision, pc :
        calls' = [calls EXCEPT ![s] =
              [call EXCEPT !.decision = decision, !.pc = pc, !.late = late,
                           !.waited = @ + blocked,
                           !.timer = @ + Timed(call.decision.step, blocked)]]
  BY <1>2 DEF Returned
<1>. DEFINE c == [call EXCEPT !.decision = decision, !.pc = pc, !.late = late,
                              !.waited = @ + blocked,
                              !.timer = @ + Timed(call.decision.step, blocked)]
<1>5. c.req = call.req /\ c.late = late /\ c.waited = call.waited + blocked
  BY <1>1 DEF Calls
<1>6. calls' = [calls EXCEPT ![s] = c]
  BY <1>4
<1>. HIDE DEF c
<1>7. WaitOK(c)
  <2>1. ~Untimed(call.req)
    BY <1>1, <1>3 DEF WaitOK
  <2>2. late => c.waited = WebhookTimeout
    <3>1. call.waited \in Nat /\ WebhookTimeout \in Nat
      BY <1>1, AuditAssumption DEF Calls
    <3>2. call.late => call.waited = WebhookTimeout
      BY <1>1 DEF WaitOK
    <3>. HIDE DEF call
    <3>. QED BY <1>2, <1>5, <3>1, <3>2
  <2>. QED BY <1>5, <2>1, <2>2 DEF WaitOK
<1>. QED BY <1>3, <1>6, <1>7, TailKept

LEMMA TailMoves ==
    ASSUME TrailInv, TailInv, NEW s \in Slots, NEW from, NEW to, Moves(s, from, to),
           to # "read", UNCHANGED <<latency, answered>>
    PROVE  TailInv'
<1>. DEFINE c == [calls[s] EXCEPT !.pc = to]
<1>1. calls[s] # None /\ calls' = [calls EXCEPT ![s] = c]
  BY DEF Moves
<1>2. calls[s] \in Calls /\ WaitOK(calls[s])
  BY <1>1 DEF TrailInv, CallsOK, CallOK, TailInv
<1>3. /\ c.req = calls[s].req /\ c.pc = to
      /\ c.late = calls[s].late /\ c.waited = calls[s].waited
  BY <1>2 DEF Calls
<1>. HIDE DEF c
<1>4. WaitOK(c)
  BY <1>2, <1>3 DEF WaitOK
<1>. QED BY <1>1, <1>4, TailKept

LEMMA TailRespond ==
    ASSUME TrailInv, TailInv, NEW s \in Slots, Respond(s) PROVE TailInv'
<1>. DEFINE call == calls[s]
<1>1. /\ call # None /\ calls' = [calls EXCEPT ![s] = None]
      /\ latency' = IF Untimed(call.req) THEN latency ELSE ObserveDuration(call.timer)
      /\ answered'.late = answered.late + One(call.late)
  BY DEF Respond, One
<1>2. CallOK(call) /\ WaitOK(call)
  BY <1>1 DEF TrailInv, CallsOK, TailInv
<1>3. /\ call.timer = call.waited /\ call.waited \in 0 .. WebhookTimeout
      /\ call.late \in BOOLEAN /\ WebhookTimeout \in Nat
  BY <1>2, AuditAssumption DEF CallOK, Calls
<1>4. call.late => call.timer = WebhookTimeout /\ ~Untimed(call.req)
  BY <1>2, <1>3 DEF WaitOK
<1>5. latency \in [count : Nat, le : [Buckets -> Nat]] /\ answered.late \in Nat
  BY DEF TrailInv, CountersOK
<1>. HIDE DEF call
<1>6. ASSUME NEW b \in Buckets
      PROVE  /\ b < WebhookTimeout => latency'.count - latency'.le[b] >= answered'.late
             /\ b > WebhookTimeout => latency'.le[b] = latency'.count
  <2>1. /\ b < WebhookTimeout => latency.count - latency.le[b] >= answered.late
        /\ b > WebhookTimeout => latency.le[b] = latency.count
    BY <1>6 DEF TailInv, TailCoversTheUnanswered
  <2>2. latency.count \in Nat /\ latency.le[b] \in Nat /\ b \in Nat
    BY <1>5, <1>6 DEF Buckets
  <2>3. CASE Untimed(call.req)
    <3>1. One(call.late) = 0
      BY <1>4, <2>3 DEF One
    <3>2. latency' = latency /\ answered'.late = answered.late
      BY <1>1, <1>5, <2>3, <3>1
    <3>. QED BY <2>1, <3>2
  <2>4. CASE ~Untimed(call.req)
    <3>1. /\ latency'.count = latency.count + 1
          /\ latency'.le[b] = latency.le[b] + One(call.timer <= b)
      BY <1>1, <1>5, <1>6, <2>4, Observed
    <3>2. b < WebhookTimeout /\ call.late => One(call.timer <= b) = 0
      BY <1>3, <1>4, <2>2 DEF One
    <3>3. b > WebhookTimeout => One(call.timer <= b) = 1
      BY <1>3, <2>2 DEF One
    <3>4. One(call.timer <= b) \in {0, 1} /\ One(call.late) = IF call.late THEN 1 ELSE 0
      BY DEF One
    <3>. QED BY <1>1, <1>3, <1>5, <2>1, <2>2, <3>1, <3>2, <3>3, <3>4
  <2>. QED BY <2>3, <2>4
<1>7. \A t \in Slots : calls'[t] = IF t = s THEN None ELSE calls[t]
  BY <1>1 DEF TrailInv, CallsOK
<1>8. \A t \in Slots : calls'[t] # None => WaitOK(calls'[t])
  BY <1>7 DEF TailInv
<1>9. TailCoversTheUnanswered'
  BY <1>6 DEF TailCoversTheUnanswered
<1>. QED BY <1>8, <1>9 DEF TailInv, WaitOK

LEMMA TailStep == TrailInv /\ TailInv /\ [Next]_vars => TailInv'
<1>. SUFFICES ASSUME TrailInv, TailInv, [Next]_vars PROVE TailInv'
  OBVIOUS
<1>1. ASSUME NEW s \in Slots, Receive(s) PROVE TailInv'
  BY <1>1, TailReceive
<1>2. ASSUME NEW s \in Slots, Read(s) \/ ReadTimesOut(s) \/ ReadCancelled(s) PROVE TailInv'
  BY <1>2, TailReturn
<1>3. ASSUME NEW s \in Slots,
             \/ SubresourceReturn(s) \/ ExcludedGroupReturn(s) \/ ScopeReturn(s)
             \/ UnmanagedReturn(s) \/ buildResponse(s) \/ CountDenial(s)
      PROVE  TailInv'
  <2>1. /\ \E from, to : Moves(s, from, to) /\ to # "read"
        /\ UNCHANGED <<latency, answered>>
    BY <1>3 DEF SubresourceReturn, ExcludedGroupReturn, ScopeReturn, UnmanagedReturn,
                buildResponse, CountDenial, RecordRequest
  <2>. QED BY <2>1, TailMoves
<1>4. ASSUME NEW s \in Slots, Respond(s) PROVE TailInv'
  BY <1>4, TailRespond
<1>5. CASE UNCHANGED vars
  BY <1>5 DEF vars, metrics, TailInv, WaitOK, TailCoversTheUnanswered
<1>. QED BY <1>1, <1>2, <1>3, <1>4, <1>5 DEF Next

(***************************************************************************)
(* The calls the API server gave up on lie above every bucket below the    *)
(* webhook's timeout, and nothing above one beyond it, whatever the two    *)
(* timeouts are (metrics.go, the tail buckets).                            *)
(***************************************************************************)
THEOREM TheTailCoversTheUnanswered == Spec => []TailCoversTheUnanswered
<1>1. Init => TailInv
  BY DEF Init, TailInv, TailCoversTheUnanswered, Buckets
<1>2. TrailInv /\ TailInv /\ [Next]_vars => TailInv'
  BY TailStep
<1>3. TailInv => TailCoversTheUnanswered
  BY DEF TailInv
<1>. QED BY <1>1, <1>2, <1>3, TrailCorrect, PTL DEF Spec
=============================================================================
