--------------------------- MODULE Functions_proofs --------------------------
(***************************************************************************)
(* Proofs about the code that computes an answer from its input and keeps  *)
(* no state between calls: the rules of .spec.ignore, the transform of the *)
(* informer cache, the allow-list, the configuration, the field algebra    *)
(* with the walk it stands for, and the pointers of .spec.ignore.  Each    *)
(* theorem is about that component's own specification; the modules share  *)
(* no variable.                                                            *)
(***************************************************************************)
EXTENDS FieldWalk, FieldPaths_proofs, IgnoreRules, IgnorePointers, OwnerCache, AllowList,
        StartupConfig, Folds_proofs

----------------------------------------------------------------------------
(***************************************************************************)
(* .spec.ignore, for every list of entries of any length: what is waived   *)
(* is selected, a fault waives nothing, and no rule is lost.               *)
(***************************************************************************)
LEMMA OwnersTyped ==
    ASSUME owner \in Owners
    PROVE  /\ Len(owner.entries) \in Nat /\ DOMAIN owner.entries = 1 .. Len(owner.entries)
           /\ \A i \in 1 .. Len(owner.entries) : owner.entries[i] \in Entries
           /\ owner.found \in BOOLEAN
<1>1. PICK n \in 0 .. MaxEntries : owner.entries \in [1 .. n -> Entries]
  BY DEF Owners
<1>2. owner.entries \in Seq(Entries)
  BY <1>1
<1>. QED BY <1>2 DEF Owners

(***************************************************************************)
(* ruleMatchesObject: an answer is never more than the target says.        *)
(***************************************************************************)
LEMMA AnswerIsSaid ==
    ASSUME NEW rule \in Entries, NEW verdict \in ruleMatchesObject(rule.target)
    PROVE  /\ verdict \in Verdicts
           /\ verdict = "match" => Selected(rule)
           /\ verdict # "match" => Says(rule, verdict)
<1>. DEFINE target == rule.target
            stopping == { key \in Patterns : target[key] # "match" }
<1>1. target \in [Patterns \cup Selectors -> Verdicts]
  BY EntriesAssumption
<1>2. CASE stopping # {}
  <2>1. PICK key \in Patterns : target[key] # "match" /\ verdict = target[key]
    BY <1>2 DEF ruleMatchesObject
  <2>. QED BY <2>1, <1>1 DEF Says
<1>3. CASE stopping = {} /\ target["labelSelector"] # "match"
  <2>1. verdict = target["labelSelector"]
    BY <1>3 DEF ruleMatchesObject
  <2>. QED BY <2>1, <1>1, <1>3 DEF Says, Selectors
<1>4. CASE stopping = {} /\ target["labelSelector"] = "match"
  <2>1. verdict = target["annotationSelector"]
    BY <1>4 DEF ruleMatchesObject
  <2>2. verdict \in Verdicts /\ (verdict # "match" => Says(rule, verdict))
    BY <2>1, <1>1 DEF Says, Selectors
  <2>3. verdict = "match" => \A key \in DOMAIN target : target[key] = "match"
    <3>1. \A key \in Patterns : target[key] = "match"
      BY <1>4
    <3>2. DOMAIN target = Patterns \cup {"labelSelector", "annotationSelector"}
      BY <1>1 DEF Selectors
    <3>. HIDE DEF target, stopping
    <3>. QED BY <2>1, <3>1, <3>2, <1>4
  <2>. QED BY <2>2, <2>3 DEF Selected, Says
<1>. QED BY <1>2, <1>3, <1>4

----------------------------------------------------------------------------
\* The loop: what is collected after the entries before at.

RulesReadable == owner.kind = "Kustomization" /\ owner.found
Seen == { i \in 1 .. at - 1 : Usable(owner.entries[i]) }

Collected ==
    /\ \A path \in ignoreSet :
          \E i \in Seen : Selected(owner.entries[i]) /\ path \in owner.entries[i].paths
    /\ \A i \in Seen :
          /\ Selected(owner.entries[i]) => owner.entries[i].paths \ {Root} \subseteq ignoreSet
          /\ Faulty(owner.entries[i]) => Says(owner.entries[i], "mismatch")

LoopInv ==
    /\ owner \in Owners /\ pc \in {"ask", "rules", "done", "failed"}
    /\ at \in 1 .. Len(owner.entries) + 1
    /\ pc = "ask" => at = 1 /\ ignoreSet = {}
    /\ pc # "ask" => IF RulesReadable THEN pc # "done" \/ at = Len(owner.entries) + 1
                     ELSE pc = "done" /\ ignoreSet = {}
    /\ pc = "failed" => ignoreSet = {}
    /\ pc \in {"rules", "done"} /\ RulesReadable => Collected

LEMMA NextEntry ==
    ASSUME LoopInv, More, at' = at + 1, UNCHANGED <<owner, pc>>,
           Usable(Current) => (Faulty(Current) => Says(Current, "mismatch")),
           ignoreSet' = IF Usable(Current) /\ Selected(Current)
                        THEN ignoreSet \cup (Current.paths \ {Root}) ELSE ignoreSet
    PROVE  LoopInv'
<1>1. /\ owner \in Owners /\ Len(owner.entries) \in Nat /\ at \in 1 .. Len(owner.entries)
      /\ RulesReadable /\ pc = "rules" /\ Collected
  BY OwnersTyped DEF LoopInv, More
<1>2. Seen' = Seen \cup (IF Usable(Current) THEN {at} ELSE {})
  <2>1. 1 .. at' - 1 = (1 .. at - 1) \cup {at}
    BY <1>1
  <2>2. Seen' = { i \in 1 .. at' - 1 : Usable(owner.entries[i]) }
    BY DEF Seen, Usable
  <2>. QED BY <2>1, <2>2 DEF Seen, Current
<1>3. Collected'
  <2>1. \A i \in Seen' : (i \in Seen \/ (i = at /\ Usable(Current)))
    BY <1>2
  <2>2. ASSUME NEW path \in ignoreSet'
        PROVE  \E i \in Seen' : Selected(owner.entries[i]) /\ path \in owner.entries[i].paths
    <3>1. CASE path \in ignoreSet
      BY <3>1, <1>1, <1>2 DEF Collected
    <3>2. CASE path \notin ignoreSet
      BY <3>2, <2>2, <1>2 DEF Current
    <3>. QED BY <3>1, <3>2
  <2>3. ASSUME NEW i \in Seen'
        PROVE  /\ Selected(owner.entries[i]) => owner.entries[i].paths \ {Root} \subseteq ignoreSet'
               /\ Faulty(owner.entries[i]) => Says(owner.entries[i], "mismatch")
    <3>1. CASE i \in Seen
      BY <3>1, <1>1 DEF Collected
    <3>2. CASE i = at /\ Usable(Current)
      BY <3>2 DEF Current
    <3>. QED BY <2>1, <2>3, <3>1, <3>2
  <2>4. owner' = owner
    OBVIOUS
  <2>. QED BY <2>2, <2>3, <2>4 DEF Collected, Selected, Says, Faulty
<1>4. at' \in 1 .. Len(owner.entries) + 1
  BY <1>1
<1>. QED BY <1>1, <1>3, <1>4 DEF LoopInv, RulesReadable

LEMMA InitLoop == RulesInit => LoopInv
BY OwnersTyped DEF RulesInit, LoopInv

LEMMA FailLoop == LoopInv /\ More /\ Fail => LoopInv'
BY DEF LoopInv, More, Fail, RulesReadable

LEMMA StepLoop == LoopInv /\ [RulesNext]_rulesVars => LoopInv'
<1>. SUFFICES ASSUME LoopInv, [RulesNext]_rulesVars PROVE LoopInv'
  OBVIOUS
<1>1. CASE Ask
  <2>1. Collected'
    BY <1>1 DEF Ask, LoopInv, Collected, Seen
  <2>2. /\ at = 1 /\ ignoreSet = {} /\ UNCHANGED <<owner, at, ignoreSet>>
        /\ pc' = IF RulesReadable THEN "rules" ELSE "done"
    BY <1>1 DEF Ask, LoopInv, RulesReadable
  <2>. QED BY <2>1, <2>2 DEF LoopInv, RulesReadable
<1>2. CASE Skip
  BY <1>2, NextEntry DEF Skip
<1>3. CASE Rule
  <2>1. PICK verdict \in ruleMatchesObject(Current.target) :
            \/ verdict = "malformed" /\ Fail
            \/ verdict = "mismatch" /\ NextRule
            \/ verdict = "match" /\ InsertPaths
    BY <1>3 DEF Rule
  <2>2. More /\ Usable(Current)
    BY <1>3 DEF Rule
  <2>3. Current \in Entries
    BY <2>2, OwnersTyped DEF More, Current, LoopInv
  <2>4. /\ verdict = "match" => Selected(Current)
        /\ verdict # "match" => Says(Current, verdict)
    BY <2>3, AnswerIsSaid
  <2>5. CASE Fail
    BY <2>2, <2>5, FailLoop
  <2>6. CASE verdict = "mismatch" /\ NextRule
    <3>1. Says(Current, "mismatch") /\ ~Selected(Current)
      BY <2>4, <2>6 DEF Selected
    <3>. QED BY <2>2, <2>6, <3>1, NextEntry DEF NextRule
  <2>7. CASE verdict = "match" /\ InsertPaths /\ ~Fail
    <3>1. /\ Invalid \notin Current.paths
          /\ ignoreSet' = ignoreSet \cup (Current.paths \ {Root})
          /\ at' = at + 1 /\ UNCHANGED <<owner, pc>>
      BY <2>7 DEF InsertPaths
    <3>2. Selected(Current) /\ ~Faulty(Current)
      BY <2>4, <2>7, <3>1 DEF Selected, Faulty
    <3>. QED BY <2>2, <3>1, <3>2, NextEntry
  <2>. QED BY <2>1, <2>5, <2>6, <2>7
<1>4. CASE Return
  <2>1. at = Len(owner.entries) + 1 /\ RulesReadable /\ Collected
    BY <1>4, OwnersTyped DEF Return, More, LoopInv
  <2>. QED BY <1>4, <2>1 DEF Return, LoopInv, RulesReadable, Collected, Seen
<1>5. CASE UNCHANGED rulesVars
  BY <1>5 DEF rulesVars, LoopInv, RulesReadable, Collected, Seen
<1>. QED BY <1>1, <1>2, <1>3, <1>4, <1>5 DEF RulesNext

LEMMA LoopCorrect == RulesSpec => []LoopInv
BY InitLoop, StepLoop, PTL DEF RulesSpec

----------------------------------------------------------------------------
\* What the loop leaves behind.

LEMMA RulesAreSeen ==
    ASSUME LoopInv, pc = "done", RulesReadable
    PROVE  Rules = { owner.entries[i] : i \in Seen }
<1>1. at - 1 = Len(owner.entries) /\ DOMAIN owner.entries = 1 .. Len(owner.entries)
  BY OwnersTyped DEF LoopInv
<1>. QED BY <1>1 DEF Rules, Seen

LEMMA SeenAreRules ==
    ASSUME LoopInv, NEW i \in Seen
    PROVE  owner.entries[i] \in Rules
<1>1. i \in DOMAIN owner.entries /\ Usable(owner.entries[i])
  BY OwnersTyped DEF LoopInv, Seen
<1>. QED BY <1>1 DEF Rules

(***************************************************************************)
(* Every waived path is one a rule that selects the object names, for any  *)
(* number of rules and any order of the map (ignoreSetForObject).          *)
(***************************************************************************)
THEOREM WaiverIsSelected == RulesSpec => []WaivesOnlySelected
<1>1. LoopInv => WaivesOnlySelected
  <2>. SUFFICES ASSUME LoopInv, NEW path \in ignoreSet
                PROVE  /\ owner.kind = "Kustomization" /\ owner.found
                       /\ \E rule \in Rules : Selected(rule) /\ path \in rule.paths
    BY DEF WaivesOnlySelected
  <2>1. pc \in {"rules", "done"} /\ RulesReadable /\ Collected
    BY DEF LoopInv
  <2>2. PICK i \in Seen : Selected(owner.entries[i]) /\ path \in owner.entries[i].paths
    BY <2>1 DEF Collected
  <2>. QED BY <2>1, <2>2, SeenAreRules DEF RulesReadable
<1>. QED BY <1>1, LoopCorrect, PTL

(***************************************************************************)
(* A faulty rule that nothing says is for another object leaves no waiver, *)
(* wherever it stands (ignoreSetForObject, driftIgnoreSet).                *)
(***************************************************************************)
THEOREM FaultWaivesNothing == RulesSpec => []FailsClosed
<1>1. LoopInv => FailsClosed
  <2>. SUFFICES ASSUME LoopInv, Ended, NEW rule \in Rules, Faulty(rule),
                       ~Says(rule, "mismatch")
                PROVE  ignoreSet = {}
    BY DEF FailsClosed
  <2>1. CASE pc = "done" /\ RulesReadable
    <3>1. PICK i \in Seen : rule = owner.entries[i]
      BY <2>1, RulesAreSeen
    <3>. QED BY <2>1, <3>1 DEF LoopInv, Collected
  <2>2. CASE ~(pc = "done" /\ RulesReadable)
    BY <2>2 DEF LoopInv, Ended
  <2>. QED BY <2>1, <2>2
<1>. QED BY <1>1, LoopCorrect, PTL

(***************************************************************************)
(* An evaluation that does not fail waives the union of every selecting    *)
(* rule's paths, less the root (ignoreSetForObject).                       *)
(***************************************************************************)
THEOREM NoRuleIsLost == RulesSpec => []EveryRuleCounts
<1>1. LoopInv => EveryRuleCounts
  <2>. SUFFICES ASSUME LoopInv, pc = "done", RulesReadable, NEW rule \in Rules, Selected(rule)
                PROVE  rule.paths \ {Root} \subseteq ignoreSet
    BY DEF EveryRuleCounts, RulesReadable
  <2>1. PICK i \in Seen : rule = owner.entries[i]
    BY RulesAreSeen
  <2>. QED BY <2>1 DEF LoopInv, Collected
<1>. QED BY <1>1, LoopCorrect, PTL

----------------------------------------------------------------------------
(***************************************************************************)
(* The transform of the informer cache, for any values of the fields.      *)
(***************************************************************************)
\* What is stored of an object the server has.
Stored(obj) == cacheTransform(NamespaceMetadata(obj))

(***************************************************************************)
(* copyFields leaves of a section the named fields it has, or no section;  *)
(* so it keeps what a reader finds of these, and changes nothing twice.    *)
(***************************************************************************)
LEMMA CopiedSection ==
    ASSUME NEW all, NEW section \in Sections(all), NEW names
    PROVE  /\ Tidy(copyFields(section, names))
           /\ DOMAIN copyFields(section, names).fields \subseteq names
           /\ \A name \in names :
                 Nested(copyFields(section, names), name) = Nested(section, name)
           /\ copyFields(copyFields(section, names), names) = copyFields(section, names)
<1> DEFINE found == names \cap DOMAIN section.fields
           kept == [f \in found |-> section.fields[f]]
<1>1. DOMAIN NoSection.fields = {} /\ NoSection.is = "absent" /\ NoSection.is # "map"
  BY DEF NoSection
<1>2. CASE section.is # "map" \/ found = {}
  <2>1. copyFields(section, names) = NoSection
    BY <1>2 DEF copyFields
  <2>2. \A name \in names : Nested(section, name) = {}
    BY <1>2 DEF Nested
  <2>3. \A name \in names : Nested(NoSection, name) = {}
    BY <1>1 DEF Nested
  <2>4. copyFields(NoSection, names) = NoSection
    BY <1>1 DEF copyFields
  <2> QED BY <1>1, <2>1, <2>2, <2>3, <2>4 DEF Tidy
<1>3. CASE section.is = "map" /\ found # {}
  <2>1. copyFields(section, names) = Map(kept)
    BY <1>3 DEF copyFields
  <2>2. Map(kept).is = "map" /\ Map(kept).fields = kept /\ DOMAIN kept = found
    BY DEF Map
  <2>3. \A name \in names : Nested(Map(kept), name) = Nested(section, name)
    BY <1>3, <2>2 DEF Nested
  <2>4. names \cap DOMAIN kept = found
    BY <2>2
  <2>5. [f \in found |-> kept[f]] = kept
    BY <2>2
  <2>6. copyFields(Map(kept), names) = Map(kept)
    <3> HIDE DEF kept, found
    <3> QED BY <1>3, <2>2, <2>4, <2>5 DEF copyFields
  <2> QED BY <1>3, <2>1, <2>2, <2>3, <2>6 DEF Tidy
<1> QED BY <1>2, <1>3

\* What the transform makes of an owner, field by field.
LEMMA OwnerStored ==
    ASSUME NEW obj \in Objects, obj.kind \in OwnerKinds
    PROVE  Stored(obj) =
             [kind |-> obj.kind, deleting |-> obj.deleting, managedFields |-> FALSE,
              spec |-> copyFields(obj.spec, ownerCacheSpecFields),
              status |-> copyFields(obj.status, ownerCacheStatusFields)]
<1>1. NamespaceMetadata(obj) = obj
  BY DEF NamespaceMetadata, OwnerKinds
<1> QED
  BY <1>1 DEF Stored, cacheTransform, isOwnerGVK, StripOwnerForCache, stripManagedFields, Objects

\* And of the other kinds.
LEMMA OtherStored ==
    ASSUME NEW obj \in Objects, obj.kind \notin OwnerKinds
    PROVE  Stored(obj) =
             [kind |-> obj.kind, deleting |-> obj.deleting, managedFields |-> FALSE,
              spec |-> IF obj.kind = "Namespace" THEN NoSection ELSE obj.spec,
              status |-> IF obj.kind = "Namespace" THEN NoSection ELSE obj.status]
<1>1. CASE obj.kind = "Namespace"
  BY <1>1 DEF NamespaceMetadata, Stored, cacheTransform, isOwnerGVK, stripManagedFields,
              OwnerKinds, Objects
<1>2. CASE obj.kind # "Namespace"
  BY <1>2 DEF NamespaceMetadata, Stored, cacheTransform, isOwnerGVK, stripManagedFields,
              Objects
<1> QED BY <1>1, <1>2

\* What has no managedFields stays as it is.
LEMMA StrippedTwice ==
    ASSUME NEW obj \in Objects, obj.managedFields = FALSE
    PROVE  stripManagedFields(obj) = obj
BY DEF stripManagedFields, Objects

(***************************************************************************)
(* The three facts: a second transform changes nothing, the reads are      *)
(* those of the whole object, and nothing but the reads is kept.           *)
(***************************************************************************)
LEMMA StoredFacts ==
    ASSUME NEW obj \in Objects
    PROVE  /\ cacheTransform(Stored(obj)) = Stored(obj)
           /\ Reads(Stored(obj)) = Reads(obj)
           /\ Stored(obj).kind # "ValidatingWebhookConfiguration" =>
                 /\ ~Stored(obj).managedFields
                 /\ Tidy(Stored(obj).spec) /\ Tidy(Stored(obj).status)
                 /\ DOMAIN Stored(obj).spec.fields \subseteq {"serviceAccountName", "ignore"}
                 /\ DOMAIN Stored(obj).status.fields \subseteq {"inventory"}
<1>1. CASE obj.kind \in OwnerKinds
  <2> DEFINE spec == copyFields(obj.spec, ownerCacheSpecFields)
             status == copyFields(obj.status, ownerCacheStatusFields)
             slim == [kind |-> obj.kind, deleting |-> obj.deleting, managedFields |-> FALSE,
                      spec |-> spec, status |-> status]
  <2>1. Stored(obj) = slim
    BY <1>1, OwnerStored
  <2>2. obj.spec \in Sections(SpecFields) /\ obj.status \in Sections(StatusFields)
    BY DEF Objects
  <2>3. /\ Tidy(spec)
        /\ DOMAIN spec.fields \subseteq ownerCacheSpecFields
        /\ \A name \in ownerCacheSpecFields : Nested(spec, name) = Nested(obj.spec, name)
        /\ copyFields(spec, ownerCacheSpecFields) = spec
    BY <2>2, CopiedSection
  <2>4. /\ Tidy(status)
        /\ DOMAIN status.fields \subseteq ownerCacheStatusFields
        /\ \A name \in ownerCacheStatusFields : Nested(status, name) = Nested(obj.status, name)
        /\ copyFields(status, ownerCacheStatusFields) = status
    BY <2>2, CopiedSection
  <2> HIDE DEF spec, status
  <2>5. cacheTransform(slim) = slim
    BY <1>1, <2>3, <2>4 DEF cacheTransform, isOwnerGVK, StripOwnerForCache, stripManagedFields
  <2>6. Reads(slim) = Reads(obj)
    BY <1>1, <2>3, <2>4 DEF Reads, OwnerReads, ownerCacheSpecFields, ownerCacheStatusFields
  <2> QED
    BY <2>1, <2>3, <2>4, <2>5, <2>6 DEF ownerCacheSpecFields, ownerCacheStatusFields
<1>2. CASE obj.kind \notin OwnerKinds
  <2>1. PICK slim : slim =
             [kind |-> obj.kind, deleting |-> obj.deleting, managedFields |-> FALSE,
              spec |-> IF obj.kind = "Namespace" THEN NoSection ELSE obj.spec,
              status |-> IF obj.kind = "Namespace" THEN NoSection ELSE obj.status]
    OBVIOUS
  <2>2. Stored(obj) = slim
    BY <1>2, <2>1, OtherStored
  <2>3. cacheTransform(slim) = slim
    <3>1. slim \in Objects /\ slim.managedFields = FALSE
      BY <2>1 DEF Objects, Sections
    <3>2. stripManagedFields(slim) = slim
      BY <3>1, StrippedTwice
    <3>3. slim.kind \notin OwnerKinds
      BY <1>2, <2>1
    <3> QED
      BY <3>2, <3>3, Zenon DEF cacheTransform, isOwnerGVK
  <2>4. Reads(slim) = Reads(obj)
    BY <1>2, <2>1 DEF Reads, OwnerKinds
  <2>5. slim.kind # "ValidatingWebhookConfiguration" =>
           slim.spec = NoSection /\ slim.status = NoSection /\ DOMAIN NoSection.fields = {}
    BY <1>2, <2>1 DEF Objects, Kinds, OwnerKinds, NoSection
  <2> QED BY <2>1, <2>2, <2>3, <2>4, <2>5 DEF Tidy
<1> QED BY <1>1, <1>2

\* The store holds nothing, or what the transform made of the server's object.
CacheInv == server \in Objects /\ store \in {Nothing, Stored(server)}

LEMMA CacheInvariant == CacheSpec => []CacheInv
<1>1. CacheInit => CacheInv
  BY DEF CacheInit, CacheInv
<1>2. CacheInv /\ [CacheNext]_cacheVars => CacheInv'
  <2> SUFFICES ASSUME CacheInv, [CacheNext]_cacheVars PROVE CacheInv'
    OBVIOUS
  <2>1. CASE Deliver
    BY <2>1 DEF Deliver, CacheInv, Stored
  <2>2. CASE Resync
    BY <2>2, StoredFacts DEF Resync, CacheInv
  <2>3. CASE UNCHANGED cacheVars
    BY <2>3 DEF cacheVars, CacheInv
  <2> QED BY <2>1, <2>2, <2>3 DEF CacheNext
<1> QED BY <1>1, <1>2, PTL DEF CacheSpec

(***************************************************************************)
(* Whatever its fields hold and whatever shape its sections have, an       *)
(* object is read from the cache as it would be from the server.           *)
(***************************************************************************)
THEOREM CacheIsTransparent == CacheSpec => []ReadsSurvive
<1>1. CacheInv => ReadsSurvive
  BY StoredFacts DEF CacheInv, ReadsSurvive
<1> QED BY <1>1, CacheInvariant, PTL

(***************************************************************************)
(* And the store holds nothing of an owner or a namespace that is not      *)
(* read.                                                                   *)
(***************************************************************************)
THEOREM CacheIsSlim == CacheSpec => []StoresOnlyReads
<1>1. CacheInv => StoresOnlyReads
  BY StoredFacts DEF CacheInv, StoresOnlyReads
<1> QED BY <1>1, CacheInvariant, PTL

----------------------------------------------------------------------------
(***************************************************************************)
(* The allow-list, for any alphabet of segments.                           *)
(***************************************************************************)
LEMMA NameTyped ==
    ASSUME NEW e \in Names
    PROVE  /\ e \in Seq(Segments) /\ Len(e) \in 1 .. MaxSegments
           /\ DOMAIN e = 1 .. Len(e) /\ \A i \in 1 .. Len(e) : e[i] \in Segments
<1>1. PICK n \in 1 .. MaxSegments : e \in [1 .. n -> Segments]
  BY DEF Names
<1>2. e \in Seq(Segments) /\ Len(e) = n
  BY <1>1, AllowAssumption
<1>. QED BY <1>1, <1>2

\* The user a full username names, and the one a shorthand names.
FullUser(e) == [username |-> e, inGroup |-> FALSE]
ShortUser(e) == [username |-> <<"system", "serviceaccount", e[1], e[2]>>, inGroup |-> TRUE]

(***************************************************************************)
(* IsSystemController: an identity that an entry matches is the one that   *)
(* its form names.                                                         *)
(***************************************************************************)
LEMMA MatchedUser ==
    ASSUME NEW e, NEW u \in Authenticated, Matches(e, u)
    PROVE  u = IF SystemPrefixed(e) THEN FullUser(e) ELSE ShortUser(e)
<1>1. /\ u = [username |-> u.username, inGroup |-> u.inGroup]
      /\ u.username \in Names /\ u.inGroup \in BOOLEAN
      /\ u.inGroup <=> Len(u.username) = 4 /\ ServiceAccountPrefixed(u.username)
      /\ ServiceAccountPrefixed(u.username) => u.inGroup
  BY DEF Authenticated, Users
<1>2. CASE /\ SystemPrefixed(u.username) /\ ~ServiceAccountPrefixed(u.username)
           /\ u.username = e
  BY <1>1, <1>2 DEF FullUser
<1>3. CASE ParseServiceAccount(u).ok /\ ~SystemPrefixed(e)
           /\ e = <<ParseServiceAccount(u).ns, ParseServiceAccount(u).name>>
  <2>1. /\ ServiceAccountPrefixed(u.username) /\ Len(u.username) = 4 /\ u.inGroup
        /\ e = <<u.username[3], u.username[4]>>
    BY <1>3 DEF ParseServiceAccount, NoServiceAccount
  <2>2. u.username[1] = "system" /\ u.username[2] = "serviceaccount"
    BY <2>1 DEF ServiceAccountPrefixed
  <2>3. u.username \in Seq(Segments)
    BY <1>1, NameTyped
  <2>4. u.username = <<"system", "serviceaccount", e[1], e[2]>>
    BY <2>1, <2>2, <2>3
  <2>. QED BY <1>1, <1>3, <2>1, <2>4 DEF ShortUser
<1>. QED BY <1>2, <1>3 DEF Matches, IsSystemController

(***************************************************************************)
(* No entry, of any form, matches two identities.                          *)
(***************************************************************************)
THEOREM EntryNamesOneIdentity == AllowSpec => []OneIdentityPerEntry
<1>1. ASSUME NEW e PROVE Cardinality({ u \in Authenticated : Matches(e, u) }) <= 1
  <2>. DEFINE S == { u \in Authenticated : Matches(e, u) }
  <2>1. \A u, w \in S : u = w
    BY MatchedUser
  <2>2. CASE S = {}
    BY <2>2, FS_EmptySet
  <2>3. CASE S # {}
    <3>1. PICK u \in S : TRUE
      BY <2>3
    <3>2. S = {u}
      BY <2>1
    <3>. QED BY <3>2, FS_Singleton
  <2>. QED BY <2>2, <2>3
<1>2. OneIdentityPerEntry
  BY <1>1 DEF OneIdentityPerEntry
<1>. QED BY <1>2, PTL

\* A running program has the entries of a flag that it did not refuse.
AllowInv ==
    running => /\ flag \in FlagValues /\ ~MergeError(flag)
               /\ entries = mergeSystemControllerSAs(flag)

LEMMA AllowCorrect == AllowSpec => []AllowInv
<1>1. AllowInit => AllowInv
  BY DEF AllowInit, AllowInv
<1>2. AllowInv /\ [AllowNext]_allowVars => AllowInv'
  <2>. SUFFICES ASSUME AllowInv, [AllowNext]_allowVars PROVE AllowInv'
    OBVIOUS
  <2>1. CASE Stop
    BY <2>1 DEF Stop, AllowInv
  <2>2. CASE \E csv \in FlagValues : Start(csv)
    BY <2>2 DEF Start, AllowInv
  <2>3. CASE UNCHANGED allowVars
    BY <2>3 DEF allowVars, AllowInv
  <2>. QED BY <2>1, <2>2, <2>3 DEF AllowNext
<1>. QED BY <1>1, <1>2, PTL DEF AllowSpec

(***************************************************************************)
(* Each built-in entry has a form that validation accepts.                 *)
(***************************************************************************)
LEMMA DefaultsAccepted ==
    ASSUME NEW e \in defaultSystemControllerServiceAccounts
    PROVE  EntryAccepted(e)
<1>0. "kube-system" # EmptySegment
  BY Zenon DEF EmptySegment
<1>1. CASE \E sa : e = <<"kube-system", sa>> /\ sa # EmptySegment
  BY <1>0, <1>1 DEF EntryAccepted, ServiceAccountPrefixed, SystemPrefixed
<1>2. CASE \E sa : e = <<"system", sa>>
  BY <1>2 DEF EntryAccepted, ServiceAccountPrefixed, SystemPrefixed
<1>3. \A sa \in {"generic-garbage-collector", "endpoint-controller",
                 "endpointslice-controller", "endpointslicemirroring-controller",
                 "ttl-after-finished-controller", "cronjob-controller"} : sa # EmptySegment
  BY Zenon DEF EmptySegment
<1>. QED BY <1>1, <1>2, <1>3 DEF defaultSystemControllerServiceAccounts

(***************************************************************************)
(* What an accepted entry names can be authenticated, and is let through.  *)
(***************************************************************************)
LEMMA EntryIsAlive ==
    ASSUME NEW e \in Names, EntryAccepted(e), \A i \in DOMAIN e : e[i] # EmptySegment,
           NEW list, e \in list
    PROVE  \E u \in Authenticated : Matches(e, u) /\ IsSystemController(u, list)
<1>1. /\ e \in Seq(Segments) /\ Len(e) \in 1 .. MaxSegments
      /\ DOMAIN e = 1 .. Len(e) /\ \A i \in 1 .. Len(e) : e[i] \in Segments
  BY NameTyped
<1>2. CASE SystemPrefixed(e)
  <2>. DEFINE u == FullUser(e)
  <2>1. u \in Users /\ u.username = e /\ u.inGroup = FALSE
    BY DEF FullUser, Users
  <2>2. ~ServiceAccountPrefixed(e)
    BY DEF EntryAccepted
  <2>3. u \in Authenticated
    BY <2>1, <2>2 DEF Authenticated
  <2>4. Matches(e, u) /\ IsSystemController(u, list)
    BY <1>2, <2>1, <2>2 DEF Matches, IsSystemController
  <2>. QED BY <2>3, <2>4
<1>3. CASE ~SystemPrefixed(e)
  <2>. DEFINE u == ShortUser(e)
  <2>1. Len(e) = 2
    BY <1>3 DEF EntryAccepted
  <2>2. /\ e[1] \in Segments \ {EmptySegment} /\ e[2] \in Segments \ {EmptySegment}
        /\ e = <<e[1], e[2]>>
    <3>1. 1 \in DOMAIN e /\ 2 \in DOMAIN e
      BY <1>1, <2>1
    <3>2. e[1] \in Segments \ {EmptySegment} /\ e[2] \in Segments \ {EmptySegment}
      BY <1>1, <3>1
    <3>3. e = <<e[1], e[2]>>
      BY <1>1, <2>1
    <3>. QED BY <3>2, <3>3
  <2>3. /\ u.username = <<"system", "serviceaccount", e[1], e[2]>> /\ u.inGroup = TRUE
        /\ u.username[3] = e[1] /\ u.username[4] = e[2] /\ Len(u.username) = 4
        /\ ServiceAccountPrefixed(u.username)
    <3>1. u.username = <<"system", "serviceaccount", e[1], e[2]>>
      BY DEF ShortUser
    <3>2. u.inGroup = TRUE
      BY DEF ShortUser
    <3>. HIDE DEF u
    <3>3. Len(u.username) = 4
      BY <3>1
    <3>4. /\ u.username[1] = "system" /\ u.username[2] = "serviceaccount"
          /\ u.username[3] = e[1] /\ u.username[4] = e[2]
      BY <3>1
    <3>. QED BY <3>1, <3>2, <3>3, <3>4 DEF ServiceAccountPrefixed
  <2>4. u \in Users
    <3>1. <<"system", "serviceaccount", e[1], e[2]>> \in [1 .. 4 -> Segments]
      BY <2>2, AllowAssumption
    <3>2. 4 \in 1 .. MaxSegments
      BY AllowAssumption
    <3>. QED BY <2>3, <3>1, <3>2 DEF Users, Names, ShortUser
  <2>5. \A i \in DOMAIN u.username : u.username[i] # EmptySegment
    <3>1. "system" # EmptySegment /\ "serviceaccount" # EmptySegment
      BY Zenon DEF EmptySegment
    <3>. HIDE DEF u
    <3>. QED BY <2>2, <2>3, <3>1
  <2>6. u \in Authenticated
    BY <2>3, <2>4, <2>5 DEF Authenticated
  <2>7. ParseServiceAccount(u) = [ok |-> TRUE, ns |-> e[1], name |-> e[2]]
    BY <2>3 DEF ParseServiceAccount
  <2>8. Matches(e, u) /\ IsSystemController(u, list)
    <3>. HIDE DEF u
    <3>. QED BY <1>3, <2>2, <2>7 DEF Matches, IsSystemController
  <2>. QED BY <2>6, <2>8
<1>. QED BY <1>2, <1>3

(***************************************************************************)
(* A program that starts has no inert entry (mergeSystemControllerSAs).    *)
(***************************************************************************)
THEOREM NoEntryIsInert == AllowSpec => []NoInertEntry
<1>1. AllowInv => NoInertEntry
  <2>. SUFFICES ASSUME AllowInv, running,
                       NEW e \in flag \cup (defaultSystemControllerServiceAccounts \cap Names),
                       \A i \in DOMAIN e : e[i] # EmptySegment
                PROVE  \E u \in Authenticated : Matches(e, u) /\ IsSystemController(u, entries)
    BY DEF NoInertEntry
  <2>1. /\ flag \in FlagValues /\ ~MergeError(flag)
        /\ entries = mergeSystemControllerSAs(flag)
    BY DEF AllowInv
  <2>2. e \in Names
    BY <2>1 DEF FlagValues
  <2>3. e # Blank
    BY DEF Blank
  <2>4. e \in entries
    BY <2>1, <2>3 DEF mergeSystemControllerSAs
  <2>5. EntryAccepted(e)
    BY <2>1, <2>3, DefaultsAccepted DEF MergeError
  <2>. QED BY <2>2, <2>4, <2>5, EntryIsAlive
<1>. QED BY <1>1, AllowCorrect, PTL

----------------------------------------------------------------------------
(***************************************************************************)
(* The configuration, for any durations, policies and timeouts given.      *)
(***************************************************************************)
\* A chart's release passes its own flags; main goes on with what it accepts.
ConfigInv ==
    /\ \/ chart = Manual
       \/ chart \in ChartValues /\ flags = ChartFlags(chart) /\ env = NoVariables
    /\ \/ outcome = Starting
       \/ outcome = IF Accepted(env, flags) THEN Settings(env, flags) ELSE Exited

LEMMA ConfigCorrect == ConfigSpec => []ConfigInv
<1>1. ConfigInit => ConfigInv
  BY DEF ConfigInit, ConfigInv
<1>2. ConfigInv /\ [ConfigNext]_configVars => ConfigInv'
  <2>. SUFFICES ASSUME ConfigInv, [ConfigNext]_configVars PROVE ConfigInv'
    OBVIOUS
  <2>1. UNCHANGED <<chart, env, flags>>
    BY DEF ConfigNext, Configure, configVars
  <2>2. CASE Configure
    BY <2>1, <2>2 DEF Configure, ConfigInv
  <2>3. CASE UNCHANGED configVars
    BY <2>1, <2>3 DEF configVars, ConfigInv
  <2>. QED BY <2>2, <2>3 DEF ConfigNext
<1>. QED BY <1>1, <1>2, PTL DEF ConfigSpec

LEMMA StatesDiffer ==
    /\ Starting.state = "starting" /\ Exited.state = "exited"
    /\ \A e, f : Settings(e, f).state = "started"
BY DEF Starting, Exited, Settings

(***************************************************************************)
(* vwcResyncInterval: the first of the four sources that gives one.        *)
(***************************************************************************)
LEMMA FirstSource ==
    ASSUME NEW e, NEW f
    PROVE  vwcResyncInterval(e, f) =
             IF f.vwcResyncInterval # Unset THEN Durations[f.vwcResyncInterval]
             ELSE IF f.discoveryInterval # Unset THEN Durations[f.discoveryInterval]
             ELSE IF e.vwcResyncInterval # Unset THEN Durations[e.vwcResyncInterval]
             ELSE IF e.discoveryInterval # Unset THEN Durations[e.discoveryInterval]
             ELSE DefaultInterval
BY DEF vwcResyncInterval, UseAlias, getEnvDuration, resyncIntervalDefault

(***************************************************************************)
(* The most explicit source wins, and no process starts with a duration it *)
(* could not read (main).                                                  *)
(***************************************************************************)
THEOREM ExplicitIntervalWins == ConfigSpec => []IntervalPrecedence
<1>1. ConfigInv => IntervalPrecedence
  <2>. SUFFICES ASSUME ConfigInv, Started
                PROVE  /\ \A i \in 1 .. 4 : IntervalSources[i] # Typo
                       /\ IF \A i \in 1 .. 4 : IntervalSources[i] = Unset
                          THEN outcome.interval = DefaultInterval
                          ELSE \E i \in 1 .. 4 :
                                  /\ IntervalSources[i] # Unset
                                  /\ \A j \in 1 .. i - 1 : IntervalSources[j] = Unset
                                  /\ outcome.interval = Durations[IntervalSources[i]]
    BY DEF IntervalPrecedence
  <2>1. Accepted(env, flags) /\ outcome = Settings(env, flags)
    BY StatesDiffer DEF ConfigInv, Started
  <2>2. outcome.interval = vwcResyncInterval(env, flags)
    BY <2>1 DEF Settings
  <2>3. PICK a, b, c, d : /\ a = flags.vwcResyncInterval /\ b = flags.discoveryInterval
                          /\ c = env.vwcResyncInterval /\ d = env.discoveryInterval
    OBVIOUS
  <2>4. /\ IntervalSources[1] = a /\ IntervalSources[2] = b
        /\ IntervalSources[3] = c /\ IntervalSources[4] = d
    BY <2>3 DEF IntervalSources
  <2>5. Readable(a) /\ Readable(b) /\ Readable(c) /\ Readable(d)
    BY <2>1, <2>3 DEF Accepted, resyncIntervalAccepted
  <2>6. outcome.interval = IF a # Unset THEN Durations[a] ELSE IF b # Unset THEN Durations[b]
                           ELSE IF c # Unset THEN Durations[c]
                           ELSE IF d # Unset THEN Durations[d] ELSE DefaultInterval
    BY <2>2, <2>3, FirstSource
  <2>7. \A i \in 1 .. 4 : IntervalSources[i] # Typo
    BY <2>4, <2>5 DEF Readable
  <2>8. CASE a = Unset /\ b = Unset /\ c = Unset /\ d = Unset
    BY <2>4, <2>6, <2>7, <2>8
  <2>9. ASSUME NEW i \in 1 .. 4, IntervalSources[i] # Unset,
               \A j \in 1 .. i - 1 : IntervalSources[j] = Unset
        PROVE  outcome.interval = Durations[IntervalSources[i]]
    <3>1. CASE i = 1
      BY <3>1, <2>4, <2>6, <2>9
    <3>2. CASE i = 2
      BY <3>2, <2>4, <2>6, <2>9
    <3>3. CASE i = 3
      BY <3>3, <2>4, <2>6, <2>9
    <3>4. CASE i = 4
      BY <3>4, <2>4, <2>6, <2>9
    <3>. QED BY <3>1, <3>2, <3>3, <3>4
  <2>10. CASE ~(a = Unset /\ b = Unset /\ c = Unset /\ d = Unset)
    <3>1. \E i \in 1 .. 4 : /\ IntervalSources[i] # Unset
                            /\ \A j \in 1 .. i - 1 : IntervalSources[j] = Unset
      <4>1. CASE a # Unset
        BY <4>1, <2>4
      <4>2. CASE a = Unset /\ b # Unset
        BY <4>2, <2>4
      <4>3. CASE a = Unset /\ b = Unset /\ c # Unset
        BY <4>3, <2>4
      <4>4. CASE a = Unset /\ b = Unset /\ c = Unset /\ d # Unset
        BY <4>4, <2>4
      <4>. QED BY <2>10, <4>1, <4>2, <4>3, <4>4
    <3>2. PICK i \in 1 .. 4 : /\ IntervalSources[i] # Unset
                              /\ \A j \in 1 .. i - 1 : IntervalSources[j] = Unset
      BY <3>1
    <3>3. outcome.interval = Durations[IntervalSources[i]]
      BY <3>2, <2>9
    <3>. QED BY <2>7, <3>2, <3>3
  <2>. QED BY <2>8, <2>10
<1>. QED BY <1>1, ConfigCorrect, PTL

(***************************************************************************)
(* A released chart starts, with the values the manifest was rendered      *)
(* from (deployment.yaml, main).                                           *)
(***************************************************************************)
THEOREM ChartAndManifestAgree == ConfigSpec => []ChartAgrees
<1>1. ConfigInv => ChartAgrees
  <2>. SUFFICES ASSUME ConfigInv, chart # Manual, outcome # Starting
                PROVE  /\ Started
                       /\ outcome.failurePolicy = chart.failurePolicy
                       /\ outcome.timeout = chart.timeoutSeconds
                       /\ outcome.interval =
                             LET given == Or(chart.vwcResyncInterval, chart.discoveryInterval)
                             IN  IF given = Unset THEN DefaultInterval ELSE Durations[given]
    BY DEF ChartAgrees
  <2>. DEFINE given == Or(chart.vwcResyncInterval, chart.discoveryInterval)
  <2>1. /\ chart \in ChartValues /\ flags = ChartFlags(chart) /\ env = NoVariables
        /\ outcome = IF Accepted(env, flags) THEN Settings(env, flags) ELSE Exited
    BY DEF ConfigInv
  <2>2. /\ chart.failurePolicy \in {"Ignore", "Fail"} /\ chart.timeoutSeconds \in 1 .. 30
        /\ given \in DOMAIN Durations \cup {Unset}
    BY <2>1 DEF ChartValues, Given, Or
  <2>3. /\ env.vwcResyncInterval = Unset /\ env.discoveryInterval = Unset
        /\ env.failurePolicy = Unset
    BY <2>1 DEF NoVariables
  <2>4. /\ flags.vwcResyncInterval = given /\ flags.discoveryInterval = Unset
        /\ flags.failurePolicy = IF chart.failurePolicy = "Ignore" THEN Unset
                                 ELSE chart.failurePolicy
        /\ flags.webhookTimeout = chart.timeoutSeconds
        /\ flags.namespaceLabelValue = FALSE
    <3>1. flags = ChartFlags(chart)
      BY <2>1
    <3>. QED BY <3>1 DEF ChartFlags, ChartInterval
  <2>5. Readable(Unset) /\ Readable(given)
    <3>1. Unset # Typo
      BY Zenon DEF Unset, Typo
    <3>. QED BY <2>2, <3>1, ConfigAssumption DEF Readable
  <2>6. failurePolicy(env, flags) = chart.failurePolicy
    <3>1. "Fail" # Unset
      BY Zenon DEF Unset
    <3>. QED BY <2>2, <2>3, <2>4, <3>1 DEF failurePolicy, Or
  <2>7. Accepted(env, flags)
    BY <2>2, <2>3, <2>4, <2>5, <2>6
    DEF Accepted, resyncIntervalAccepted, parseFailurePolicy
  <2>8. outcome = Settings(env, flags)
    BY <2>1, <2>7
  <2>9. vwcResyncInterval(env, flags) = IF given = Unset THEN DefaultInterval ELSE Durations[given]
    BY <2>3, <2>4, FirstSource
  <2>. QED BY <2>4, <2>6, <2>8, <2>9, StatesDiffer DEF Started, Settings
<1>. QED BY <1>1, ConfigCorrect, PTL

----------------------------------------------------------------------------
(***************************************************************************)
(* The field algebra, for any set of leaves and lists, any pair of         *)
(* documents and any depth bound.                                          *)
(***************************************************************************)
WalkInv == old \in Docs /\ new \in Docs /\ flux \in SUBSET Paths /\ ignore \in SUBSET Paths

LEMMA WalkCorrect == WalkSpec => []WalkInv
<1>1. WalkInit => WalkInv
  <2>1. Empty \in Docs
    BY DEF Empty, Docs, Present
  <2>. QED BY <2>1, WalkAssumption DEF WalkInit, WalkInv
<1>2. WalkInv /\ [WalkNext]_walkVars => WalkInv'
  BY DEF WalkInv, WalkNext, EditNew, Admit, walkVars
<1>. QED BY <1>1, <1>2, PTL DEF WalkSpec

LEMMA ModifiedTyped ==
    ASSUME WalkInv
    PROVE  /\ Modified \subseteq Paths
           /\ \A S \in {Modified, flux, ignore} : S \subseteq Seq(Elements)
           /\ \A l \in Leaves : l \in Seq(Elements) /\ Len(l) \in Nat /\ Len(l) >= 1
<1>1. Modified \subseteq Paths
  BY DEF Modified, ComputeFieldDiff, Nodes
<1>2. flux \subseteq Paths /\ ignore \subseteq Paths
  BY DEF WalkInv
<1>3. \A l \in Leaves : l \in Seq(Elements) /\ Len(l) \in Nat /\ Len(l) >= 1
  BY FieldPathsAssumption
<1>. QED BY <1>1, <1>2, <1>3, PathsAreSequences

(***************************************************************************)
(* No change to a value that Flux owns escapes the check, unless a rule    *)
(* names a path at or above it.                                            *)
(***************************************************************************)
THEOREM NoDriftIsWaived == WalkSpec => []NoDriftWaived
<1>1. WalkInv => NoDriftWaived
  <2>. SUFFICES ASSUME WalkInv, NEW l \in Leaves, Changed(l), Owned(l), ~Ignored(l),
                       Len(l) <= MaxDiffDepth, EmptyMap \notin {old[l], new[l]},
                       WaiveIgnoredConflicts(Conflict, ignore) = {}
                PROVE  FALSE
    BY DEF NoDriftWaived
  <2>1. PICK m \in Modified : IsPrefix(m, l)
    BY DiffCovers DEF WalkInv, Changed, Modified
  <2>2. PICK f \in flux : IsPrefix(f, l)
    BY DEF Owned
  <2>3. WaiveIgnoredConflicts(GetConflictingFields(Modified, flux), ignore) = {}
    BY DEF Conflict
  <2>4. \E i \in ignore : IsPrefix(i, l)
    BY <2>1, <2>2, <2>3, ModifiedTyped, ConflictSound
  <2>. QED BY <2>4 DEF Ignored
<1>. QED BY <1>1, WalkCorrect, PTL

(***************************************************************************)
(* A conflict is a Flux field at or below a difference, or a difference at *)
(* or below a Flux field.                                                  *)
(***************************************************************************)
LEMMA ConflictSides ==
    ASSUME NEW c \in WaiveIgnoredConflicts(Conflict, ignore)
    PROVE  \/ c \in flux /\ \E m \in Modified : IsPrefix(m, c)
           \/ c \in Modified /\ \E f \in flux : IsPrefix(f, c)
BY DEF WaiveIgnoredConflicts, Conflict, GetConflictingFields, RecursiveDifference

(***************************************************************************)
(* A Flux field below a path that is not a map in both documents: the      *)
(* field itself was in the old object, so either it is what changed, or    *)
(* everything below the path went away with it.                            *)
(***************************************************************************)
LEMMA FieldBelowDifference ==
    ASSUME WalkInv, NEW f \in flux, Exists(old, f),
           NEW m \in Modified, IsPrefix(m, f), m \notin ListPaths
    PROVE  \E l \in Leaves : Changed(l) /\ Comparable(f, l)
<1>1. f \in Seq(Elements) /\ m \in Seq(Elements)
  BY ModifiedTyped
<1>2. ~BothMaps(old, new, m) /\ ~SameBelow(old, new, m)
  BY DEF Modified, ComputeFieldDiff
<1>3. PICK k \in Leaves : IsPrefix(f, k) /\ Present(old, k)
  BY DEF Exists
<1>4. k \in Seq(Elements) /\ IsPrefix(m, k)
  BY <1>1, <1>3, ModifiedTyped, PrefixTransitive
<1>5. CASE k = m
  <2>1. f = m
    BY <1>1, <1>3, <1>4, <1>5, StrictIsShorter
  <2>. QED BY <1>2, <2>1 DEF SameBelow, Changed, Comparable
<1>6. CASE k # m
  <2>1. IsStrictPrefix(m, k)
    BY <1>4, <1>6 DEF IsStrictPrefix
  <2>2. IsMap(old, m)
    BY <1>3, <2>1 DEF IsMap
  <2>3. ~Present(new, k)
    BY <1>2, <2>1, <2>2 DEF BothMaps, IsMap
  <2>. QED BY <1>3, <2>3 DEF Changed, Comparable, Present
<1>. QED BY <1>5, <1>6

(***************************************************************************)
(* No false denial: every conflict that is left has a changed value and a  *)
(* Flux field on its branch, or in its list.                               *)
(***************************************************************************)
THEOREM EveryConflictHasACause == WalkSpec => []ConflictHasCause
<1>1. WalkInv => ConflictHasCause
  <2>. SUFFICES ASSUME WalkInv, \A f \in flux : Exists(old, f),
                       NEW c \in WaiveIgnoredConflicts(Conflict, ignore)
                PROVE  \E l \in Leaves, f \in flux :
                          /\ Changed(l)
                          /\ Comparable(c, f)
                          /\ \/ Comparable(c, l) /\ Comparable(f, l)
                             \/ \E q \in ListPaths : IsPrefix(q, l) /\ Comparable(q, f)
    BY DEF ConflictHasCause
  <2>1. CASE c \in Modified /\ \E f \in flux : IsPrefix(f, c)
    <3>1. PICK f \in flux : IsPrefix(f, c)
      BY <2>1
    <3>2. PICK l \in Leaves : IsPrefix(c, l) /\ Changed(l)
      BY <2>1 DEF Modified, ComputeFieldDiff, SameBelow, Changed
    <3>3. f \in Seq(Elements) /\ c \in Seq(Elements) /\ l \in Seq(Elements)
      BY <2>1, ModifiedTyped
    <3>4. IsPrefix(f, l)
      BY <3>1, <3>2, <3>3, PrefixTransitive
    <3>. QED BY <3>1, <3>2, <3>4 DEF Comparable
  <2>2. CASE c \in flux /\ \E m \in Modified : IsPrefix(m, c)
    <3>1. PICK m \in Modified : IsPrefix(m, c)
      BY <2>2
    <3>2. Comparable(c, c)
      <4>1. c \in Seq(Elements)
        BY <2>2, ModifiedTyped
      <4>. QED BY <4>1 DEF Comparable, IsPrefix
    <3>3. CASE m \in ListPaths
      <4>1. PICK l \in Leaves : IsPrefix(m, l) /\ Changed(l)
        BY DEF Modified, ComputeFieldDiff, SameBelow, Changed
      <4>2. Comparable(m, c)
        BY <3>1 DEF Comparable
      <4>. QED BY <2>2, <3>2, <3>3, <4>1, <4>2
    <3>4. CASE m \notin ListPaths
      <4>1. Exists(old, c)
        BY <2>2
      <4>2. PICK l \in Leaves : Changed(l) /\ Comparable(c, l)
        BY <2>2, <3>1, <3>4, <4>1, FieldBelowDifference
      <4>. QED BY <2>2, <3>2, <4>2
    <3>. QED BY <3>3, <3>4
  <2>. QED BY <2>1, <2>2, ConflictSides
<1>. QED BY <1>1, WalkCorrect, PTL

(***************************************************************************)
(* A leaf that changes and was, or becomes, an empty map: the other        *)
(* document has no map there, or one with a leaf that is new.              *)
(***************************************************************************)
LEMMA EmptyMapChanges ==
    ASSUME NEW o \in Docs, NEW n \in Docs, NEW l \in Leaves,
           o[l] # n[l], EmptyMap \in {o[l], n[l]}, Len(l) < MaxDiffDepth
    PROVE  \E p \in ComputeFieldDiff(o, n) : Comparable(p, l)
<1>1. l \in Seq(Elements) /\ Len(l) \in Nat /\ Len(l) >= 1
  BY FieldPathsAssumption
<1>2. SubSeq(l, 1, Len(l)) = l /\ Len(l) \in 1 .. Len(l)
  BY <1>1
<1>3. CASE ~BothMaps(o, n, l)
  <2>1. PICK i \in 1 .. Len(l) : SubSeq(l, 1, i) \in ComputeFieldDiff(o, n)
    <3>1. Len(l) <= MaxDiffDepth
      BY <1>1, FieldPathsAssumption
    <3>2. ~BothMaps(o, n, SubSeq(l, 1, Len(l)))
      BY <1>2, <1>3
    <3>. QED BY <1>2, <3>1, <3>2, DiffReaches
  <2>2. i \in 0 .. Len(l)
    BY <1>1
  <2>. QED BY <1>1, <2>1, <2>2, SegmentIsPrefix DEF Comparable
<1>4. CASE BothMaps(o, n, l)
  <2>1. PICK d \in {o, n}, e \in {o, n} : d[l] = EmptyMap /\ e[l] # EmptyMap /\ {d, e} = {o, n}
    OBVIOUS
  <2>2. Present(d, l) /\ d \in Docs /\ e \in Docs
    BY <2>1, WalkAssumption DEF Present
  <2>3. PICK k \in Leaves : IsStrictPrefix(l, k) /\ Present(e, k)
    BY <1>4, <2>1 DEF BothMaps, IsMap
  <2>4. /\ k \in Seq(Elements) /\ Len(k) \in Nat /\ Len(l) < Len(k)
        /\ IsPrefix(l, k) /\ l = SubSeq(k, 1, Len(l))
    BY <1>1, <2>3, StrictIsShorter, FieldPathsAssumption DEF IsStrictPrefix
  <2>. DEFINE j == Len(l) + 1
              q == SubSeq(k, 1, j)
  <2>5. j \in 1 .. Len(k) /\ j <= MaxDiffDepth
    BY <1>1, <2>4, FieldPathsAssumption
  <2>6. q \in Seq(Elements) /\ Len(q) = j /\ IsPrefix(q, k)
    <3>1. j \in 0 .. Len(k)
      BY <2>5
    <3>. QED BY <2>4, <3>1, SegmentIsPrefix
  <2>7. IsPrefix(l, q)
    <3>1. Len(l) <= Len(q)
      BY <1>1, <2>6
    <3>. QED BY <1>1, <2>4, <2>6, <3>1, PrefixesComparable
  <2>8. ASSUME NEW h \in Leaves, IsPrefix(q, h) PROVE ~Present(d, h)
    <3>1. h \in Seq(Elements) /\ IsPrefix(l, h)
      BY <1>1, <2>6, <2>7, <2>8, PrefixTransitive, FieldPathsAssumption
    <3>2. Len(l) < Len(h)
      <4>1. Len(q) <= Len(h) /\ Len(h) \in Nat
        BY <2>6, <2>8, <3>1, StrictIsShorter
      <4>. QED BY <1>1, <2>6, <4>1
    <3>3. IsStrictPrefix(l, h)
      BY <1>1, <3>1, <3>2, StrictIsShorter
    <3>. QED BY <2>2, <3>3 DEF Docs
  <2>9. ~IsMap(d, q)
    <3>1. \A h \in Leaves : IsStrictPrefix(q, h) => ~Present(d, h)
      BY <2>8 DEF IsStrictPrefix
    <3>2. q \in Leaves => d[q] # EmptyMap
      <4>1. IsPrefix(q, q)
        BY <2>6 DEF IsPrefix
      <4>. QED BY <2>8, <4>1, WalkAssumption DEF Present
    <3>. HIDE DEF q
    <3>. QED BY <3>1, <3>2 DEF IsMap
  <2>10. ~BothMaps(o, n, q)
    BY <2>1, <2>9 DEF BothMaps
  <2>11. o[k] # n[k]
    <3>1. ~Present(d, k)
      BY <2>6, <2>8
    <3>. QED BY <2>1, <2>3, <3>1 DEF Present
  <2>12. PICK i \in 1 .. j : SubSeq(k, 1, i) \in ComputeFieldDiff(o, n)
    <3>. HIDE DEF j
    <3>. QED BY <2>5, <2>10, <2>11, DiffReaches
  <2>13. Comparable(SubSeq(k, 1, i), l)
    <3>. DEFINE p == SubSeq(k, 1, i)
    <3>1. i \in 0 .. Len(k) /\ i \in Nat
      BY <2>4, <2>5
    <3>2. p \in Seq(Elements) /\ Len(p) = i /\ IsPrefix(p, k)
      BY <2>4, <3>1, SegmentIsPrefix
    <3>. HIDE DEF p
    <3>3. Len(p) <= Len(l) \/ Len(l) <= Len(p)
      BY <1>1, <3>1, <3>2
    <3>4. Comparable(p, l)
      BY <1>1, <2>4, <3>2, <3>3, PrefixesComparable DEF Comparable
    <3>. QED BY <3>4 DEF p
  <2>. QED BY <2>12, <2>13
<1>. QED BY <1>3, <1>4

(***************************************************************************)
(* The diff reports every change the bound reaches, nothing that is the    *)
(* same, and no path above another (ComputeFieldDiff).                     *)
(***************************************************************************)
THEOREM TheDiffIsExact == WalkSpec => []DiffIsExact
<1>1. WalkInv => DiffIsExact
  <2>. SUFFICES ASSUME WalkInv PROVE DiffIsExact
    OBVIOUS
  <2>1. ASSUME NEW l \in Leaves, Changed(l), Len(l) <= MaxDiffDepth,
               Len(l) = MaxDiffDepth => EmptyMap \notin {old[l], new[l]}
        PROVE  \E p \in Modified : Comparable(p, l)
    <3>1. CASE EmptyMap \notin {old[l], new[l]}
      BY <2>1, <3>1, DiffCovers DEF WalkInv, Changed, Modified, Comparable
    <3>2. CASE EmptyMap \in {old[l], new[l]}
      <4>1. Len(l) < MaxDiffDepth
        BY <2>1, <3>2, ModifiedTyped, FieldPathsAssumption
      <4>. QED BY <2>1, <3>2, <4>1, EmptyMapChanges DEF WalkInv, Changed, Modified
    <3>. QED BY <3>1, <3>2
  <2>2. \A p \in Modified : ~SameBelow(old, new, p)
    BY DEF Modified, ComputeFieldDiff
  <2>3. \A p, q \in Modified : ~IsStrictPrefix(p, q)
    BY DEF Modified, ComputeFieldDiff
  <2>. QED BY <2>1, <2>2, <2>3 DEF DiffIsExact
<1>. QED BY <1>1, WalkCorrect, PTL

----------------------------------------------------------------------------
(***************************************************************************)
(* The recursion of diffMaps and diffValues.  What it inserts below a map  *)
(* has a closed form, of which the set of the handler's model is the value *)
(* at the root; the closed form satisfies the recursion's equation, and so *)
(* nothing else does: two solutions that differ would differ at a deepest  *)
(* path.                                                                   *)
(***************************************************************************)
DiffBelow(o, n, p) ==
    { r \in Nodes : /\ IsStrictPrefix(p, r) /\ Len(r) <= MaxDiffDepth
                    /\ \A q \in Nodes : IsStrictPrefix(p, q) /\ IsStrictPrefix(q, r) =>
                          BothMaps(o, n, q)
                    /\ ~BothMaps(o, n, r) /\ ~SameBelow(o, n, r) }

WalkPaths == Nodes \cup {<< >>}

\* What the walk at p inserts, given what the walks below it insert.
Inserted(o, n, p, walk) ==
    IF Len(p) >= MaxDiffDepth THEN {}
    ELSE UNION { diffKey(o, n, q, walk[q]) : q \in KeysBelow(p) }

LEMMA NodeTyped ==
    /\ \A r \in Nodes : r \in Seq(Elements) /\ Len(r) \in Nat /\ Len(r) >= 1
    /\ \A p \in WalkPaths : p \in Seq(Elements) /\ Len(p) \in Nat
<1>1. \A r \in Nodes : r \in Seq(Elements) /\ Len(r) \in Nat /\ Len(r) >= 1
  <2>1. \A r \in Nodes : r \in Seq(Elements) /\ r # << >>
    BY PathsAreSequences DEF Nodes
  <2>2. \A r \in Seq(Elements) : Len(r) \in Nat /\ (r # << >> => Len(r) >= 1)
    OBVIOUS
  <2>. QED BY <2>1, <2>2
<1>2. << >> \in Seq(Elements) /\ Len(<< >>) = 0
  OBVIOUS
<1>. QED BY <1>1, <1>2 DEF WalkPaths

(***************************************************************************)
(* The diff stops at lists: so does every path above one it reaches.       *)
(***************************************************************************)
LEMMA NodeAbove ==
    ASSUME NEW r \in Nodes, NEW i \in 1 .. Len(r)
    PROVE  /\ SubSeq(r, 1, i) \in Nodes /\ Len(SubSeq(r, 1, i)) = i
           /\ IsPrefix(SubSeq(r, 1, i), r)
<1>. DEFINE q == SubSeq(r, 1, i)
<1>1. r \in Seq(Elements) /\ Len(r) \in Nat /\ i \in 0 .. Len(r) /\ i \in Nat /\ i >= 1
  BY NodeTyped
<1>2. q \in Seq(Elements) /\ Len(q) = i /\ IsPrefix(q, r)
  BY <1>1, SegmentIsPrefix
<1>3. q \in Paths
  <2>1. PICK l \in Leaves : \E k \in 1 .. Len(l) : r = SubSeq(l, 1, k)
    BY DEF Nodes, Paths, PrefixesOf
  <2>5. PICK k \in 1 .. Len(l) : r = SubSeq(l, 1, k)
    BY <2>1
  <2>2. l \in Seq(Elements) /\ Len(l) \in Nat
    BY FieldPathsAssumption
  <2>3. Len(r) = k
    BY <2>5, <2>2
  <2>4. SubSeq(SubSeq(l, 1, k), 1, i) = SubSeq(l, 1, i) /\ i \in 1 .. Len(l)
    BY <1>1, <2>5, <2>2, <2>3
  <2>. QED BY <2>5, <2>4 DEF Paths, PrefixesOf
<1>4. \A list \in ListPaths : ~IsStrictPrefix(list, q)
  <2>. SUFFICES ASSUME NEW list \in ListPaths, IsStrictPrefix(list, q) PROVE FALSE
    OBVIOUS
  <2>1. list \in Seq(Elements) /\ IsPrefix(list, q)
    BY FieldPathsAssumption DEF IsStrictPrefix
  <2>. HIDE DEF q
  <2>2. Len(list) < Len(q)
    BY <1>2, <2>1, StrictIsShorter
  <2>3. IsPrefix(list, r) /\ Len(list) < Len(r)
    BY <1>1, <1>2, <2>1, <2>2, PrefixTransitive, StrictIsShorter
  <2>4. IsStrictPrefix(list, r)
    BY <1>1, <2>1, <2>3, StrictIsShorter
  <2>. QED BY <2>4 DEF Nodes
<1>. QED BY <1>2, <1>3, <1>4 DEF Nodes

(***************************************************************************)
(* What exists in neither document is the same in both; what is a map in a *)
(* document exists there; what exists in one is no map in both.            *)
(***************************************************************************)
LEMMA ExistsFacts ==
    ASSUME NEW o \in Docs, NEW n \in Docs, NEW q
    PROVE  /\ ~Exists(o, q) /\ ~Exists(n, q) => SameBelow(o, n, q)
           /\ BothMaps(o, n, q) => Exists(o, q) /\ Exists(n, q)
           /\ ~(Exists(o, q) <=> Exists(n, q)) => ~SameBelow(o, n, q)
<1>1. ~Exists(o, q) /\ ~Exists(n, q) => SameBelow(o, n, q)
  BY DEF Exists, SameBelow, Present
<1>2. \A d \in Docs : IsMap(d, q) => Exists(d, q)
  <2>. SUFFICES ASSUME NEW d \in Docs, IsMap(d, q) PROVE Exists(d, q)
    OBVIOUS
  <2>1. CASE \E l \in Leaves : IsStrictPrefix(q, l) /\ Present(d, l)
    BY <2>1 DEF Exists, IsStrictPrefix
  <2>2. CASE q \in Leaves /\ d[q] = EmptyMap
    <3>1. IsPrefix(q, q)
      <4>1. q \in Seq(Elements)
        BY <2>2, FieldPathsAssumption
      <4>. QED BY <4>1 DEF IsPrefix
    <3>. QED BY <2>2, <3>1, WalkAssumption DEF Exists, Present
  <2>. QED BY <2>1, <2>2 DEF IsMap
<1>3. SameBelow(o, n, q) => (Exists(o, q) <=> Exists(n, q))
  BY DEF Exists, SameBelow, Present
<1>. QED BY <1>1, <1>2, <1>3 DEF BothMaps

(***************************************************************************)
(* A key of a map, and what lies between the map and a path below the key. *)
(***************************************************************************)
LEMMA BetweenKeys ==
    ASSUME NEW p \in WalkPaths, NEW q \in KeysBelow(p)
    PROVE  /\ q \in Nodes /\ Len(q) = Len(p) + 1 /\ IsStrictPrefix(p, q)
           /\ \A r \in Nodes : ~(IsStrictPrefix(p, r) /\ IsStrictPrefix(r, q))
           /\ \A r \in Nodes : IsStrictPrefix(q, r) => IsStrictPrefix(p, r)
           /\ \A r, t \in Nodes : /\ IsStrictPrefix(q, r) /\ IsStrictPrefix(p, t)
                                  /\ IsStrictPrefix(t, r)
                                  => t = q \/ IsStrictPrefix(q, t)
<1>1. /\ q \in Nodes /\ Len(q) = Len(p) + 1 /\ IsPrefix(p, q)
      /\ p \in Seq(Elements) /\ Len(p) \in Nat /\ q \in Seq(Elements)
  BY NodeTyped DEF KeysBelow
<1>2. IsStrictPrefix(p, q)
  BY <1>1, StrictIsShorter
<1>3. ASSUME NEW r \in Nodes, IsStrictPrefix(p, r)
      PROVE  r \in Seq(Elements) /\ Len(r) \in Nat /\ Len(p) < Len(r) /\ IsPrefix(p, r)
  <2>1. r \in Seq(Elements) /\ IsPrefix(p, r)
    BY <1>3, NodeTyped DEF IsStrictPrefix
  <2>. QED BY <1>1, <1>3, <2>1, StrictIsShorter
<1>4. ASSUME NEW r \in Nodes, IsStrictPrefix(p, r), IsStrictPrefix(r, q) PROVE FALSE
  <2>1. r \in Seq(Elements) /\ Len(r) \in Nat /\ Len(p) < Len(r)
    BY <1>3, <1>4
  <2>2. IsPrefix(r, q)
    BY <1>4 DEF IsStrictPrefix
  <2>3. Len(r) < Len(q)
    BY <1>1, <1>4, <2>1, <2>2, StrictIsShorter
  <2>. QED BY <1>1, <2>1, <2>3
<1>5. ASSUME NEW r \in Nodes, IsStrictPrefix(q, r)
      PROVE  /\ r \in Seq(Elements) /\ Len(r) \in Nat /\ Len(q) < Len(r)
             /\ IsPrefix(q, r) /\ IsStrictPrefix(p, r)
  <2>1. r \in Seq(Elements) /\ IsPrefix(q, r)
    BY <1>5, NodeTyped DEF IsStrictPrefix
  <2>2. Len(q) < Len(r) /\ Len(r) \in Nat
    BY <1>1, <1>5, <2>1, StrictIsShorter
  <2>3. IsPrefix(p, r)
    BY <1>1, <2>1, PrefixTransitive
  <2>4. Len(p) < Len(r)
    BY <1>1, <2>2
  <2>. QED BY <1>1, <2>1, <2>2, <2>3, <2>4, StrictIsShorter
<1>6. ASSUME NEW r \in Nodes, NEW t \in Nodes, IsStrictPrefix(q, r), IsStrictPrefix(p, t),
             IsStrictPrefix(t, r)
      PROVE  t = q \/ IsStrictPrefix(q, t)
  <2>1. t \in Seq(Elements) /\ Len(t) \in Nat /\ Len(p) < Len(t)
    BY <1>3, <1>6
  <2>2. r \in Seq(Elements) /\ IsPrefix(q, r) /\ IsPrefix(t, r)
    BY <1>5, <1>6 DEF IsStrictPrefix
  <2>3. Len(q) <= Len(t)
    BY <1>1, <2>1
  <2>4. IsPrefix(q, t)
    BY <1>1, <2>1, <2>2, <2>3, PrefixesComparable
  <2>. QED BY <2>4 DEF IsStrictPrefix
<1>. QED BY <1>1, <1>2, <1>4, <1>5, <1>6

(***************************************************************************)
(* What a key gives is what the closed form has at or below it.            *)
(***************************************************************************)
LEMMA KeyIsExact ==
    ASSUME NEW o \in Docs, NEW n \in Docs, NEW p \in WalkPaths, NEW q \in KeysBelow(p),
           Len(p) < MaxDiffDepth
    PROVE  diffKey(o, n, q, DiffBelow(o, n, q))
             = { r \in DiffBelow(o, n, p) : r = q \/ IsStrictPrefix(q, r) }
<1>. DEFINE Mine == { r \in DiffBelow(o, n, p) : r = q \/ IsStrictPrefix(q, r) }
<1>1. /\ q \in Nodes /\ Len(q) <= MaxDiffDepth /\ IsStrictPrefix(p, q)
      /\ ~IsStrictPrefix(q, q)
  BY BetweenKeys, NodeTyped, FieldPathsAssumption DEF IsStrictPrefix
<1>2. q \in DiffBelow(o, n, p) <=> ~BothMaps(o, n, q) /\ ~SameBelow(o, n, q)
  BY <1>1, BetweenKeys DEF DiffBelow
<1>3. CASE BothMaps(o, n, q)
  <2>1. diffKey(o, n, q, DiffBelow(o, n, q)) = DiffBelow(o, n, q)
    BY <1>3, ExistsFacts DEF diffKey, diffValues
  <2>2. ASSUME NEW r \in DiffBelow(o, n, q) PROVE r \in Mine
    <3>1. r \in Nodes /\ IsStrictPrefix(q, r) /\ IsStrictPrefix(p, r)
      BY <2>2, BetweenKeys DEF DiffBelow
    <3>2. \A t \in Nodes : IsStrictPrefix(p, t) /\ IsStrictPrefix(t, r) => BothMaps(o, n, t)
      BY <1>3, <2>2, <3>1, BetweenKeys DEF DiffBelow
    <3>. QED BY <2>2, <3>1, <3>2 DEF DiffBelow
  <2>3. ASSUME NEW r \in Mine PROVE r \in DiffBelow(o, n, q)
    <3>1. r \in Nodes /\ IsStrictPrefix(q, r)
      BY <1>2, <1>3, <2>3 DEF DiffBelow
    <3>2. \A t \in Nodes : IsStrictPrefix(q, t) => IsStrictPrefix(p, t)
      BY BetweenKeys
    <3>. QED BY <2>3, <3>1, <3>2 DEF DiffBelow
  <2>. QED BY <2>1, <2>2, <2>3
<1>4. CASE ~BothMaps(o, n, q)
  <2>1. ASSUME NEW r \in Mine PROVE r = q
    BY <1>1, <1>4, <2>1 DEF DiffBelow
  <2>2. Mine = IF SameBelow(o, n, q) THEN {} ELSE {q}
    BY <1>2, <1>4, <2>1
  <2>3. diffKey(o, n, q, DiffBelow(o, n, q)) = IF SameBelow(o, n, q) THEN {} ELSE {q}
    BY <1>4, ExistsFacts DEF diffKey, diffValues
  <2>. QED BY <2>2, <2>3
<1>. QED BY <1>3, <1>4

(***************************************************************************)
(* Each path below a map lies at or below one key of it.                   *)
(***************************************************************************)
LEMMA KeyAbove ==
    ASSUME NEW p \in WalkPaths, NEW r \in Nodes, IsStrictPrefix(p, r)
    PROVE  \E q \in KeysBelow(p) : r = q \/ IsStrictPrefix(q, r)
<1>. DEFINE q == SubSeq(r, 1, Len(p) + 1)
<1>1. /\ p \in Seq(Elements) /\ Len(p) \in Nat /\ r \in Seq(Elements) /\ Len(r) \in Nat
      /\ IsPrefix(p, r)
  BY NodeTyped DEF IsStrictPrefix
<1>2. Len(p) + 1 \in 1 .. Len(r)
  <2>1. Len(p) < Len(r)
    BY <1>1, StrictIsShorter
  <2>. QED BY <1>1, <2>1
<1>3. q \in Nodes /\ Len(q) = Len(p) + 1 /\ IsPrefix(q, r)
  BY <1>2, NodeAbove
<1>. HIDE DEF q
<1>4. IsPrefix(p, q)
  <2>1. q \in Seq(Elements) /\ Len(p) <= Len(q)
    BY <1>1, <1>3, NodeTyped
  <2>. QED BY <1>1, <1>3, <2>1, PrefixesComparable
<1>. QED BY <1>3, <1>4 DEF KeysBelow, IsStrictPrefix

LEMMA ClosedForm ==
    ASSUME NEW o \in Docs, NEW n \in Docs, NEW p \in WalkPaths,
           NEW walk, \A q \in KeysBelow(p) : walk[q] = DiffBelow(o, n, q)
    PROVE  Inserted(o, n, p, walk) = DiffBelow(o, n, p)
<1>1. CASE Len(p) >= MaxDiffDepth
  <2>1. ASSUME NEW r \in DiffBelow(o, n, p) PROVE FALSE
    <3>1. r \in Nodes /\ IsStrictPrefix(p, r) /\ Len(r) <= MaxDiffDepth
      BY <2>1 DEF DiffBelow
    <3>2. Len(p) < Len(r)
      BY <3>1, NodeTyped, StrictIsShorter DEF IsStrictPrefix
    <3>. QED BY <1>1, <3>1, <3>2, NodeTyped, FieldPathsAssumption
  <2>. QED BY <1>1, <2>1 DEF Inserted
<1>2. CASE ~(Len(p) >= MaxDiffDepth)
  <2>1. Len(p) < MaxDiffDepth
    BY <1>2, NodeTyped, FieldPathsAssumption
  <2>2. \A q \in KeysBelow(p) :
           diffKey(o, n, q, walk[q])
             = { r \in DiffBelow(o, n, p) : r = q \/ IsStrictPrefix(q, r) }
    BY <2>1, KeyIsExact
  <2>3. \A r \in DiffBelow(o, n, p) :
           \E q \in KeysBelow(p) : r = q \/ IsStrictPrefix(q, r)
    BY KeyAbove DEF DiffBelow
  <2>4. \A r : r \in Inserted(o, n, p, walk)
                  <=> \E q \in KeysBelow(p) : r \in diffKey(o, n, q, walk[q])
    BY <1>2 DEF Inserted
  <2>5. \A r : r \in Inserted(o, n, p, walk) <=> r \in DiffBelow(o, n, p)
    BY <2>2, <2>3, <2>4
  <2>. QED BY <2>5 DEF Inserted, DiffBelow
<1>. QED BY <1>1, <1>2

(***************************************************************************)
(* Whatever solves the recursion's equation is the closed form.            *)
(***************************************************************************)
LEMMA WalkIsUnique ==
    ASSUME NEW o \in Docs, NEW n \in Docs, NEW walk,
           walk = [p \in WalkPaths |-> Inserted(o, n, p, walk)]
    PROVE  \A p \in WalkPaths : walk[p] = DiffBelow(o, n, p)
<1>. DEFINE Wrong == { p \in WalkPaths : walk[p] # DiffBelow(o, n, p) }
            room(p) == MaxDiffDepth - Len(p)
            Rooms == { room(p) : p \in Wrong }
<1>1. \A p \in WalkPaths : walk[p] = Inserted(o, n, p, walk)
  OBVIOUS
<1>2. \A p \in WalkPaths : p \in Seq(Elements) /\ Len(p) \in Nat
  BY NodeTyped
<1>3. \A p \in WalkPaths : KeysBelow(p) \subseteq WalkPaths
  BY DEF KeysBelow, WalkPaths
<1>4. ASSUME NEW p \in Wrong
      PROVE  room(p) \in Nat /\ \E q \in Wrong : room(q) < room(p)
  <2>1. PICK q \in KeysBelow(p) : walk[q] # DiffBelow(o, n, q)
    BY <1>1, <1>4, ClosedForm
  <2>2. q \in Wrong /\ Len(q) = Len(p) + 1
    BY <1>3, <1>4, <2>1 DEF KeysBelow
  <2>3. ~(Len(p) >= MaxDiffDepth)
    <3>1. Inserted(o, n, p, walk) # DiffBelow(o, n, p)
      BY <1>1, <1>4
    <3>2. SUFFICES ASSUME Len(p) >= MaxDiffDepth
                   PROVE  \A other : Inserted(o, n, p, other) = Inserted(o, n, p, walk)
      <4>1. PICK closed : closed = [x \in WalkPaths |-> DiffBelow(o, n, x)]
        OBVIOUS
      <4>2. \A x \in KeysBelow(p) : closed[x] = DiffBelow(o, n, x)
        BY <1>3, <1>4, <4>1
      <4>3. Inserted(o, n, p, closed) = DiffBelow(o, n, p)
        BY <1>4, <4>2, ClosedForm
      <4>. QED BY <3>1, <4>3
    <3>. QED BY <3>2 DEF Inserted
  <2>. QED BY <1>2, <1>4, <2>2, <2>3, FieldPathsAssumption
<1>5. Wrong = {}
  <2>. SUFFICES ASSUME Wrong # {} PROVE FALSE
    OBVIOUS
  <2>1. Rooms \subseteq Nat /\ Rooms # {}
    <3>. HIDE DEF Wrong, room
    <3>. QED BY <1>4
  <2>2. PICK m \in Rooms : \A k \in Rooms : ~(<<k, m>> \in OpToRel(<, Nat))
    BY <2>1, NatLessThanWellFounded, WFMin
  <2>3. \A k \in Rooms : ~(k < m)
    BY <2>1, <2>2 DEF OpToRel
  <2>4. PICK p \in Wrong : m = room(p)
    BY <2>2
  <2>. HIDE DEF Wrong, room
  <2>. QED BY <1>4, <2>3, <2>4
<1>. QED BY <1>5

(***************************************************************************)
(* The diff of the handler's model is what the recursion inserts, for      *)
(* every pair of documents.                                                *)
(***************************************************************************)
THEOREM WalkComputesDiff ==
    ASSUME NEW o \in Docs, NEW n \in Docs
    PROVE  ComputeFieldDiff(o, n) = diffMaps(o, n)
<1>. DEFINE closed == [p \in WalkPaths |-> DiffBelow(o, n, p)]
            walk == CHOOSE w : w = [p \in WalkPaths |-> Inserted(o, n, p, w)]
<1>1. closed = [p \in WalkPaths |-> Inserted(o, n, p, closed)]
  <2>1. ASSUME NEW p \in WalkPaths PROVE Inserted(o, n, p, closed) = DiffBelow(o, n, p)
    <3>1. \A q \in KeysBelow(p) : closed[q] = DiffBelow(o, n, q)
      BY DEF KeysBelow, WalkPaths
    <3>. HIDE DEF closed
    <3>. QED BY <3>1, ClosedForm
  <2>. QED BY <2>1
<1>2. walk = [p \in WalkPaths |-> Inserted(o, n, p, walk)]
  <2>. HIDE DEF closed
  <2>. QED BY <1>1
<1>3. diffMaps(o, n) = walk[<< >>]
  BY DEF diffMaps, WalkPaths, Inserted
<1>4. << >> \in WalkPaths
  BY DEF WalkPaths
<1>5. diffMaps(o, n) = DiffBelow(o, n, << >>)
  <2>. HIDE DEF walk
  <2>. QED BY <1>2, <1>3, <1>4, WalkIsUnique
<1>6. \A q \in Nodes : IsStrictPrefix(<< >>, q)
  <2>1. \A q \in Seq(Elements) : IsPrefix(<< >>, q)
    BY DEF IsPrefix
  <2>2. \A q \in Nodes : q \in Seq(Elements) /\ q # << >>
    BY PathsAreSequences DEF Nodes
  <2>. QED BY <2>1, <2>2 DEF IsStrictPrefix
<1>. QED BY <1>5, <1>6 DEF DiffBelow, ComputeFieldDiff

(***************************************************************************)
(* Whatever edits two documents have seen, the diff as a set is the diff   *)
(* as the walk of diffMaps and diffValues inserts it.                      *)
(***************************************************************************)
THEOREM TheDiffIsTheWalk == WalkSpec => []DiffIsTheWalk
<1>1. WalkInv => DiffIsTheWalk
  BY WalkComputesDiff DEF WalkInv, DiffIsTheWalk, Modified
<1>. QED BY <1>1, WalkCorrect, PTL

----------------------------------------------------------------------------
(***************************************************************************)
(* The pointers of .spec.ignore.  Each loop of the code is a fold, which   *)
(* takes the characters one by one; the reading of a whole pointer then    *)
(* goes along its text, a character or an escape at a time.                *)
(***************************************************************************)
Text == Seq(Chars)
SegmentLists == Seq(Text) \ {<< >>}

LEMMA SpecialChars == {"/", "~", "0", "1"} \subseteq Chars
BY DEF Chars

SplitF == [p \in SegmentLists \X Chars |-> SplitStep(p[1], p[2])]
OneSegment == << << >> >>

LEMMA SplitTyped ==
    /\ OneSegment \in SegmentLists
    /\ SplitF \in [SegmentLists \X Chars -> SegmentLists]
<1>1. OneSegment \in SegmentLists
  BY DEF OneSegment, SegmentLists, Text
<1>2. ASSUME NEW segs \in SegmentLists, NEW c \in Chars PROVE SplitStep(segs, c) \in SegmentLists
  <2>1. segs \in Seq(Text) /\ Len(segs) \in Nat /\ Len(segs) # 0
    BY DEF SegmentLists
  <2>2. << >> \in Text
    BY DEF Text
  <2>3. Append(segs, << >>) \in SegmentLists
    BY <2>1, <2>2, AppendProperties DEF SegmentLists
  <2>4. Front(segs) \in Seq(Text)
    <3>1. \A i \in 1 .. Len(segs) - 1 : segs[i] \in Text
      BY <2>1
    <3>2. 1 \in Int /\ Len(segs) - 1 \in Int
      BY <2>1
    <3>. QED BY <3>1, <3>2, SubSeqProperties DEF Front
  <2>5. Append(Last(segs), c) \in Text
    <3>1. Last(segs) \in Text
      BY <2>1 DEF Last
    <3>. QED BY <3>1, AppendProperties DEF Text
  <2>6. Append(Front(segs), Append(Last(segs), c)) \in SegmentLists
    BY <2>4, <2>5, AppendProperties DEF SegmentLists
  <2>. QED BY <2>3, <2>6 DEF SplitStep
<1>. QED BY <1>1, <1>2 DEF SplitF

LEMMA SplitFolds ==
    ASSUME NEW text \in Text
    PROVE  Split(text) = Folded(SplitF, OneSegment, text)
<1>. DEFINE D == DOMAIN text
            Step(g, s) == IF s = {} THEN OneSegment ELSE SplitStep(g[s \ {Max(s)}], text[Max(s)])
            fold == CHOOSE g : g = [s \in SUBSET D |-> Step(g, s)]
<1>1. Typed(SplitF, OneSegment, text, Chars, SegmentLists)
  BY SplitTyped DEF Typed, Text
<1>2. PICK it \in [SUBSET D -> SegmentLists] : Takes(it, SplitF, OneSegment, text)
  BY <1>1, FoldLeftExists DEF Typed
<1>3. \A s \in SUBSET D : s # {} => text[Max(s)] \in Chars
  BY LastOfIndices DEF Text
<1>4. it = [s \in SUBSET D |-> Step(it, s)]
  <2>1. ASSUME NEW s \in SUBSET D PROVE it[s] = Step(it, s)
    BY <1>2, <1>3 DEF Takes, SplitF
  <2>. HIDE DEF Step
  <2>. QED BY <2>1
<1>5. fold = [s \in SUBSET D |-> Step(fold, s)]
  <2>. HIDE DEF Step
  <2>. QED BY <1>4
<1>6. Split(text) = fold[D]
  BY DEF Split, OneSegment, FoldLeft, MapThenFoldSet
<1>. HIDE DEF fold
<1>7. Mimics(fold, SplitF, OneSegment, text, SegmentLists)
  BY <1>3, <1>5 DEF Mimics, SplitF
<1>8. fold[D] = Folded(SplitF, OneSegment, text)
  BY <1>1, <1>7, FoldedIs
<1>. QED BY <1>6, <1>8

LEMMA SplitOneMore ==
    /\ Split(<< >>) = OneSegment
    /\ \A text \in Text, c \in Chars :
          Split(text) \in SegmentLists /\ Split(Append(text, c)) = SplitStep(Split(text), c)
<1>1. Split(<< >>) = OneSegment
  <2>. DEFINE none == << >>
  <2>1. none \in Text
    BY DEF Text
  <2>. HIDE DEF none
  <2>2. Typed(SplitF, OneSegment, none, Chars, SegmentLists)
    BY <2>1, SplitTyped DEF Typed, Text
  <2>3. Split(none) = Folded(SplitF, OneSegment, none)
    BY <2>1, SplitFolds
  <2>4. Folded(SplitF, OneSegment, << >>) = OneSegment
    BY <2>2, FoldedNone DEF none
  <2>. QED BY <2>3, <2>4 DEF none
<1>2. ASSUME NEW text \in Text, NEW c \in Chars
      PROVE  Split(text) \in SegmentLists /\ Split(Append(text, c)) = SplitStep(Split(text), c)
  <2>1. Typed(SplitF, OneSegment, text, Chars, SegmentLists)
    BY SplitTyped DEF Typed, Text
  <2>2. /\ Folded(SplitF, OneSegment, text) \in SegmentLists
        /\ Folded(SplitF, OneSegment, Append(text, c))
              = SplitF[<<Folded(SplitF, OneSegment, text), c>>]
    BY <2>1, FoldedOneMore
  <2>3. Append(text, c) \in Text
    BY AppendProperties DEF Text
  <2>4. /\ Split(text) = Folded(SplitF, OneSegment, text)
        /\ Split(Append(text, c)) = Folded(SplitF, OneSegment, Append(text, c))
    BY <2>3, SplitFolds
  <2>. QED BY <2>2, <2>4 DEF SplitF
<1>. QED BY <1>1, <1>2

Accs == [out : Text, tilde : BOOLEAN]
Fresh == [out |-> << >>, tilde |-> FALSE]
ReplaceF(digit, by) == [p \in Accs \X Chars |-> ReplaceStep(p[1], p[2], digit, by)]

LEMMA ReplaceTyped ==
    ASSUME NEW digit, NEW by \in Chars
    PROVE  /\ Fresh \in Accs
           /\ ReplaceF(digit, by) \in [Accs \X Chars -> Accs]
<1>1. Fresh \in Accs
  BY DEF Fresh, Accs, Text
<1>2. ASSUME NEW acc \in Accs, NEW c \in Chars PROVE ReplaceStep(acc, c, digit, by) \in Accs
  <2>1. acc.out \in Text
    BY DEF Accs
  <2>2. Front(acc.out) \in Text
    <3>1. Len(acc.out) \in Nat /\ \A i \in 1 .. Len(acc.out) - 1 : acc.out[i] \in Chars
      BY <2>1 DEF Text
    <3>2. 1 \in Int /\ Len(acc.out) - 1 \in Int
      BY <3>1
    <3>. QED BY <3>1, <3>2, SubSeqProperties DEF Front, Text
  <2>3. Append(Front(acc.out), by) \in Text /\ Append(acc.out, c) \in Text
    BY <2>1, <2>2, AppendProperties DEF Text
  <2>. QED BY <2>3 DEF ReplaceStep, Accs
<1>. QED BY <1>1, <1>2 DEF ReplaceF

LEMMA ReplaceFolds ==
    ASSUME NEW digit, NEW by \in Chars, NEW text \in Text
    PROVE  Replacing(text, digit, by) = Folded(ReplaceF(digit, by), Fresh, text)
<1>. DEFINE D == DOMAIN text
            F == ReplaceF(digit, by)
            Step(g, s) == IF s = {} THEN Fresh
                          ELSE ReplaceStep(g[s \ {Max(s)}], text[Max(s)], digit, by)
            fold == CHOOSE g : g = [s \in SUBSET D |-> Step(g, s)]
<1>1. Typed(F, Fresh, text, Chars, Accs)
  BY ReplaceTyped DEF Typed, Text
<1>2. \A acc \in Accs, c \in Chars : F[<<acc, c>>] = ReplaceStep(acc, c, digit, by)
  BY DEF ReplaceF
<1>. HIDE DEF F
<1>3. PICK it \in [SUBSET D -> Accs] : Takes(it, F, Fresh, text)
  BY <1>1, FoldLeftExists DEF Typed
<1>4. \A s \in SUBSET D : s # {} => text[Max(s)] \in Chars
  BY LastOfIndices DEF Text
<1>5. it = [s \in SUBSET D |-> Step(it, s)]
  <2>1. ASSUME NEW s \in SUBSET D PROVE it[s] = Step(it, s)
    BY <1>2, <1>3, <1>4 DEF Takes
  <2>. HIDE DEF Step
  <2>. QED BY <2>1
<1>6. fold = [s \in SUBSET D |-> Step(fold, s)]
  <2>. HIDE DEF Step
  <2>. QED BY <1>5
<1>7. Replacing(text, digit, by) = fold[D]
  BY DEF Replacing, Fresh, FoldLeft, MapThenFoldSet
<1>. HIDE DEF fold
<1>8. Mimics(fold, F, Fresh, text, Accs)
  BY <1>2, <1>4, <1>6 DEF Mimics
<1>9. fold[D] = Folded(F, Fresh, text)
  BY <1>1, <1>8, FoldedIs
<1>. QED BY <1>7, <1>9 DEF F

LEMMA ReplaceOneMore ==
    ASSUME NEW digit, NEW by \in Chars
    PROVE  /\ Replacing(<< >>, digit, by) = Fresh
           /\ \A text \in Text, c \in Chars :
                 /\ Replacing(text, digit, by) \in Accs
                 /\ Replacing(Append(text, c), digit, by)
                      = ReplaceStep(Replacing(text, digit, by), c, digit, by)
<1>. DEFINE F == ReplaceF(digit, by)
<1>0. F \in [Accs \X Chars -> Accs] /\ Fresh \in Accs
  BY ReplaceTyped
<1>. HIDE DEF F
<1>1. Replacing(<< >>, digit, by) = Fresh
  <2>. DEFINE none == << >>
  <2>1. none \in Text
    BY DEF Text
  <2>. HIDE DEF none
  <2>2. Typed(F, Fresh, none, Chars, Accs)
    BY <1>0, <2>1 DEF Typed, Text
  <2>3. Replacing(none, digit, by) = Folded(F, Fresh, none)
    BY <2>1, ReplaceFolds DEF F
  <2>4. Folded(F, Fresh, << >>) = Fresh
    BY <2>2, FoldedNone DEF none
  <2>. QED BY <2>3, <2>4 DEF none
<1>2. ASSUME NEW text \in Text, NEW c \in Chars
      PROVE  /\ Replacing(text, digit, by) \in Accs
             /\ Replacing(Append(text, c), digit, by)
                  = ReplaceStep(Replacing(text, digit, by), c, digit, by)
  <2>1. Typed(F, Fresh, text, Chars, Accs)
    BY <1>0 DEF Typed, Text
  <2>2. /\ Folded(F, Fresh, text) \in Accs
        /\ Folded(F, Fresh, Append(text, c)) = F[<<Folded(F, Fresh, text), c>>]
    BY <2>1, FoldedOneMore
  <2>3. Append(text, c) \in Text
    BY AppendProperties DEF Text
  <2>4. /\ Replacing(text, digit, by) = Folded(F, Fresh, text)
        /\ Replacing(Append(text, c), digit, by) = Folded(F, Fresh, Append(text, c))
    BY <2>3, ReplaceFolds DEF F
  <2>. QED BY <2>2, <2>4 DEF F, ReplaceF
<1>. QED BY <1>1, <1>2

NoText == << >>
EscapeF == [p \in Text \X Chars |-> EscapeStep(p[1], p[2])]

LEMMA EscapeTyped ==
    /\ NoText \in Text
    /\ EscapeF \in [Text \X Chars -> Text]
<1>1. NoText \in Text
  BY DEF NoText, Text
<1>2. ASSUME NEW text \in Text, NEW c \in Chars PROVE EscapeStep(text, c) \in Text
  <2>1. <<"~", "0">> \in Text /\ <<"~", "1">> \in Text /\ <<c>> \in Text
    BY SpecialChars DEF Text
  <2>2. \A more \in Text : text \o more \in Text
    BY ConcatProperties DEF Text
  <2>. QED BY <2>1, <2>2 DEF EscapeStep
<1>. QED BY <1>1, <1>2 DEF EscapeF

LEMMA EscapeFolds ==
    ASSUME NEW text \in Text
    PROVE  Escape(text) = Folded(EscapeF, NoText, text)
<1>. DEFINE D == DOMAIN text
            Step(g, s) == IF s = {} THEN NoText ELSE EscapeStep(g[s \ {Max(s)}], text[Max(s)])
            fold == CHOOSE g : g = [s \in SUBSET D |-> Step(g, s)]
<1>1. Typed(EscapeF, NoText, text, Chars, Text)
  BY EscapeTyped DEF Typed, Text
<1>2. PICK it \in [SUBSET D -> Text] : Takes(it, EscapeF, NoText, text)
  BY <1>1, FoldLeftExists DEF Typed
<1>3. \A s \in SUBSET D : s # {} => text[Max(s)] \in Chars
  BY LastOfIndices DEF Text
<1>4. it = [s \in SUBSET D |-> Step(it, s)]
  <2>1. ASSUME NEW s \in SUBSET D PROVE it[s] = Step(it, s)
    BY <1>2, <1>3 DEF Takes, EscapeF
  <2>. HIDE DEF Step
  <2>. QED BY <2>1
<1>5. fold = [s \in SUBSET D |-> Step(fold, s)]
  <2>. HIDE DEF Step
  <2>. QED BY <1>4
<1>6. Escape(text) = fold[D]
  BY DEF Escape, NoText, FoldLeft, MapThenFoldSet
<1>. HIDE DEF fold
<1>7. Mimics(fold, EscapeF, NoText, text, Text)
  BY <1>3, <1>5 DEF Mimics, EscapeF
<1>8. fold[D] = Folded(EscapeF, NoText, text)
  BY <1>1, <1>7, FoldedIs
<1>. QED BY <1>6, <1>8

LEMMA EscapeOneMore ==
    /\ Escape(<< >>) = NoText
    /\ \A text \in Text, c \in Chars :
          Escape(text) \in Text /\ Escape(Append(text, c)) = EscapeStep(Escape(text), c)
<1>1. Escape(<< >>) = NoText
  <2>. DEFINE none == << >>
  <2>1. none \in Text
    BY DEF Text
  <2>. HIDE DEF none
  <2>2. Typed(EscapeF, NoText, none, Chars, Text)
    BY <2>1, EscapeTyped DEF Typed, Text
  <2>3. Escape(none) = Folded(EscapeF, NoText, none)
    BY <2>1, EscapeFolds
  <2>4. Folded(EscapeF, NoText, << >>) = NoText
    BY <2>2, FoldedNone DEF none
  <2>. QED BY <2>3, <2>4 DEF none
<1>2. ASSUME NEW text \in Text, NEW c \in Chars
      PROVE  Escape(text) \in Text /\ Escape(Append(text, c)) = EscapeStep(Escape(text), c)
  <2>1. Typed(EscapeF, NoText, text, Chars, Text)
    BY EscapeTyped DEF Typed, Text
  <2>2. /\ Folded(EscapeF, NoText, text) \in Text
        /\ Folded(EscapeF, NoText, Append(text, c)) = EscapeF[<<Folded(EscapeF, NoText, text), c>>]
    BY <2>1, FoldedOneMore
  <2>3. Append(text, c) \in Text
    BY AppendProperties DEF Text
  <2>4. /\ Escape(text) = Folded(EscapeF, NoText, text)
        /\ Escape(Append(text, c)) = Folded(EscapeF, NoText, Append(text, c))
    BY <2>3, EscapeFolds
  <2>. QED BY <2>2, <2>4 DEF EscapeF
<1>. QED BY <1>1, <1>2

FieldNames == Seq(Text)
PointerF == [p \in Text \X Text |-> PointerStep(p[1], p[2])]

LEMMA PointerTyped ==
    /\ NoText \in Text
    /\ PointerF \in [Text \X Text -> Text]
<1>1. ASSUME NEW text \in Text, NEW name \in Text PROVE PointerStep(text, name) \in Text
  <2>1. Escape(name) \in Text
    BY EscapeOneMore, SpecialChars
  <2>2. Append(text, "/") \in Text
    BY SpecialChars, AppendProperties DEF Text
  <2>. QED BY <2>1, <2>2, ConcatProperties DEF PointerStep, Text
<1>. QED BY <1>1, EscapeTyped DEF PointerF

LEMMA PointerFolds ==
    ASSUME NEW text \in FieldNames
    PROVE  PointerTo(text) = Folded(PointerF, NoText, text)
<1>. DEFINE D == DOMAIN text
            Step(g, s) == IF s = {} THEN NoText ELSE PointerStep(g[s \ {Max(s)}], text[Max(s)])
            fold == CHOOSE g : g = [s \in SUBSET D |-> Step(g, s)]
<1>1. Typed(PointerF, NoText, text, Text, Text)
  BY PointerTyped DEF Typed, FieldNames
<1>2. PICK it \in [SUBSET D -> Text] : Takes(it, PointerF, NoText, text)
  BY <1>1, FoldLeftExists DEF Typed
<1>3. \A s \in SUBSET D : s # {} => text[Max(s)] \in Text
  BY LastOfIndices DEF FieldNames
<1>4. it = [s \in SUBSET D |-> Step(it, s)]
  <2>1. ASSUME NEW s \in SUBSET D PROVE it[s] = Step(it, s)
    BY <1>2, <1>3 DEF Takes, PointerF
  <2>. HIDE DEF Step
  <2>. QED BY <2>1
<1>5. fold = [s \in SUBSET D |-> Step(fold, s)]
  <2>. HIDE DEF Step
  <2>. QED BY <1>4
<1>6. PointerTo(text) = fold[D]
  BY DEF PointerTo, NoText, FoldLeft, MapThenFoldSet
<1>. HIDE DEF fold
<1>7. Mimics(fold, PointerF, NoText, text, Text)
  BY <1>3, <1>5 DEF Mimics, PointerF
<1>8. fold[D] = Folded(PointerF, NoText, text)
  BY <1>1, <1>7, FoldedIs
<1>. QED BY <1>6, <1>8

LEMMA PointerOneMore ==
    /\ PointerTo(<< >>) = NoText
    /\ \A text \in FieldNames, c \in Text :
          PointerTo(text) \in Text /\ PointerTo(Append(text, c)) = PointerStep(PointerTo(text), c)
<1>1. PointerTo(<< >>) = NoText
  <2>. DEFINE none == << >>
  <2>1. none \in FieldNames
    BY DEF FieldNames
  <2>. HIDE DEF none
  <2>2. Typed(PointerF, NoText, none, Text, Text)
    BY <2>1, PointerTyped DEF Typed, FieldNames
  <2>3. PointerTo(none) = Folded(PointerF, NoText, none)
    BY <2>1, PointerFolds
  <2>4. Folded(PointerF, NoText, << >>) = NoText
    BY <2>2, FoldedNone DEF none
  <2>. QED BY <2>3, <2>4 DEF none
<1>2. ASSUME NEW text \in FieldNames, NEW c \in Text
      PROVE  PointerTo(text) \in Text /\ PointerTo(Append(text, c)) = PointerStep(PointerTo(text), c)
  <2>1. Typed(PointerF, NoText, text, Text, Text)
    BY PointerTyped DEF Typed, FieldNames
  <2>2. /\ Folded(PointerF, NoText, text) \in Text
        /\ Folded(PointerF, NoText, Append(text, c)) = PointerF[<<Folded(PointerF, NoText, text), c>>]
    BY <2>1, FoldedOneMore
  <2>3. Append(text, c) \in FieldNames
    BY AppendProperties DEF FieldNames
  <2>4. /\ PointerTo(text) = Folded(PointerF, NoText, text)
        /\ PointerTo(Append(text, c)) = Folded(PointerF, NoText, Append(text, c))
    BY <2>3, PointerFolds
  <2>. QED BY <2>2, <2>4 DEF PointerF
<1>. QED BY <1>1, <1>2

(***************************************************************************)
(* A segment that is read as a name, and the ways it goes on: a character, *)
(* or either escape.  half is what the first replacement leaves.           *)
(***************************************************************************)
First(seg) == Replacing(seg, "1", "/")
Second(seg) == Replacing(seg, "0", "~")
Clean(acc, out) == acc = [out |-> out, tilde |-> FALSE]
Pending(acc, out) == acc = [out |-> Append(out, "~"), tilde |-> TRUE]

ReadsAs(seg, half, name) ==
    /\ seg \in Text /\ half \in Text /\ name \in Text
    /\ Clean(First(seg), half) /\ Clean(Second(half), name)
    /\ Escape(name) = seg

LEMMA Unescaped ==
    ASSUME NEW seg, NEW half, NEW name, ReadsAs(seg, half, name)
    PROVE  unescapeJSONPointer(seg) = name
BY DEF ReadsAs, Clean, First, Second, unescapeJSONPointer, ReplaceEscape

Grows(seq, c, T) ==
    /\ Append(seq, c) \in Seq(T) /\ seq \o <<c>> = Append(seq, c)
    /\ Front(Append(seq, c)) = seq /\ Last(Append(seq, c)) = c

LEMMA SeqGrows ==
    ASSUME NEW T, NEW seq \in Seq(T), NEW c \in T
    PROVE  Grows(seq, c, T)
<1>. DEFINE more == Append(seq, c)
<1>1. more \in Seq(T)
  BY AppendProperties
<1>2. Front(more) = seq /\ Last(more) = c
  <2>1. seq \in Seq(T) /\ Len(seq) \in Nat
    OBVIOUS
  <2>2. /\ Len(more) = Len(seq) + 1 /\ more[Len(seq) + 1] = c
        /\ \A i \in 1 .. Len(seq) : more[i] = seq[i]
    BY <2>1
  <2>3. Last(more) = c
    BY <2>2 DEF Last
  <2>4. Front(more) = SubSeq(more, 1, Len(seq))
    BY <2>1, <2>2 DEF Front
  <2>5. /\ SubSeq(more, 1, Len(seq)) \in Seq(T)
        /\ Len(SubSeq(more, 1, Len(seq))) = Len(seq)
        /\ \A i \in 1 .. Len(seq) : SubSeq(more, 1, Len(seq))[i] = more[i]
    <3>1. \A i \in 1 .. Len(seq) : more[i] \in T
      BY <2>1, <2>2
    <3>2. 1 \in Int /\ Len(seq) \in Int /\ Len(seq) - 1 + 1 = Len(seq)
      BY <2>1
    <3>. HIDE DEF more
    <3>. QED BY <2>1, <3>1, <3>2, SubSeqProperties
  <2>6. \A i \in 1 .. Len(seq) : SubSeq(more, 1, Len(seq))[i] = seq[i]
    BY <2>2, <2>5
  <2>. HIDE DEF more
  <2>7. SubSeq(more, 1, Len(seq)) = seq
    BY <2>1, <2>5, <2>6, SeqEqual
  <2>. QED BY <2>3, <2>4, <2>7
<1>3. seq \o <<c>> = more
  BY AppendIsConcat
<1>. QED BY <1>1, <1>2, <1>3 DEF Grows

LEMMA TextGrows ==
    ASSUME NEW text \in Text, NEW c \in Chars
    PROVE  /\ Append(text, c) \in Text /\ text \o <<c>> = Append(text, c)
           /\ Front(Append(text, c)) = text /\ Last(Append(text, c)) = c
<1>1. text \in Seq(Chars)
  BY DEF Text
<1>2. Grows(text, c, Chars)
  BY <1>1, SeqGrows
<1>. QED BY <1>2 DEF Grows, Text

LEMMA TextGrowsTwice ==
    ASSUME NEW text \in Text, NEW c \in Chars, NEW d \in Chars
    PROVE  text \o <<c, d>> = Append(Append(text, c), d)
<1>1. text \in Seq(Chars) /\ <<c, d>> \in Seq(Chars) /\ Append(Append(text, c), d) \in Seq(Chars)
  <2>1. text \in Seq(Chars)
    BY DEF Text
  <2>. QED BY <2>1
<1>. DEFINE one == text \o <<c, d>>
            two == Append(Append(text, c), d)
<1>2. /\ one \in Seq(Chars) /\ Len(one) = Len(text) + 2
      /\ \A i \in 1 .. Len(text) + 2 : one[i] = IF i <= Len(text) THEN text[i]
                                                ELSE <<c, d>>[i - Len(text)]
  BY <1>1, ConcatProperties
<1>3. /\ Len(two) = Len(text) + 2
      /\ \A i \in 1 .. Len(text) + 2 : two[i] = IF i <= Len(text) THEN text[i]
                                                ELSE IF i = Len(text) + 1 THEN c ELSE d
  BY <1>1
<1>4. Len(text) \in Nat
  BY <1>1
<1>5. \A i \in 1 .. Len(text) + 2 : one[i] = two[i]
  <2>1. <<c, d>>[1] = c /\ <<c, d>>[2] = d
    OBVIOUS
  <2>2. \A i \in 1 .. Len(text) + 2 : i <= Len(text) \/ i = Len(text) + 1 \/ i = Len(text) + 2
    BY <1>4
  <2>. HIDE DEF one, two
  <2>. QED BY <1>2, <1>3, <1>4, <2>1, <2>2
<1>. HIDE DEF one, two
<1>6. one = two
  BY <1>1, <1>2, <1>3, <1>5, SeqEqual DEF two
<1>. QED BY <1>6 DEF one, two

LEMMA ReplaceSteps ==
    ASSUME NEW digit, NEW by, NEW acc, NEW out \in Text
    PROVE  /\ \A c \in Chars \ {"~"} :
                 Clean(acc, out) => Clean(ReplaceStep(acc, c, digit, by), Append(out, c))
           /\ digit # "~" /\ Clean(acc, out) => Pending(ReplaceStep(acc, "~", digit, by), out)
           /\ Pending(acc, out) => Clean(ReplaceStep(acc, digit, digit, by), Append(out, by))
           /\ \A c \in Chars \ {"~", digit} :
                 Pending(acc, out) =>
                    Clean(ReplaceStep(acc, c, digit, by), Append(Append(out, "~"), c))
<1>1. ASSUME NEW c \in Chars \ {"~"}, Clean(acc, out)
      PROVE  Clean(ReplaceStep(acc, c, digit, by), Append(out, c))
  <2>1. acc.tilde = FALSE /\ acc.out = out /\ (c = "~") = FALSE
    BY <1>1 DEF Clean
  <2>. QED BY <2>1 DEF ReplaceStep, Clean
<1>2. ASSUME digit # "~", Clean(acc, out) PROVE Pending(ReplaceStep(acc, "~", digit, by), out)
  <2>1. acc.tilde = FALSE /\ acc.out = out /\ ("~" = "~") = TRUE
    BY <1>2 DEF Clean
  <2>. QED BY <2>1 DEF ReplaceStep, Pending
<1>3. ASSUME Pending(acc, out) PROVE Clean(ReplaceStep(acc, digit, digit, by), Append(out, by))
  <2>1. acc.tilde = TRUE /\ acc.out = Append(out, "~")
    BY <1>3 DEF Pending
  <2>2. Front(Append(out, "~")) = out
    BY TextGrows, SpecialChars
  <2>. QED BY <2>1, <2>2 DEF ReplaceStep, Clean
<1>4. ASSUME NEW c \in Chars \ {"~", digit}, Pending(acc, out)
      PROVE  Clean(ReplaceStep(acc, c, digit, by), Append(Append(out, "~"), c))
  <2>1. acc.out = Append(out, "~") /\ c # digit /\ (c = "~") = FALSE
    BY <1>4 DEF Pending
  <2>. QED BY <2>1 DEF ReplaceStep, Clean
<1>. QED BY <1>1, <1>2, <1>3, <1>4

LEMMA FirstSteps ==
    /\ Clean(First(<< >>), << >>)
    /\ \A text \in Text, out \in Text :
          /\ Clean(First(text), out) =>
                /\ \A c \in Chars \ {"~"} : Clean(First(Append(text, c)), Append(out, c))
                /\ Pending(First(Append(text, "~")), out)
          /\ Pending(First(text), out) =>
                /\ Clean(First(Append(text, "1")), Append(out, "/"))
                /\ Clean(First(Append(text, "0")), Append(Append(out, "~"), "0"))
<1>. USE SpecialChars
<1>1. Clean(First(<< >>), << >>)
  BY ReplaceOneMore DEF First, Clean, Fresh
<1>2. \A text \in Text, c \in Chars :
          First(Append(text, c)) = ReplaceStep(First(text), c, "1", "/")
  BY ReplaceOneMore DEF First
<1>3. "1" # "~" /\ "0" \in Chars \ {"~", "1"}
  OBVIOUS
<1>. QED BY <1>1, <1>2, <1>3, ReplaceSteps

LEMMA SecondSteps ==
    /\ Clean(Second(<< >>), << >>)
    /\ \A text \in Text, out \in Text :
          /\ Clean(Second(text), out) =>
                /\ \A c \in Chars \ {"~"} : Clean(Second(Append(text, c)), Append(out, c))
                /\ Pending(Second(Append(text, "~")), out)
          /\ Pending(Second(text), out) => Clean(Second(Append(text, "0")), Append(out, "~"))
<1>. USE SpecialChars
<1>1. Clean(Second(<< >>), << >>)
  BY ReplaceOneMore DEF Second, Clean, Fresh
<1>2. \A text \in Text, c \in Chars :
          Second(Append(text, c)) = ReplaceStep(Second(text), c, "0", "~")
  BY ReplaceOneMore DEF Second
<1>3. "0" # "~"
  OBVIOUS
<1>. QED BY <1>1, <1>2, <1>3, ReplaceSteps

LEMMA EscapeSteps ==
    /\ Escape(<< >>) = << >>
    /\ \A name \in Text :
          /\ Escape(name) \in Text
          /\ \A c \in Chars \ {"/", "~"} : Escape(Append(name, c)) = Append(Escape(name), c)
          /\ Escape(Append(name, "/")) = Append(Append(Escape(name), "~"), "1")
          /\ Escape(Append(name, "~")) = Append(Append(Escape(name), "~"), "0")
<1>. USE SpecialChars
<1>1. Escape(<< >>) = << >>
  BY EscapeOneMore DEF NoText
<1>2. ASSUME NEW name \in Text
      PROVE  /\ Escape(name) \in Text
             /\ \A c \in Chars : Escape(Append(name, c)) = EscapeStep(Escape(name), c)
  BY EscapeOneMore
<1>3. ASSUME NEW text \in Text
      PROVE  /\ \A c \in Chars \ {"/", "~"} : EscapeStep(text, c) = Append(text, c)
             /\ EscapeStep(text, "/") = Append(Append(text, "~"), "1")
             /\ EscapeStep(text, "~") = Append(Append(text, "~"), "0")
  <2>1. ASSUME NEW c \in Chars \ {"/", "~"} PROVE EscapeStep(text, c) = Append(text, c)
    BY TextGrows DEF EscapeStep
  <2>2. text \o <<"~", "1">> = Append(Append(text, "~"), "1")
    BY TextGrowsTwice
  <2>3. text \o <<"~", "0">> = Append(Append(text, "~"), "0")
    BY TextGrowsTwice
  <2>. QED BY <2>1, <2>2, <2>3 DEF EscapeStep
<1>. QED BY <1>1, <1>2, <1>3

LEMMA ReadsNothing == ReadsAs(<< >>, << >>, << >>)
<1>1. Escape(<< >>) = << >>
  BY EscapeSteps
<1>2. << >> \in Text
  BY DEF Text
<1>. QED BY <1>1, <1>2, FirstSteps, SecondSteps DEF ReadsAs

LEMMA ReadsPlain ==
    ASSUME NEW seg, NEW half, NEW name, ReadsAs(seg, half, name), NEW c \in Chars \ {"/", "~"}
    PROVE  ReadsAs(Append(seg, c), Append(half, c), Append(name, c))
<1>1. seg \in Text /\ half \in Text /\ name \in Text
  BY DEF ReadsAs
<1>2. Clean(First(Append(seg, c)), Append(half, c))
  BY <1>1, FirstSteps DEF ReadsAs
<1>3. Clean(Second(Append(half, c)), Append(name, c))
  BY <1>1, SecondSteps DEF ReadsAs
<1>4. Escape(Append(name, c)) = Append(seg, c)
  BY <1>1, EscapeSteps DEF ReadsAs
<1>. QED BY <1>1, <1>2, <1>3, <1>4, TextGrows DEF ReadsAs

LEMMA ReadsEscapedSlash ==
    ASSUME NEW seg, NEW half, NEW name, ReadsAs(seg, half, name)
    PROVE  ReadsAs(Append(Append(seg, "~"), "1"), Append(half, "/"), Append(name, "/"))
<1>. USE SpecialChars
<1>1. seg \in Text /\ half \in Text /\ name \in Text /\ Append(seg, "~") \in Text
  BY TextGrows DEF ReadsAs
<1>2. Clean(First(Append(Append(seg, "~"), "1")), Append(half, "/"))
  <2>1. Pending(First(Append(seg, "~")), half)
    BY <1>1, FirstSteps DEF ReadsAs
  <2>. QED BY <1>1, <2>1, FirstSteps
<1>3. Clean(Second(Append(half, "/")), Append(name, "/"))
  BY <1>1, SecondSteps DEF ReadsAs
<1>4. Escape(Append(name, "/")) = Append(Append(seg, "~"), "1")
  BY <1>1, EscapeSteps DEF ReadsAs
<1>. QED BY <1>1, <1>2, <1>3, <1>4, TextGrows DEF ReadsAs

LEMMA ReadsEscapedTilde ==
    ASSUME NEW seg, NEW half, NEW name, ReadsAs(seg, half, name)
    PROVE  ReadsAs(Append(Append(seg, "~"), "0"), Append(Append(half, "~"), "0"), Append(name, "~"))
<1>. USE SpecialChars
<1>1. /\ seg \in Text /\ half \in Text /\ name \in Text
      /\ Append(seg, "~") \in Text /\ Append(half, "~") \in Text
  BY TextGrows DEF ReadsAs
<1>2. Clean(First(Append(Append(seg, "~"), "0")), Append(Append(half, "~"), "0"))
  <2>1. Pending(First(Append(seg, "~")), half)
    BY <1>1, FirstSteps DEF ReadsAs
  <2>. QED BY <1>1, <2>1, FirstSteps
<1>3. Clean(Second(Append(Append(half, "~"), "0")), Append(name, "~"))
  <2>1. Pending(Second(Append(half, "~")), name)
    BY <1>1, SecondSteps DEF ReadsAs
  <2>. QED BY <1>1, <2>1, SecondSteps
<1>4. Escape(Append(name, "~")) = Append(Append(seg, "~"), "0")
  BY <1>1, EscapeSteps DEF ReadsAs
<1>. QED BY <1>1, <1>2, <1>3, <1>4, TextGrows DEF ReadsAs

(***************************************************************************)
(* A pointer that is read up to the end of a character as written.         *)
(***************************************************************************)
Slash == <<"/">>

SplitInto(text, segs, seg) ==
    /\ text \in Text /\ segs \in FieldNames /\ seg \in Text
    /\ Split(text) = Append(segs, seg)

ReadSoFar(text, segs, names, seg, half, name) ==
    /\ names \in FieldNames /\ SplitInto(text, segs, seg) /\ ReadsAs(seg, half, name)
    /\ Len(names) = Len(segs)
    /\ \A i \in 1 .. Len(segs) : unescapeJSONPointer(segs[i]) = names[i]
    /\ PointerTo(Append(names, name)) = Slash \o text

LEMMA SplitSteps ==
    ASSUME NEW text, NEW segs, NEW seg, SplitInto(text, segs, seg)
    PROVE  /\ SplitInto(Append(text, "/"), Append(segs, seg), << >>)
           /\ \A c \in Chars \ {"/"} : SplitInto(Append(text, c), segs, Append(seg, c))
<1>. USE SpecialChars
<1>1. \A c \in Chars : Split(Append(text, c)) = SplitStep(Append(segs, seg), c)
  BY SplitOneMore DEF SplitInto
<1>2. /\ Front(Append(segs, seg)) = segs /\ Last(Append(segs, seg)) = seg
      /\ Append(segs, seg) \in FieldNames
  <2>1. segs \in Seq(Text) /\ seg \in Text
    BY DEF FieldNames, SplitInto
  <2>2. Grows(segs, seg, Text)
    BY <2>1, SeqGrows
  <2>. QED BY <2>2 DEF Grows, FieldNames
<1>3. ASSUME NEW c \in Chars PROVE Append(text, c) \in Text /\ Append(seg, c) \in Text
  BY TextGrows DEF SplitInto
<1>4. << >> \in Text
  BY DEF Text
<1>. QED BY <1>1, <1>2, <1>3, <1>4 DEF SplitStep, SplitInto

LEMMA PointerSteps ==
    /\ PointerTo(<< >>) = << >>
    /\ \A names \in FieldNames, name \in Text :
          /\ PointerTo(names) \in Text
          /\ PointerTo(Append(names, name)) = Append(PointerTo(names), "/") \o Escape(name)
BY PointerOneMore DEF PointerStep, NoText

Along(base, seg, head, text, c) ==
    base \o Append(seg, c) = head \o Append(text, c)

LEMMA GrowBoth ==
    ASSUME NEW base \in Text, NEW seg \in Text, NEW head \in Text, NEW text \in Text,
           base \o seg = head \o text, NEW c \in Chars
    PROVE  Along(base, seg, head, text, c)
<1>1. \A s \in Seq(Chars), u \in Seq(Chars), last \in Seq(Chars) :
          (s \o u) \o last = s \o (u \o last)
  BY ConcatAssociative
<1>. DEFINE last == <<c>>
<1>2. /\ base \in Seq(Chars) /\ seg \in Seq(Chars) /\ head \in Seq(Chars)
      /\ text \in Seq(Chars) /\ last \in Seq(Chars)
  BY DEF Text
<1>3. Append(seg, c) = seg \o last /\ Append(text, c) = text \o last
  BY TextGrows
<1>. HIDE DEF last
<1>4. /\ (base \o seg) \o last = base \o (seg \o last)
      /\ (head \o text) \o last = head \o (text \o last)
  BY <1>1, <1>2, Zenon
<1>. QED BY <1>3, <1>4 DEF Along

LEMMA ReadNothing == ReadSoFar(<< >>, << >>, << >>, << >>, << >>, << >>)
<1>1. << >> \in Text /\ << >> \in FieldNames /\ Slash \in Text
  BY SpecialChars DEF Text, FieldNames, Slash
<1>2. Split(<< >>) = Append(<< >>, << >>)
  BY SplitOneMore DEF OneSegment
<1>3. PointerTo(Append(<< >>, << >>)) = Slash \o << >>
  <2>1. PointerTo(Append(<< >>, << >>)) = Append(<< >>, "/") \o << >>
    BY <1>1, PointerSteps, EscapeSteps
  <2>2. Append(<< >>, "/") = Slash
    BY DEF Slash
  <2>. QED BY <2>1, <2>2
<1>4. Len(<< >>) = 0
  OBVIOUS
<1>. QED BY <1>1, <1>2, <1>3, <1>4, ReadsNothing DEF ReadSoFar, SplitInto

LEMMA ReadPlain ==
    ASSUME NEW text, NEW segs, NEW names, NEW seg, NEW half, NEW name,
           ReadSoFar(text, segs, names, seg, half, name), NEW c \in Chars \ {"/", "~"}
    PROVE  ReadSoFar(Append(text, c), segs, names,
                     Append(seg, c), Append(half, c), Append(name, c))
<1>1. /\ text \in Text /\ segs \in FieldNames /\ names \in FieldNames /\ seg \in Text
      /\ name \in Text /\ Append(name, c) \in Text /\ Append(text, c) \in Text /\ Slash \in Text
  BY TextGrows, SpecialChars DEF ReadSoFar, SplitInto, ReadsAs, Slash, Text
<1>2. SplitInto(Append(text, c), segs, Append(seg, c))
  BY SplitSteps DEF ReadSoFar
<1>3. ReadsAs(Append(seg, c), Append(half, c), Append(name, c))
  BY ReadsPlain DEF ReadSoFar
<1>4. PointerTo(Append(names, Append(name, c))) = Slash \o Append(text, c)
  <2>. DEFINE base == Append(PointerTo(names), "/")
  <2>1. base \in Text
    BY <1>1, PointerSteps, TextGrows, SpecialChars
  <2>2. base \o seg = Slash \o text
    BY <1>1, PointerSteps DEF ReadSoFar, ReadsAs
  <2>3. PointerTo(Append(names, Append(name, c))) = base \o Append(seg, c)
    BY <1>1, <1>3, PointerSteps DEF ReadsAs
  <2>. HIDE DEF base
  <2>4. Along(base, seg, Slash, text, c)
    BY <1>1, <2>1, <2>2, GrowBoth
  <2>. QED BY <2>3, <2>4 DEF Along
<1>. QED BY <1>1, <1>2, <1>3, <1>4 DEF ReadSoFar

LEMMA ReadEscape ==
    ASSUME NEW text, NEW segs, NEW names, NEW seg, NEW half, NEW name,
           ReadSoFar(text, segs, names, seg, half, name), NEW c \in {"0", "1"},
           NEW more, NEW longer, ReadsAs(Append(Append(seg, "~"), c), more, longer)
    PROVE  ReadSoFar(Append(Append(text, "~"), c), segs, names,
                     Append(Append(seg, "~"), c), more, longer)
<1>. USE SpecialChars
<1>1. /\ text \in Text /\ segs \in FieldNames /\ names \in FieldNames /\ seg \in Text
      /\ name \in Text /\ longer \in Text /\ Slash \in Text
  BY DEF ReadSoFar, SplitInto, ReadsAs, Slash, Text
<1>2. /\ Append(text, "~") \in Text /\ Append(seg, "~") \in Text
      /\ Append(Append(text, "~"), c) \in Text
  BY <1>1, TextGrows
<1>3. SplitInto(Append(Append(text, "~"), c), segs, Append(Append(seg, "~"), c))
  <2>1. SplitInto(Append(text, "~"), segs, Append(seg, "~"))
    BY SplitSteps DEF ReadSoFar
  <2>2. c \in Chars \ {"/"}
    OBVIOUS
  <2>. QED BY <2>1, <2>2, SplitSteps
<1>4. PointerTo(Append(names, longer)) = Slash \o Append(Append(text, "~"), c)
  <2>. DEFINE base == Append(PointerTo(names), "/")
  <2>1. base \in Text
    BY <1>1, PointerSteps, TextGrows
  <2>2. base \o seg = Slash \o text
    BY <1>1, PointerSteps DEF ReadSoFar, ReadsAs
  <2>3. PointerTo(Append(names, longer)) = base \o Append(Append(seg, "~"), c)
    BY <1>1, PointerSteps DEF ReadsAs
  <2>. HIDE DEF base
  <2>4. Along(base, seg, Slash, text, "~")
    BY <1>1, <2>1, <2>2, GrowBoth
  <2>5. base \o Append(seg, "~") = Slash \o Append(text, "~") /\ c \in Chars
    BY <2>4 DEF Along
  <2>6. Along(base, Append(seg, "~"), Slash, Append(text, "~"), c)
    BY <1>1, <1>2, <2>1, <2>5, GrowBoth
  <2>. QED BY <2>3, <2>6 DEF Along
<1>. QED BY <1>1, <1>2, <1>3, <1>4 DEF ReadSoFar

LEMMA ReadSlash ==
    ASSUME NEW text, NEW segs, NEW names, NEW seg, NEW half, NEW name,
           ReadSoFar(text, segs, names, seg, half, name)
    PROVE  ReadSoFar(Append(text, "/"), Append(segs, seg), Append(names, name),
                     << >>, << >>, << >>)
<1>. USE SpecialChars
<1>1. /\ text \in Text /\ segs \in FieldNames /\ names \in FieldNames /\ seg \in Text
      /\ name \in Text /\ Slash \in Text /\ << >> \in Text /\ Append(text, "/") \in Text
  BY TextGrows DEF ReadSoFar, SplitInto, ReadsAs, Slash, Text
<1>2. SplitInto(Append(text, "/"), Append(segs, seg), << >>)
  BY SplitSteps DEF ReadSoFar
<1>3. /\ Append(segs, seg) \in FieldNames /\ Append(names, name) \in FieldNames
      /\ Len(Append(segs, seg)) = Len(segs) + 1 /\ Len(Append(names, name)) = Len(names) + 1
      /\ Append(segs, seg)[Len(segs) + 1] = seg /\ Append(names, name)[Len(names) + 1] = name
      /\ \A i \in 1 .. Len(segs) : Append(segs, seg)[i] = segs[i]
      /\ \A i \in 1 .. Len(names) : Append(names, name)[i] = names[i]
      /\ Len(segs) \in Nat /\ Len(names) = Len(segs)
  BY <1>1, AppendProperties DEF FieldNames, ReadSoFar
<1>4. unescapeJSONPointer(seg) = name
  BY Unescaped DEF ReadSoFar
<1>5. \A i \in 1 .. Len(segs) + 1 :
          unescapeJSONPointer(Append(segs, seg)[i]) = Append(names, name)[i]
  <2>1. \A i \in 1 .. Len(segs) + 1 : i \in 1 .. Len(segs) \/ i = Len(segs) + 1
    BY <1>3
  <2>2. \A i \in 1 .. Len(segs) : unescapeJSONPointer(segs[i]) = names[i]
    BY DEF ReadSoFar
  <2>. QED BY <1>3, <1>4, <2>1, <2>2
<1>6. PointerTo(Append(Append(names, name), << >>)) = Slash \o Append(text, "/")
  <2>. DEFINE so == PointerTo(Append(names, name))
  <2>1. so = Slash \o text
    BY DEF ReadSoFar
  <2>2. PointerTo(Append(Append(names, name), << >>)) = Append(so, "/") \o << >>
    <3>1. PointerTo(Append(Append(names, name), << >>)) = Append(so, "/") \o Escape(<< >>)
      BY <1>1, <1>3, PointerSteps
    <3>. QED BY <3>1, EscapeSteps
  <2>3. so \in Text /\ Append(so, "/") \in Text
    BY <1>1, <1>3, PointerSteps, TextGrows
  <2>4. Append(so, "/") \o << >> = Append(so, "/")
    BY <2>3, ConcatEmptySeq DEF Text
  <2>5. so \o << >> = so
    BY <2>3, ConcatEmptySeq DEF Text
  <2>6. so \o Append(<< >>, "/") = Slash \o Append(text, "/")
    <3>. DEFINE none == << >>
    <3>1. none \in Text /\ so \o none = Slash \o text /\ "/" \in Chars
      BY <1>1, <2>1, <2>5
    <3>. HIDE DEF none, so
    <3>2. Along(so, none, Slash, text, "/")
      BY <1>1, <2>3, <3>1, GrowBoth
    <3>. QED BY <3>2 DEF none, Along
  <2>7. Append(so, "/") = so \o Append(<< >>, "/")
    BY <2>3, AppendIsConcat DEF Text
  <2>. QED BY <2>2, <2>4, <2>6, <2>7
<1>. QED BY <1>1, <1>2, <1>3, <1>5, <1>6, ReadsNothing DEF ReadSoFar

LEMMA ReadToTheEnd ==
    ASSUME NEW text, NEW segs, NEW names, NEW seg, NEW half, NEW name,
           ReadSoFar(text, segs, names, seg, half, name)
    PROVE  PointerTo([i \in DOMAIN Split(text) |-> unescapeJSONPointer(Split(text)[i])])
              = Slash \o text
<1>. DEFINE n == Len(segs)
            path == [i \in DOMAIN Split(text) |-> unescapeJSONPointer(Split(text)[i])]
            read == Append(names, name)
<1>1. /\ segs \in Seq(Text) /\ names \in Seq(Text) /\ seg \in Text /\ name \in Text
      /\ n \in Nat /\ Len(names) = n
      /\ Split(text) = Append(segs, seg)
      /\ \A i \in 1 .. n : unescapeJSONPointer(segs[i]) = names[i]
      /\ PointerTo(read) = Slash \o text
  BY DEF ReadSoFar, SplitInto, FieldNames, ReadsAs
<1>2. unescapeJSONPointer(seg) = name
  BY Unescaped DEF ReadSoFar
<1>. HIDE DEF n
<1>3. /\ read \in Seq(Text) /\ Len(read) = n + 1 /\ read[n + 1] = name
      /\ \A i \in 1 .. n : read[i] = names[i]
  BY <1>1, AppendProperties
<1>4. /\ DOMAIN Split(text) = 1 .. n + 1 /\ Split(text)[n + 1] = seg
      /\ \A i \in 1 .. n : Split(text)[i] = segs[i]
  <2>1. /\ Append(segs, seg) \in Seq(Text) /\ Len(Append(segs, seg)) = n + 1
        /\ Append(segs, seg)[n + 1] = seg
        /\ \A i \in 1 .. n : Append(segs, seg)[i] = segs[i]
    BY <1>1, AppendProperties DEF n
  <2>. QED BY <1>1, <2>1
<1>. HIDE DEF read
<1>5. \A i \in 1 .. n + 1 : path[i] = read[i]
  <2>1. \A i \in 1 .. n + 1 : i \in 1 .. n \/ i = n + 1
    BY <1>1
  <2>. QED BY <1>1, <1>2, <1>3, <1>4, <2>1
<1>6. path = read
  <2>1. DOMAIN read = 1 .. n + 1 /\ read = [i \in 1 .. n + 1 |-> read[i]]
    BY <1>3
  <2>2. DOMAIN path = 1 .. n + 1 /\ path = [i \in 1 .. n + 1 |-> path[i]]
    BY <1>4
  <2>. HIDE DEF path
  <2>. QED BY <1>5, <2>1, <2>2
<1>. QED BY <1>1, <1>6

(***************************************************************************)
(* A well-formed pointer is read to its end: the escapes never straddle    *)
(* the end of what has been read.                                          *)
(***************************************************************************)
Prefix(text, k) == SubSeq(text, 1, k)

LEMMA PrefixGrows ==
    ASSUME NEW text \in Text
    PROVE  /\ Prefix(text, 0) = << >> /\ Prefix(text, Len(text)) = text
           /\ \A k \in 1 .. Len(text) :
                 Prefix(text, k - 1) \in Text /\ Prefix(text, k) = Append(Prefix(text, k - 1), text[k])
<1>1. text \in Seq(Chars) /\ Len(text) \in Nat
  BY DEF Text
<1>2. Prefix(text, 0) = << >>
  BY SubSeqEmpty DEF Prefix
<1>3. Prefix(text, Len(text)) = text
  BY <1>1, SubSeqFull DEF Prefix
<1>4. ASSUME NEW k \in 1 .. Len(text)
      PROVE  Prefix(text, k - 1) \in Text /\ Prefix(text, k) = Append(Prefix(text, k - 1), text[k])
  <2>. DEFINE before == SubSeq(text, 1, k - 1)
  <2>1. before \in Seq(Chars)
    <3>1. \A i \in 1 .. k - 1 : text[i] \in Chars
      BY <1>1
    <3>2. 1 \in Int /\ k - 1 \in Int
      OBVIOUS
    <3>. QED BY <3>1, <3>2, SubSeqProperties
  <2>2. SubSeq(text, 1, k) = before \o << text[k] >>
    <3>1. 1 \in 1 .. Len(text) /\ k \in 1 .. Len(text)
      BY <1>1
    <3>. QED BY <1>1, <3>1, SubSeqRecursiveSecond
  <2>3. text[k] \in Chars
    BY <1>1
  <2>. HIDE DEF before
  <2>4. before \o << text[k] >> = Append(before, text[k])
    BY <2>1, <2>3, TextGrows DEF Text
  <2>. QED BY <2>1, <2>2, <2>4 DEF Prefix, Text, before
<1>. QED BY <1>2, <1>3, <1>4

Escapes(text) ==
    \A i \in 1 .. Len(text) : text[i] = "~" => i < Len(text) /\ text[i + 1] \in {"0", "1"}
Between(text, k) == k = 0 \/ (k \in 1 .. Len(text) /\ text[k] # "~")
ReadTo(text, k) ==
    \E segs, names, seg, half, name : ReadSoFar(Prefix(text, k), segs, names, seg, half, name)

LEMMA OneCharacter ==
    ASSUME NEW text \in Text, NEW k \in 1 .. Len(text), ReadTo(text, k - 1), text[k] # "~"
    PROVE  ReadTo(text, k)
<1>. DEFINE before == Prefix(text, k - 1)
            c == text[k]
<1>1. PICK segs, names, seg, half, name : ReadSoFar(before, segs, names, seg, half, name)
  BY DEF ReadTo
<1>2. c \in Chars /\ Prefix(text, k) = Append(before, c)
  BY PrefixGrows DEF Text
<1>. HIDE DEF before, c
<1>3. CASE c = "/"
  <2>1. ReadSoFar(Append(before, "/"), Append(segs, seg), Append(names, name), << >>, << >>, << >>)
    BY <1>1, ReadSlash
  <2>. QED BY <1>2, <1>3, <2>1 DEF ReadTo
<1>4. CASE c # "/"
  <2>1. c \in Chars \ {"/", "~"}
    BY <1>2, <1>4 DEF c
  <2>2. ReadSoFar(Append(before, c), segs, names, Append(seg, c), Append(half, c), Append(name, c))
    BY <1>1, <2>1, ReadPlain
  <2>. QED BY <1>2, <2>2 DEF ReadTo
<1>. QED BY <1>3, <1>4

LEMMA OneEscape ==
    ASSUME NEW text \in Text, NEW k \in 1 .. Len(text), k + 1 \in 1 .. Len(text),
           ReadTo(text, k - 1), text[k] = "~", text[k + 1] \in {"0", "1"}
    PROVE  ReadTo(text, k + 1)
<1>. DEFINE before == Prefix(text, k - 1)
            c == text[k + 1]
<1>1. PICK segs, names, seg, half, name : ReadSoFar(before, segs, names, seg, half, name)
  BY DEF ReadTo
<1>2. Prefix(text, k + 1) = Append(Append(before, "~"), c)
  <2>1. Prefix(text, k) = Append(before, "~")
    BY PrefixGrows
  <2>2. Prefix(text, k + 1) = Append(Prefix(text, (k + 1) - 1), c)
    BY PrefixGrows
  <2>3. (k + 1) - 1 = k
    OBVIOUS
  <2>. QED BY <2>1, <2>2, <2>3
<1>3. c \in {"0", "1"}
  OBVIOUS
<1>. HIDE DEF before, c
<1>4. ReadsAs(seg, half, name)
  BY <1>1 DEF ReadSoFar
<1>5. CASE c = "1"
  <2>1. ReadsAs(Append(Append(seg, "~"), c), Append(half, "/"), Append(name, "/"))
    BY <1>4, <1>5, ReadsEscapedSlash
  <2>2. ReadSoFar(Append(Append(before, "~"), c), segs, names,
                  Append(Append(seg, "~"), c), Append(half, "/"), Append(name, "/"))
    BY <1>1, <1>3, <2>1, ReadEscape
  <2>. QED BY <1>2, <2>2 DEF ReadTo
<1>6. CASE c = "0"
  <2>1. ReadsAs(Append(Append(seg, "~"), c), Append(Append(half, "~"), "0"), Append(name, "~"))
    BY <1>4, <1>6, ReadsEscapedTilde
  <2>2. ReadSoFar(Append(Append(before, "~"), c), segs, names,
                  Append(Append(seg, "~"), c), Append(Append(half, "~"), "0"), Append(name, "~"))
    BY <1>1, <1>3, <2>1, ReadEscape
  <2>. QED BY <1>2, <2>2 DEF ReadTo
<1>. QED BY <1>3, <1>5, <1>6

LEMMA ReadEverything ==
    ASSUME NEW text \in Text, Escapes(text)
    PROVE  PointerTo([i \in DOMAIN Split(text) |-> unescapeJSONPointer(Split(text)[i])])
              = Slash \o text
<1>. DEFINE A == { k \in Nat : \A j \in 0 .. k : Between(text, j) => ReadTo(text, j) }
<1>1. Len(text) \in Nat
  BY DEF Text
<1>2. 0 \in A
  <2>1. ReadTo(text, 0)
    BY ReadNothing, PrefixGrows DEF ReadTo
  <2>. QED BY <2>1
<1>3. ASSUME NEW k \in Nat, k \in A PROVE k + 1 \in A
  <2>. SUFFICES ASSUME Between(text, k + 1) PROVE ReadTo(text, k + 1)
    <3>1. \A j \in 0 .. k + 1 : j \in 0 .. k \/ j = k + 1
      OBVIOUS
    <3>. QED BY <1>3, <3>1
  <2>1. k + 1 \in 1 .. Len(text) /\ text[k + 1] # "~" /\ (k + 1) - 1 = k
    BY DEF Between
  <2>2. CASE Between(text, k)
    <3>1. ReadTo(text, k)
      BY <1>3, <2>2
    <3>. QED BY <2>1, <3>1, OneCharacter
  <2>3. CASE ~Between(text, k)
    <3>1. k \in 1 .. Len(text) /\ text[k] = "~"
      BY <1>1, <2>1, <2>3 DEF Between
    <3>2. text[k + 1] \in {"0", "1"}
      BY <3>1 DEF Escapes
    <3>3. Between(text, k - 1)
      <4>. SUFFICES ASSUME k - 1 # 0 PROVE text[k - 1] # "~" /\ k - 1 \in 1 .. Len(text)
        BY DEF Between
      <4>1. k - 1 \in 1 .. Len(text) /\ (k - 1) + 1 = k
        BY <1>1, <3>1
      <4>2. text[k - 1] = "~" => text[k] \in {"0", "1"}
        BY <4>1 DEF Escapes
      <4>. QED BY <3>1, <4>1, <4>2
    <3>4. ReadTo(text, k - 1)
      BY <1>3, <3>1, <3>3
    <3>. QED BY <2>1, <3>1, <3>2, <3>4, OneEscape
  <2>. QED BY <2>2, <2>3
<1>4. Len(text) \in A
  <2>. HIDE DEF A
  <2>. QED BY <1>1, <1>2, <1>3, NatSet
<1>5. Between(text, Len(text))
  <2>1. Len(text) # 0 => Len(text) \in 1 .. Len(text) /\ ~(Len(text) < Len(text))
    BY <1>1
  <2>. QED BY <2>1 DEF Between, Escapes
<1>6. ReadTo(text, Len(text))
  BY <1>1, <1>4, <1>5
<1>7. PICK segs, names, seg, half, name : ReadSoFar(text, segs, names, seg, half, name)
  BY <1>6, PrefixGrows DEF ReadTo
<1>. QED BY <1>7, ReadToTheEnd

(***************************************************************************)
(* Every well-formed pointer, of any length and over any alphabet, is read *)
(* as the one path that is written that way (jsonPointerToPath,            *)
(* unescapeJSONPointer).                                                   *)
(***************************************************************************)
THEOREM PointerNamesItsField == PointerSpec => []NamesItsField
<1>. DEFINE Inv == ptr \in Text
<1>1. PointerInit => Inv
  BY DEF PointerInit, Text
<1>2. Inv /\ [PointerNext]_ptr => Inv'
  BY AppendProperties DEF PointerNext, Type, Text
<1>3. Inv => NamesItsField
  <2>. SUFFICES ASSUME ptr \in Text, WellFormed(ptr) PROVE PointerTo(jsonPointerToPath(ptr)) = ptr
    BY DEF NamesItsField
  <2>1. CASE ptr = << >>
    BY <2>1, PointerSteps DEF jsonPointerToPath
  <2>2. CASE ptr # << >>
    <3>. DEFINE text == Tail(ptr)
    <3>1. /\ ptr \in Seq(Chars) /\ Head(ptr) = "/" /\ text \in Seq(Chars)
          /\ Len(ptr) \in Nat /\ Len(text) = Len(ptr) - 1
          /\ \A i \in 1 .. Len(text) : text[i] = ptr[i + 1]
      BY <2>2, HeadTailProperties DEF WellFormed, Text
    <3>2. jsonPointerToPath(ptr)
            = [i \in DOMAIN Split(text) |-> unescapeJSONPointer(Split(text)[i])]
      BY <2>2, <3>1 DEF jsonPointerToPath
    <3>3. Escapes(text)
      <4>. SUFFICES ASSUME NEW i \in 1 .. Len(text), text[i] = "~"
                    PROVE  i < Len(text) /\ text[i + 1] \in {"0", "1"}
        BY DEF Escapes
      <4>1. i + 1 \in DOMAIN ptr /\ ptr[i + 1] = "~"
        BY <3>1
      <4>2. i + 1 < Len(ptr) /\ ptr[(i + 1) + 1] \in {"0", "1"}
        BY <4>1 DEF WellFormed
      <4>. QED BY <3>1, <4>2
    <3>4. ptr = Slash \o text
      <4>1. ptr = <<Head(ptr)>> \o Tail(ptr)
        BY <2>2, <3>1
      <4>. QED BY <3>1, <4>1 DEF Slash
    <3>. HIDE DEF text
    <3>5. text \in Text
      BY <3>1 DEF Text
    <3>. QED BY <3>2, <3>3, <3>4, <3>5, ReadEverything
  <2>. QED BY <2>1, <2>2
<1>. QED BY <1>1, <1>2, <1>3, PTL DEF PointerSpec
=============================================================================
