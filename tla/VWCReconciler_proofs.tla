------------------------ MODULE VWCReconciler_proofs ------------------------
(***************************************************************************)
(* The reconciler of the ValidatingWebhookConfiguration for every set of   *)
(* deployments and edits and every bound: the types, that the leader is    *)
(* never left without anything that would wake it, that the injected       *)
(* bundle stays, that without a Fail anywhere the webhook fails open, and  *)
(* that what is applied sends the webhook exactly the writes to objects    *)
(* with a Flux label outside the exclusions, in whatever order and however *)
(* often the flags name a namespace.                                       *)
(***************************************************************************)
EXTENDS VWCReconciler, Folds_proofs, SequenceTheorems

----------------------------------------------------------------------------
\* Entries.

LEMMA SettingsTyped ==
    ASSUME NEW d \in Deployments
    PROVE  /\ d.flags.failurePolicy \in {"Ignore", "Fail", Unset}
           /\ d.values.failurePolicy \in {"Ignore", "Fail"}
           /\ d.flags.timeoutSeconds \in Nat /\ d.values.timeoutSeconds \in Nat
BY ValuesAssumption DEF Settings, Values

LEMMA OwnEntryTyped ==
    ASSUME NEW d \in Deployments, NEW name \in EntryNames
    PROVE  AnEntry(OwnEntries[d][name])
<1>. DEFINE flags == FlagsFor(d.flags)
            entry == buildWebhookEntry(flags, name)
<1>1. OwnEntries[d][name] = entry
  BY DEF OwnEntries
<1>2. /\ flags.failurePolicy = d.flags.failurePolicy
      /\ flags.timeoutSeconds = d.flags.timeoutSeconds
  BY DEF FlagsFor
<1>3. /\ entry.failurePolicy \in {"Ignore", "Fail"} /\ entry.timeoutSeconds \in Nat
      /\ entry.operations \in SUBSET wildcardRules /\ entry.caBundle \in BOOLEAN
  BY <1>2, SettingsTyped DEF buildWebhookEntry
<1>4. DOMAIN entry = Fields
  BY DEF buildWebhookEntry, Fields, Default
<1>. QED BY <1>1, <1>3, <1>4 DEF AnEntry, Values

LEMMA ManifestEntryTyped ==
    ASSUME NEW d \in Deployments, NEW name \in EntryNames
    PROVE  AnEntry(ManifestEntries[d][name])
<1>. DEFINE entry == ChartEntry(d.values, name)
<1>1. ManifestEntries[d][name] = entry
  BY DEF ManifestEntries
<1>2. /\ entry.failurePolicy \in {"Ignore", "Fail"} /\ entry.timeoutSeconds \in Nat
      /\ entry.operations \in SUBSET wildcardRules /\ entry.caBundle \in BOOLEAN
  BY SettingsTyped DEF ChartEntry, wildcardRules
<1>3. DOMAIN entry = Fields
  BY DEF ChartEntry, Fields, Default
<1>. QED BY <1>1, <1>2, <1>3 DEF AnEntry, Values

LEMMA EntryTyped ==
    ASSUME TypeOK, NEW name \in EntryNames
    PROVE  AnEntry(Entry(name))
<1>1. AnEntry(Default)
  <2>1. /\ Default.failurePolicy \in {"Ignore", "Fail"} /\ Default.timeoutSeconds \in Nat
        /\ Default.operations \in SUBSET wildcardRules /\ Default.caBundle \in BOOLEAN
    BY DEF Default
  <2>. QED BY <2>1 DEF AnEntry, Fields, Values
<1>. QED BY <1>1 DEF TypeOK, Entry

LEMMA ApplyTyped ==
    ASSUME NEW old, AnEntry(old), NEW entry, NEW declared,
           \A f \in DOMAIN Values : f \in declared => entry[f] \in Values[f]
    PROVE  AnEntry(ApplyOver(old, entry, declared))
<1>1. DOMAIN Values \subseteq Fields
  BY DEF Values, Fields, Default
<1>. QED BY <1>1 DEF ApplyOver, AnEntry

(***************************************************************************)
(* What either applier stores is a configuration with every entry in it.   *)
(***************************************************************************)
LEMMA AppliedTyped ==
    ASSUME TypeOK, NEW annotated \in BOOLEAN, NEW entries, NEW declared,
           \A name \in EntryNames : AnEntry(entries[name])
    PROVE  LET config == Applied(annotated, entries, declared)
           IN  /\ config = Config(config.annotated, config.webhooks)
               /\ config.annotated \in BOOLEAN /\ DOMAIN config.webhooks = EntryNames
               /\ \A name \in EntryNames : AnEntry(config.webhooks[name])
<1>. DEFINE config == Applied(annotated, entries, declared)
<1>1. \A name \in EntryNames : AnEntry(ApplyOver(Entry(name), entries[name], declared))
  BY EntryTyped, ApplyTyped DEF AnEntry
<1>2. /\ config.annotated = (annotated \/ stored.annotated)
      /\ config.webhooks = [name \in EntryNames |->
                              ApplyOver(Entry(name), entries[name], declared)]
  BY DEF Applied, Config
<1>3. config = Config(config.annotated, config.webhooks)
  BY <1>2 DEF Applied
<1>4. stored.annotated \in BOOLEAN
  BY DEF TypeOK
<1>. QED BY <1>1, <1>2, <1>3, <1>4

----------------------------------------------------------------------------
\* Types.

IsConfig(config) ==
    /\ config = NoConfig \/ config = Config(config.annotated, config.webhooks)
    /\ config.annotated \in BOOLEAN /\ DOMAIN config.webhooks \subseteq EntryNames
    /\ \A name \in DOMAIN config.webhooks : AnEntry(config.webhooks[name])

LEMMA NoConfigTyped == IsConfig(NoConfig) /\ DOMAIN NoConfig.webhooks = {}
BY DEF IsConfig, NoConfig

LEMMA ConfigTyped ==
    ASSUME NEW annotated \in BOOLEAN, NEW webhooks, DOMAIN webhooks \subseteq EntryNames,
           \A name \in DOMAIN webhooks : AnEntry(webhooks[name])
    PROVE  IsConfig(Config(annotated, webhooks))
BY DEF IsConfig, Config

LEMMA TypeOKSplit ==
    TypeOK <=>
        /\ IsConfig(stored)
        /\ deployment \in Deployments /\ leader \in {None} \cup Deployments
        /\ watch \in Seq({"create", "update", "delete"})
        /\ timer \in {"no", "backoff", "resync"} /\ pc \in {"idle", "apply", "report"}
        /\ {cached, queued, recreating, silent} \subseteq BOOLEAN
        /\ budget \in [changes : 0 .. MaxChanges, faults : 0 .. MaxFaults]
BY DEF TypeOK, IsConfig

LEMMA StoreTyped ==
    ASSUME TypeOK, NEW config, IsConfig(config), Store(config)
    PROVE  IsConfig(stored)' /\ watch' \in Seq({"create", "update", "delete"})
<1>1. IsConfig(stored)'
  BY DEF Store, IsConfig, AnEntry
<1>2. watch' \in Seq({"create", "update", "delete"})
  BY DEF Store, TypeOK
<1>. QED BY <1>1, <1>2

LEMMA SpendTyped ==
    ASSUME TypeOK, NEW what \in {"changes", "faults"}, Spend(what)
    PROVE  /\ budget' \in [changes : 0 .. MaxChanges, faults : 0 .. MaxFaults]
           /\ budget'[what] < budget[what]
<1>1. MaxChanges \in Nat /\ MaxFaults \in Nat
  BY DeploymentsAssumption
<1>. QED BY <1>1 DEF TypeOK, Spend

LEMMA InitTyped == Init => TypeOK
<1>. SUFFICES ASSUME Init PROVE TypeOK
  OBVIOUS
<1>1. IsConfig(stored)
  BY NoConfigTyped DEF Init
<1>2. budget \in [changes : 0 .. MaxChanges, faults : 0 .. MaxFaults]
  BY DeploymentsAssumption DEF Init
<1>3. {cached, queued, recreating, silent} \subseteq BOOLEAN
  BY DEF Init
<1>4. /\ deployment \in Deployments /\ leader \in {None} \cup Deployments
      /\ watch \in Seq({"create", "update", "delete"})
      /\ timer \in {"no", "backoff", "resync"} /\ pc \in {"idle", "apply", "report"}
  BY DEF Init
<1>. QED BY <1>1, <1>2, <1>3, <1>4, TypeOKSplit

LEMMA EditTyped ==
    ASSUME NEW entry, AnEntry(entry), NEW edit \in Edits
    PROVE  AnEntry(ApplyOver(entry, edit, DOMAIN edit))
BY ApplyTyped, ValuesAssumption

\* What somebody leaves of a configuration.
LEMMA EditedTyped ==
    ASSUME TypeOK, Edited
    PROVE  \E annotated \in BOOLEAN : \E webhooks :
              /\ Store(Config(annotated, webhooks)) /\ IsConfig(Config(annotated, webhooks))
              /\ stored.annotated = annotated
<1>1. PICK name \in DOMAIN stored.webhooks :
          LET Kept == DOMAIN stored.webhooks \ {name}
              Without == [other \in Kept |-> stored.webhooks[other]]
              With(edit) == [stored.webhooks EXCEPT ![name] = ApplyOver(@, edit, DOMAIN edit)]
          IN  \E webhooks \in {Without} \cup {With(edit) : edit \in Edits} :
                 webhooks # stored.webhooks /\ Store(Config(stored.annotated, webhooks))
  BY DEF Edited
<1>. DEFINE Kept == DOMAIN stored.webhooks \ {name}
            Without == [other \in Kept |-> stored.webhooks[other]]
            With(edit) == [stored.webhooks EXCEPT ![name] = ApplyOver(@, edit, DOMAIN edit)]
<1>2. PICK webhooks \in {Without} \cup {With(edit) : edit \in Edits} :
          Store(Config(stored.annotated, webhooks))
  BY <1>1
<1>3. \A other \in DOMAIN stored.webhooks : AnEntry(stored.webhooks[other])
  BY DEF TypeOK
<1>4. /\ DOMAIN stored.webhooks \subseteq EntryNames /\ stored.annotated \in BOOLEAN
  BY DEF TypeOK
<1>5. /\ DOMAIN webhooks \subseteq EntryNames
      /\ \A other \in DOMAIN webhooks : AnEntry(webhooks[other])
  <2>1. CASE webhooks = Without
    BY <2>1, <1>3, <1>4
  <2>2. CASE \E edit \in Edits : webhooks = With(edit)
    <3>1. PICK edit \in Edits : webhooks = With(edit)
      BY <2>2
    <3>2. AnEntry(ApplyOver(stored.webhooks[name], edit, DOMAIN edit))
      BY <1>3, EditTyped
    <3>. QED BY <3>1, <3>2, <1>3, <1>4 DEF ApplyOver
  <2>. QED BY <2>1, <2>2
<1>6. IsConfig(Config(stored.annotated, webhooks))
  BY <1>4, <1>5, ConfigTyped
<1>. QED BY <1>2, <1>4, <1>6

LEMMA InjectTyped ==
    ASSUME TypeOK, Inject
    PROVE  \E webhooks :
              /\ Store(Config(TRUE, webhooks)) /\ IsConfig(Config(TRUE, webhooks))
              /\ DOMAIN webhooks = DOMAIN stored.webhooks /\ stored.exists
              /\ \A name \in DOMAIN webhooks :
                    webhooks[name] = [stored.webhooks[name] EXCEPT !.caBundle = TRUE]
<1>. DEFINE webhooks ==
        [name \in DOMAIN stored.webhooks |-> [stored.webhooks[name] EXCEPT !.caBundle = TRUE]]
<1>1. Store(Config(TRUE, webhooks))
  BY DEF Inject
<1>2. \A name \in DOMAIN stored.webhooks :
         AnEntry([stored.webhooks[name] EXCEPT !.caBundle = TRUE])
  <2>. TAKE name \in DOMAIN stored.webhooks
  <2>. DEFINE entry == stored.webhooks[name]
              armed == [entry EXCEPT !.caBundle = TRUE]
  <2>1. AnEntry(entry)
    BY DEF TypeOK
  <2>2. DOMAIN armed = Fields /\ \A f \in Fields : f # "caBundle" => armed[f] = entry[f]
    BY <2>1 DEF AnEntry
  <2>3. armed["caBundle"] = TRUE
    BY <2>1 DEF AnEntry, Fields, Default
  <2>4. Values["caBundle"] = BOOLEAN /\ DOMAIN Values \subseteq Fields
    BY DEF Values, Fields, Default
  <2>. HIDE DEF armed, entry
  <2>5. \A f \in DOMAIN Values : armed[f] \in Values[f]
    BY <2>1, <2>2, <2>3, <2>4 DEF AnEntry
  <2>6. AnEntry(armed)
    BY <2>2, <2>5 DEF AnEntry
  <2>. QED BY <2>6 DEF armed, entry
<1>3. IsConfig(Config(TRUE, webhooks))
  BY <1>2, ConfigTyped DEF TypeOK
<1>4. stored.exists
  BY DEF Inject, TypeOK, Config, NoConfig
<1>5. /\ DOMAIN webhooks = DOMAIN stored.webhooks
      /\ \A name \in DOMAIN webhooks :
            webhooks[name] = [stored.webhooks[name] EXCEPT !.caBundle = TRUE]
  OBVIOUS
<1>. HIDE DEF webhooks
<1>. QED BY <1>1, <1>3, <1>4, <1>5

LEMMA ManifestTyped ==
    ASSUME TypeOK
    PROVE  /\ IsConfig(Applied(TRUE, ManifestEntries[deployment], Fields \ {"caBundle"}))
           /\ DOMAIN Applied(TRUE, ManifestEntries[deployment],
                             Fields \ {"caBundle"}).webhooks = EntryNames
<1>1. \A name \in EntryNames : AnEntry(ManifestEntries[deployment][name])
  BY ManifestEntryTyped DEF TypeOK
<1>. QED BY <1>1, AppliedTyped DEF IsConfig

LEMMA ReassertTyped ==
    ASSUME TypeOK, leader # None
    PROVE  /\ IsConfig(Applied(FALSE, OwnEntries[leader], Declared))
           /\ DOMAIN Applied(FALSE, OwnEntries[leader], Declared).webhooks = EntryNames
<1>1. \A name \in EntryNames : AnEntry(OwnEntries[leader][name])
  BY OwnEntryTyped DEF TypeOK
<1>. QED BY <1>1, AppliedTyped DEF IsConfig

\* Without a leader nothing of the controller is in memory.
Asleep ==
    leader = None => watch = << >> /\ ~queued /\ timer = "no" /\ pc = "idle" /\ ~recreating

TypedInv == TypeOK /\ Asleep

LEMMA StepTyped == TypedInv /\ [Next]_vars => TypeOK'
<1>. SUFFICES ASSUME TypedInv, [Next]_vars PROVE TypeOK'
  OBVIOUS
<1>. USE DEF TypedInv
<1>. DEFINE Flags == {cached, queued, recreating, silent} \subseteq BOOLEAN
            Rest == /\ deployment \in Deployments /\ leader \in {None} \cup Deployments
                    /\ timer \in {"no", "backoff", "resync"}
                    /\ pc \in {"idle", "apply", "report"}
            Stored == IsConfig(stored) /\ watch \in Seq({"create", "update", "delete"})
            Budget == budget \in [changes : 0 .. MaxChanges, faults : 0 .. MaxFaults]
<1>1. Flags /\ Rest /\ Stored /\ Budget
  BY TypeOKSplit
<1>2. Stored'
  <2>0. CASE UNCHANGED <<stored, watch>>
    BY <1>1, <2>0 DEF IsConfig, AnEntry
  <2>1. CASE ManifestApplied
    BY <2>1, ManifestTyped, StoreTyped DEF ManifestApplied
  <2>2. CASE Inject
    BY <2>2, InjectTyped, StoreTyped
  <2>3. CASE Deleted
    BY <2>3, NoConfigTyped, StoreTyped DEF Deleted
  <2>4. CASE Edited
    BY <2>4, EditedTyped, StoreTyped
  <2>5. CASE Apply \/ ApplyFails
    <3>1. leader # None
      BY <2>5 DEF Apply, ApplyFails, Asleep
    <3>2. CASE Reassert
      BY <3>1, <3>2, ReassertTyped, StoreTyped DEF Reassert
    <3>3. CASE UNCHANGED api
      BY <3>3, <2>0 DEF api
    <3>. QED BY <2>5, <3>2, <3>3 DEF Apply, ApplyFails
  <2>6. CASE LeaderLost \/ Replaced \/ Deliver
    <3>1. stored' = stored
      BY <2>6 DEF LeaderLost, Replaced, Deliver
    <3>2. watch' = << >> \/ (watch # << >> /\ watch' = Tail(watch))
      BY <2>6 DEF LeaderLost, Replaced, Deliver, Stop
    <3>3. IsConfig(stored)'
      BY <1>1, <3>1 DEF IsConfig, AnEntry
    <3>4. watch' \in Seq({"create", "update", "delete"})
      <4>1. watch \in Seq({"create", "update", "delete"})
        BY <1>1
      <4>. DEFINE Events == {"create", "update", "delete"}
      <4>2. \A w \in Seq(Events) : w # << >> => Tail(w) \in Seq(Events)
        BY HeadTailProperties
      <4>3. << >> \in Seq(Events)
        OBVIOUS
      <4>. HIDE DEF Events
      <4>4. CASE watch' = << >>
        BY <4>3, <4>4
      <4>5. CASE watch # << >> /\ watch' = Tail(watch)
        BY <4>1, <4>2, <4>5 DEF Events
      <4>. QED BY <3>2, <4>4, <4>5 DEF Events
    <3>. QED BY <3>3, <3>4
  <2>. QED BY <2>0, <2>1, <2>2, <2>3, <2>4, <2>5, <2>6
           DEF Next, Rollout, Elect, Get, GetFails, Report, Due, api, vars
<1>3. Rest'
  <2>1. CASE Due("backoff") \/ Due("resync")
    BY <2>1, <1>1 DEF Due
  <2>2. CASE Next /\ ~(Due("backoff") \/ Due("resync"))
    BY <2>2, <1>1 DEF Next, ManifestApplied, Inject, Deleted, Edited, Rollout, LeaderLost,
         Replaced, Elect, Deliver, Get, GetFails, Apply, ApplyFails, Report, Stop,
         ReturnError, RequeueAfter, Sooner, api, loop
  <2>. QED BY <2>1, <2>2, <1>1 DEF vars
<1>4. Flags'
  <2>1. cached \in BOOLEAN /\ queued \in BOOLEAN /\ recreating \in BOOLEAN /\ silent \in BOOLEAN
    BY <1>1
  <2>2. stored.exists \in BOOLEAN
    <3>1. CASE stored = NoConfig
      BY <3>1 DEF NoConfig
    <3>2. CASE stored = Config(stored.annotated, stored.webhooks)
      <4>1. \A annotated, webhooks : Config(annotated, webhooks).exists = TRUE
        BY DEF Config
      <4>. QED BY <3>2, <4>1
    <3>. QED BY <3>1, <3>2 DEF TypeOK
  <2>3. CASE Elect
    <3>1. cached' \in BOOLEAN /\ queued' \in BOOLEAN
      BY <2>2, <2>3 DEF Elect
    <3>. QED BY <2>1, <2>3, <3>1 DEF Elect
  <2>4. CASE Deliver
    <3>1. cached' \in BOOLEAN
      BY <2>4 DEF Deliver
    <3>2. queued' \in BOOLEAN
      BY <2>4, <2>1 DEF Deliver, Reacts
    <3>. QED BY <2>1, <2>4, <3>1, <3>2 DEF Deliver
  <2>5. CASE Get \/ GetFails \/ Due("backoff") \/ Due("resync")
    BY <2>1, <2>5 DEF Get, GetFails, Due
  <2>6. CASE Apply \/ ApplyFails
    BY <2>1, <2>2, <2>6 DEF Apply, ApplyFails, Reassert, ReturnError, api
  <2>7. CASE Report
    BY <2>1, <2>7 DEF Report
  <2>8. CASE LeaderLost \/ Replaced
    BY <2>1, <2>8 DEF LeaderLost, Replaced, Stop
  <2>9. CASE ManifestApplied \/ Inject \/ Deleted \/ Edited \/ Rollout \/ UNCHANGED vars
    BY <2>1, <2>9 DEF ManifestApplied, Inject, Deleted, Edited, Rollout, api, loop, vars
  <2>. QED BY <2>3, <2>4, <2>5, <2>6, <2>7, <2>8, <2>9 DEF Next
<1>5. Budget'
  <2>1. CASE UNCHANGED budget
    BY <2>1, <1>1
  <2>2. CASE Spend("changes") \/ Spend("faults")
    BY <2>2, SpendTyped
  <2>. QED BY <2>1, <2>2 DEF Next, ManifestApplied, Inject, Deleted, Edited, Rollout,
             LeaderLost, Replaced, Elect, Deliver, Get, GetFails, Apply, ApplyFails, Report,
             Due, vars
<1>. QED BY <1>2, <1>3, <1>4, <1>5, TypeOKSplit, PTL

LEMMA StepAsleep == TypedInv /\ [Next]_vars => Asleep'
<1>. SUFFICES ASSUME TypedInv, [Next]_vars, leader' = None
              PROVE  watch' = << >> /\ ~queued' /\ timer' = "no" /\ pc' = "idle" /\ ~recreating'
  BY DEF Asleep
<1>1. CASE LeaderLost \/ Replaced
  BY <1>1 DEF LeaderLost, Replaced, Stop
<1>2. CASE Elect
  BY <1>2, DeploymentsAssumption DEF Elect, TypedInv, TypeOK
<1>3. CASE ManifestApplied \/ Inject \/ Deleted \/ Edited \/ Rollout \/ UNCHANGED vars
  <2>1. UNCHANGED <<leader, loop>>
    BY <1>3 DEF ManifestApplied, Inject, Deleted, Edited, Rollout, loop, vars
  <2>2. watch' = watch \/ \E config : Store(config)
    BY <1>3 DEF ManifestApplied, Inject, Deleted, Edited, Rollout, api, vars
  <2>3. watch' = watch
    BY <2>1, <2>2 DEF Store
  <2>. QED BY <2>1, <2>3 DEF TypedInv, Asleep, loop
<1>4. CASE Deliver \/ Get \/ GetFails \/ Apply \/ ApplyFails \/ Report
             \/ Due("backoff") \/ Due("resync")
  BY <1>4 DEF TypedInv, Asleep, Deliver, Get, GetFails, Apply, ApplyFails, Report, Due
<1>. QED BY <1>1, <1>2, <1>3, <1>4 DEF Next

(***************************************************************************)
(* Types, and that a controller without a lease holds nothing (main's      *)
(* leader election; SetupWithManager, whose controller runs on the leader). *)
(***************************************************************************)
THEOREM TypeCorrect == Spec => []TypeOK
<1>1. Init => TypedInv
  BY InitTyped DEF TypedInv, Asleep, Init
<1>2. TypedInv /\ [Next]_vars => TypedInv'
  BY StepTyped, StepAsleep DEF TypedInv
<1>3. TypedInv => TypeOK
  BY DEF TypedInv
<1>. QED BY <1>1, <1>2, <1>3, PTL DEF Spec

----------------------------------------------------------------------------
\* Nothing puts the leader to sleep for good.

LEMMA AppendContains ==
    ASSUME NEW S, NEW s \in Seq(S), NEW e \in S, NEW x, Contains(s, x) \/ x = e
    PROVE  Contains(Append(s, e), x)
<1>. DEFINE t == Append(s, e)
<1>1. /\ t \in Seq(S) /\ Len(t) = Len(s) + 1 /\ t[Len(s) + 1] = e
      /\ \A i \in 1 .. Len(s) : t[i] = s[i]
  BY AppendProperties
<1>2. CASE x = e
  BY <1>1, <1>2 DEF Contains
<1>3. CASE Contains(s, x)
  BY <1>1, <1>3 DEF Contains
<1>. QED BY <1>2, <1>3

LEMMA TailContains ==
    ASSUME NEW S, NEW s \in Seq(S), s # << >>, NEW x, Contains(s, x), Head(s) # x
    PROVE  Contains(Tail(s), x)
<1>1. PICK i \in 1 .. Len(s) : s[i] = x
  BY DEF Contains
<1>2. i # 1
  BY <1>1
<1>3. /\ Len(Tail(s)) = Len(s) - 1
      /\ \A j \in 1 .. Len(Tail(s)) : Tail(s)[j] = s[j + 1]
  BY HeadTailProperties
<1>4. i - 1 \in 1 .. Len(Tail(s)) /\ Tail(s)[i - 1] = x
  BY <1>1, <1>2, <1>3
<1>. QED BY <1>4 DEF Contains

LEMMA StoreKeepsAwake ==
    ASSUME TypeOK, NEW config, Store(config), leader # None, config.exists,
           stored.exists => Contains(watch, "create")
    PROVE  Contains(watch, "create")'
<1>. DEFINE Events == {"create", "update", "delete"}
<1>1. watch \in Seq(Events)
  BY DEF TypeOK
<1>2. CASE config = stored
  BY <1>2 DEF Store
<1>3. CASE config # stored
  <2>1. PICK event \in Events : watch' = Append(watch, event) /\ (~stored.exists => event = "create")
    BY <1>3 DEF Store
  <2>2. Contains(watch, "create") \/ event = "create"
    BY <2>1
  <2>3. Contains(Append(watch, event), "create")
    BY <1>1, <2>1, <2>2, AppendContains
  <2>. QED BY <2>1, <2>3
<1>. QED BY <1>2, <1>3

LEMMA StepAwake == TypedInv /\ NeverStranded /\ [Next]_vars => NeverStranded'
<1>. SUFFICES ASSUME TypedInv, NeverStranded, [Next]_vars, leader' # None, stored'.exists
              PROVE  queued' \/ pc' # "idle" \/ timer' # "no" \/ Contains(watch, "create")'
  BY DEF NeverStranded
<1>. USE DEF TypedInv
<1>. DEFINE Events == {"create", "update", "delete"}
<1>1. watch \in Seq(Events) /\ (leader # None /\ stored.exists =>
           queued \/ pc # "idle" \/ timer # "no" \/ Contains(watch, "create"))
  BY DEF TypeOK, NeverStranded
<1>2. CASE ManifestApplied \/ Inject \/ Deleted \/ Edited
  <2>1. UNCHANGED <<leader, queued, pc, timer>>
    BY <1>2 DEF ManifestApplied, Inject, Deleted, Edited, loop
  <2>2. PICK config : Store(config)
    BY <1>2 DEF ManifestApplied, Inject, Deleted, Edited
  <2>3. config.exists
    BY <2>2 DEF Store
  <2>. QED BY <1>1, <2>1, <2>2, <2>3, StoreKeepsAwake
<1>3. CASE Rollout \/ UNCHANGED vars
  BY <1>1, <1>3 DEF Rollout, api, loop, vars
<1>4. CASE LeaderLost \/ Replaced
  BY <1>4 DEF LeaderLost, Replaced, Stop
<1>5. CASE Elect
  BY <1>5 DEF Elect
<1>6. CASE Deliver
  <2>1. watch # << >> /\ watch' = Tail(watch) /\ UNCHANGED <<stored, leader, pc, timer>>
    BY <1>6 DEF Deliver
  <2>2. CASE Head(watch) = "create"
    BY <1>6, <2>2 DEF Deliver, Reacts
  <2>3. CASE Head(watch) # "create" /\ Contains(watch, "create")
    <3>1. Contains(Tail(watch), "create")
      BY <1>1, <2>1, <2>3, TailContains
    <3>. QED BY <2>1, <3>1
  <2>4. CASE queued
    BY <1>6, <2>4 DEF Deliver
  <2>. QED BY <1>1, <2>1, <2>2, <2>3, <2>4
<1>7. CASE Get \/ GetFails \/ Apply
  BY <1>7 DEF Get, GetFails, Apply
<1>8. CASE ApplyFails
  BY <1>8 DEF ApplyFails, ReturnError, Sooner
<1>9. CASE Report
  BY <1>9 DEF Report, RequeueAfter, Sooner
<1>10. CASE Due("backoff") \/ Due("resync")
  BY <1>10 DEF Due
<1>. QED BY <1>2, <1>3, <1>4, <1>5, <1>6, <1>7, <1>8, <1>9, <1>10 DEF Next

(***************************************************************************)
(* A leader of an existing configuration always has something ahead of it  *)
(* that runs Reconcile again: every return of Reconcile arms a timer, and  *)
(* what a watch event or a lost call leaves behind never disarms one.      *)
(***************************************************************************)
THEOREM LeaderNeverStranded == Spec => []NeverStranded
<1>1. Init => TypedInv /\ NeverStranded
  BY InitTyped DEF TypedInv, Asleep, NeverStranded, Init
<1>2. TypedInv /\ NeverStranded /\ [Next]_vars => (TypedInv /\ NeverStranded)'
  BY StepTyped, StepAsleep, StepAwake DEF TypedInv
<1>. QED BY <1>1, <1>2, PTL DEF Spec

----------------------------------------------------------------------------
\* The bundle.

LEMMA AppliedEntries ==
    ASSUME NEW annotated, NEW entries, NEW declared, NEW name \in EntryNames
    PROVE  /\ name \in DOMAIN Applied(annotated, entries, declared).webhooks
           /\ \A f \in Fields :
                 Applied(annotated, entries, declared).webhooks[name][f]
                   = IF f \in declared THEN entries[name][f] ELSE Entry(name)[f]
<1>1. Applied(annotated, entries, declared).webhooks
        = [other \in EntryNames |-> ApplyOver(Entry(other), entries[other], declared)]
  BY DEF Applied, Config
<1>. QED BY <1>1 DEF ApplyOver

LEMMA BothFields == {"failurePolicy", "caBundle"} \subseteq Fields
BY DEF Fields, Default

LEMMA AppliedKeepsBundle ==
    ASSUME NEW annotated, NEW entries, NEW declared, "caBundle" \notin declared,
           NEW name \in EntryNames, Armed(name)
    PROVE  /\ name \in DOMAIN Applied(annotated, entries, declared).webhooks
           /\ Applied(annotated, entries, declared).webhooks[name].caBundle
<1>1. Entry(name).caBundle
  BY DEF Armed, Entry
<1>2. Applied(annotated, entries, declared).webhooks[name]["caBundle"] = Entry(name)["caBundle"]
  BY AppliedEntries, BothFields
<1>. QED BY <1>1, <1>2, AppliedEntries

(***************************************************************************)
(* Neither the reconciler nor the manifest's applier loses the injected    *)
(* bundle, under any interleaving with failures and lost leaders: both     *)
(* leave it out of what they declare (buildWebhookEntry).                  *)
(***************************************************************************)
THEOREM BundleStays == Spec => BundleKept
<1>. DEFINE Kept == \A name \in EntryNames :
                       Armed(name) /\ ~Armed(name)' => budget'.changes < budget.changes
<1>1. TypeOK /\ [Next]_vars => [Kept]_vars
  <2>. SUFFICES ASSUME TypeOK, Next, NEW name \in EntryNames, Armed(name), ~Armed(name)'
                PROVE  budget'.changes < budget.changes
    OBVIOUS
  <2>1. stored' # stored
    BY DEF Armed
  <2>2. CASE ManifestApplied
    <3>1. stored' = Applied(TRUE, ManifestEntries[deployment], Fields \ {"caBundle"})
      BY <2>2 DEF ManifestApplied, Store
    <3>. QED BY <3>1, AppliedKeepsBundle DEF Armed
  <2>3. CASE Inject
    <3>1. PICK webhooks : /\ stored' = Config(TRUE, webhooks)
                          /\ DOMAIN webhooks = DOMAIN stored.webhooks
                          /\ webhooks[name] = [stored.webhooks[name] EXCEPT !.caBundle = TRUE]
      BY <2>3, InjectTyped DEF Store, Armed
    <3>2. "caBundle" \in DOMAIN stored.webhooks[name]
      BY BothFields DEF TypeOK, AnEntry, Armed
    <3>3. webhooks[name].caBundle
      BY <3>1, <3>2
    <3>. QED BY <3>1, <3>3 DEF Armed, Config
  <2>4. CASE Apply \/ ApplyFails
    <3>1. stored' = Applied(FALSE, OwnEntries[leader], Declared)
      BY <2>1, <2>4 DEF Apply, ApplyFails, Reassert, Store, api
    <3>2. "caBundle" \notin Declared
      BY DEF Declared
    <3>. QED BY <3>1, <3>2, AppliedKeepsBundle DEF Armed
  <2>5. CASE Deleted \/ Edited
    <3>1. Spend("changes")
      BY <2>5 DEF Deleted, Edited
    <3>. QED BY <3>1, SpendTyped
  <2>. QED BY <2>1, <2>2, <2>3, <2>4, <2>5
           DEF Next, Rollout, LeaderLost, Replaced, Elect, Deliver, Get, GetFails, Report, Due,
               api
<1>. QED BY <1>1, TypeCorrect, PTL DEF Spec, BundleKept

----------------------------------------------------------------------------
\* Fail open.

\* Nobody asks for Fail: not the flags, not the manifest, not an edit.
NobodyFails ==
    /\ \A d \in Deployments :
          d.flags.failurePolicy \in {Unset, "Ignore"} /\ d.values.failurePolicy = "Ignore"
    /\ \A edit \in Edits : "failurePolicy" \in DOMAIN edit => edit.failurePolicy = "Ignore"

AllOpen ==
    \A name \in DOMAIN stored.webhooks : stored.webhooks[name].failurePolicy = "Ignore"

LEMMA AppliedOpens ==
    ASSUME NEW annotated, NEW entries, NEW declared, "failurePolicy" \in declared,
           \A name \in EntryNames : entries[name].failurePolicy = "Ignore"
    PROVE  \A name \in EntryNames :
              Applied(annotated, entries, declared).webhooks[name].failurePolicy = "Ignore"
<1>. SUFFICES ASSUME NEW name \in EntryNames
              PROVE  Applied(annotated, entries, declared).webhooks[name]["failurePolicy"] = "Ignore"
  OBVIOUS
<1>1. entries[name]["failurePolicy"] = "Ignore"
  OBVIOUS
<1>. QED BY <1>1, AppliedEntries, BothFields

LEMMA StepOpen == NobodyFails /\ TypedInv /\ AllOpen /\ [Next]_vars => AllOpen'
<1>. SUFFICES ASSUME NobodyFails, TypedInv, AllOpen, [Next]_vars PROVE AllOpen'
  OBVIOUS
<1>. USE DEF TypedInv
<1>1. CASE stored' = stored
  BY <1>1 DEF AllOpen
<1>2. CASE ManifestApplied
  <2>1. stored' = Applied(TRUE, ManifestEntries[deployment], Fields \ {"caBundle"})
    BY <1>2 DEF ManifestApplied, Store
  <2>2. \A name \in EntryNames : ManifestEntries[deployment][name].failurePolicy = "Ignore"
    BY DEF ManifestEntries, ChartEntry, NobodyFails, TypeOK
  <2>3. DOMAIN stored'.webhooks = EntryNames
    BY <2>1, ManifestTyped
  <2>4. "failurePolicy" \in Fields \ {"caBundle"}
    BY BothFields
  <2>5. \A name \in EntryNames : stored'.webhooks[name].failurePolicy = "Ignore"
    BY <2>1, <2>2, <2>4, AppliedOpens
  <2>. QED BY <2>3, <2>5 DEF AllOpen
<1>3. CASE Inject
  <2>1. PICK webhooks :
          /\ stored' = Config(TRUE, webhooks) /\ DOMAIN webhooks = DOMAIN stored.webhooks
          /\ \A name \in DOMAIN webhooks :
                webhooks[name] = [stored.webhooks[name] EXCEPT !.caBundle = TRUE]
    BY <1>3, InjectTyped DEF Store
  <2>2. \A name \in DOMAIN webhooks : webhooks[name].failurePolicy = "Ignore"
    <3>. SUFFICES ASSUME NEW name \in DOMAIN webhooks
                  PROVE  webhooks[name].failurePolicy = "Ignore"
      OBVIOUS
    <3>1. /\ stored.webhooks[name].failurePolicy = "Ignore"
          /\ "failurePolicy" \in DOMAIN stored.webhooks[name]
      BY <2>1, BothFields DEF AllOpen, TypeOK, AnEntry
    <3>. QED BY <2>1, <3>1
  <2>. QED BY <2>1, <2>2 DEF AllOpen, Config
<1>4. CASE Deleted
  BY <1>4 DEF Deleted, Store, AllOpen, NoConfig
<1>5. CASE Edited
  <2>1. PICK name \in DOMAIN stored.webhooks :
          LET Kept == DOMAIN stored.webhooks \ {name}
              Without == [other \in Kept |-> stored.webhooks[other]]
              With(edit) == [stored.webhooks EXCEPT ![name] = ApplyOver(@, edit, DOMAIN edit)]
          IN  \E webhooks \in {Without} \cup {With(edit) : edit \in Edits} :
                 webhooks # stored.webhooks /\ Store(Config(stored.annotated, webhooks))
    BY <1>5 DEF Edited
  <2>. DEFINE Kept == DOMAIN stored.webhooks \ {name}
              Without == [other \in Kept |-> stored.webhooks[other]]
              With(edit) == [stored.webhooks EXCEPT ![name] = ApplyOver(@, edit, DOMAIN edit)]
  <2>2. PICK webhooks \in {Without} \cup {With(edit) : edit \in Edits} :
          stored' = Config(stored.annotated, webhooks)
    BY <2>1 DEF Store
  <2>3. \A other \in DOMAIN webhooks : webhooks[other].failurePolicy = "Ignore"
    <3>1. CASE webhooks = Without
      BY <3>1 DEF AllOpen
    <3>2. CASE \E edit \in Edits : webhooks = With(edit)
      <4>1. PICK edit \in Edits : webhooks = With(edit)
        BY <3>2
      <4>2. ApplyOver(stored.webhooks[name], edit, DOMAIN edit).failurePolicy = "Ignore"
        BY BothFields DEF ApplyOver, NobodyFails, AllOpen
      <4>. QED BY <4>1, <4>2 DEF AllOpen
    <3>. QED BY <3>1, <3>2
  <2>. QED BY <2>2, <2>3 DEF AllOpen, Config
<1>6. CASE Apply \/ ApplyFails
  <2>. SUFFICES ASSUME stored' # stored PROVE AllOpen'
    BY <1>1
  <2>1. stored' = Applied(FALSE, OwnEntries[leader], Declared) /\ leader # None
    BY <1>6 DEF Apply, ApplyFails, Reassert, Store, api, Asleep
  <2>2. \A name \in EntryNames : OwnEntries[leader][name].failurePolicy = "Ignore"
    <3>. SUFFICES ASSUME NEW name \in EntryNames
                  PROVE  OwnEntries[leader][name].failurePolicy = "Ignore"
      OBVIOUS
    <3>1. leader \in Deployments /\ leader.flags.failurePolicy \in {Unset, "Ignore"}
      BY <2>1 DEF NobodyFails, TypeOK
    <3>2. FlagsFor(leader.flags).failurePolicy = leader.flags.failurePolicy
      BY DEF FlagsFor
    <3>3. buildWebhookEntry(FlagsFor(leader.flags), name).failurePolicy = "Ignore"
      BY <3>1, <3>2 DEF buildWebhookEntry
    <3>. QED BY <3>1, <3>3 DEF OwnEntries
  <2>3. DOMAIN stored'.webhooks = EntryNames
    BY <2>1, ReassertTyped
  <2>4. "failurePolicy" \in Declared
    BY BothFields DEF Declared
  <2>5. \A name \in EntryNames : stored'.webhooks[name].failurePolicy = "Ignore"
    BY <2>1, <2>2, <2>4, AppliedOpens
  <2>. QED BY <2>3, <2>5 DEF AllOpen
<1>. QED BY <1>1, <1>2, <1>3, <1>4, <1>5, <1>6
         DEF Next, Rollout, LeaderLost, Replaced, Elect, Deliver, Get, GetFails, Report, Due,
             api, vars

(***************************************************************************)
(* Unless somebody asks for Fail, no configuration without a bundle ever   *)
(* fails closed: not even one recreated from nothing, which would start    *)
(* from the API server's default Fail (buildWebhookEntry's comment).       *)
(***************************************************************************)
THEOREM OpenWithoutBundle ==
    ASSUME NobodyFails PROVE Spec => []FailsOpenWithoutBundle
<1>1. Init => TypedInv /\ AllOpen
  BY InitTyped DEF TypedInv, Asleep, AllOpen, Init, NoConfig
<1>2. TypedInv /\ AllOpen /\ [Next]_vars => (TypedInv /\ AllOpen)'
  BY NobodyFails, StepTyped, StepAsleep, StepOpen DEF TypedInv
<1>3. AllOpen => FailsOpenWithoutBundle
  BY DEF AllOpen, FailsOpenWithoutBundle
<1>. QED BY <1>1, <1>2, <1>3, PTL DEF Spec

----------------------------------------------------------------------------
\* The exclusions.  Both loops that build a list, splitCSV's and the one of
\* excludedNamespaces, go through their tokens one by one.

Adds(next, list, token, T) ==
    next \in Seq(T) /\ ToSet(next) = ToSet(list) \cup ({token} \ {Unset})

LEMMA OneToken ==
    ASSUME NEW T, NEW list \in Seq(T), NEW token \in T
    PROVE  /\ Adds(AppendGiven(list, token), list, token, T)
           /\ Adds(AppendNew(list, token), list, token, T)
<1>1. ASSUME token # Unset PROVE Adds(Append(list, token), list, token, T)
  <2>. DEFINE next == Append(list, token)
  <2>1. /\ DOMAIN next = 1 .. (Len(list) + 1)
        /\ \A i \in 1 .. (Len(list) + 1) : next[i] = IF i <= Len(list) THEN list[i] ELSE token
        /\ DOMAIN list = 1 .. Len(list) /\ Len(list) \in Nat
    OBVIOUS
  <2>2. \A i \in DOMAIN list : i \in DOMAIN next /\ next[i] = list[i]
    BY <2>1
  <2>3. Len(list) + 1 \in DOMAIN next /\ next[Len(list) + 1] = token
    BY <2>1
  <2>4. \A i \in DOMAIN next : (i \in DOMAIN list /\ next[i] = list[i]) \/ next[i] = token
    BY <2>1
  <2>. QED BY <1>1, <2>2, <2>3, <2>4 DEF ToSet, Adds
<1>2. ASSUME token = Unset \/ Contains(list, token) PROVE Adds(list, list, token, T)
  BY <1>2 DEF ToSet, Contains, Adds
<1>. QED BY <1>1, <1>2 DEF AppendGiven, AppendNew

Collects(result, list, seq, T) ==
    result \in Seq(T) /\ ToSet(result) = ToSet(list) \cup (ToSet(seq) \ {Unset})

StepByStep(h, list, seq) ==
    /\ h[0] = list
    /\ \A k \in 1 .. Len(seq) :
          h[k] \in {AppendGiven(h[k - 1], seq[k]), AppendNew(h[k - 1], seq[k])}

LEMMA AllTokens ==
    ASSUME NEW T, NEW list \in Seq(T), NEW seq \in Seq(T), NEW h, StepByStep(h, list, seq)
    PROVE  Collects(h[Len(seq)], list, seq, T)
<1>. DEFINE seen(k) == { seq[i] : i \in 1 .. k }
            right(k) == h[k] \in Seq(T) /\ ToSet(h[k]) = ToSet(list) \cup (seen(k) \ {Unset})
            A == { k \in Nat : k <= Len(seq) => right(k) }
<1>1. 0 \in A
  BY DEF StepByStep
<1>2. ASSUME NEW k \in Nat, k \in A, k + 1 <= Len(seq) PROVE right(k + 1)
  <2>. DEFINE old == h[k]
              token == seq[k + 1]
              next == h[k + 1]
  <2>1. Len(seq) \in Nat /\ k + 1 \in 1 .. Len(seq) /\ (k + 1) - 1 = k /\ k <= Len(seq)
    BY <1>2
  <2>2. right(k) /\ token \in T
    BY <1>2, <2>1
  <2>3. next \in {AppendGiven(old, token), AppendNew(old, token)}
    BY <2>1 DEF StepByStep
  <2>4. seen(k + 1) = seen(k) \cup {token}
    <3>1. 1 .. (k + 1) = (1 .. k) \cup {k + 1}
      OBVIOUS
    <3>. QED BY <3>1
  <2>5. old \in Seq(T) /\ ToSet(old) = ToSet(list) \cup (seen(k) \ {Unset})
    BY <2>2
  <2>. HIDE DEF old, token, next, seen
  <2>6. next \in Seq(T) /\ ToSet(next) = ToSet(old) \cup ({token} \ {Unset})
    <3>1. old \in Seq(T) /\ token \in T
      BY <2>2, <2>5
    <3>2. Adds(AppendGiven(old, token), old, token, T)
      BY <3>1, OneToken
    <3>3. Adds(AppendNew(old, token), old, token, T)
      BY <3>1, OneToken
    <3>. QED BY <2>3, <3>2, <3>3 DEF Adds
  <2>7. ToSet(next) = ToSet(list) \cup (seen(k + 1) \ {Unset})
    BY <2>4, <2>5, <2>6
  <2>. QED BY <2>6, <2>7 DEF next
<1>3. Len(seq) \in A
  <2>1. \A k \in Nat : k \in A => k + 1 \in A
    <3>. HIDE DEF right
    <3>. QED BY <1>2
  <2>2. Len(seq) \in Nat
    OBVIOUS
  <2>. HIDE DEF A
  <2>. QED BY <1>1, <2>1, <2>2, NatSet
<1>4. seen(Len(seq)) = ToSet(seq)
  BY DEF ToSet
<1>. QED BY <1>3, <1>4 DEF Collects

LEMMA SplitCollects ==
    ASSUME NEW T, NEW list \in Seq(T), NEW seq \in Seq(T)
    PROVE  Collects(FoldLeft(AppendGiven, list, seq), list, seq, T)
<1>. DEFINE V == Seq(T)
            D == DOMAIN seq
            F == [p \in V \X T |-> AppendGiven(p[1], p[2])]
            Step(g, s) == IF s = {} THEN list ELSE AppendGiven(g[s \ {Max(s)}], seq[Max(s)])
            fold == CHOOSE g : g = [s \in SUBSET D |-> Step(g, s)]
<1>1. F \in [V \X T -> V]
  BY DEF AppendGiven
<1>2. PICK it \in [SUBSET D -> V] : Takes(it, F, list, seq)
  <2>. HIDE DEF F
  <2>. QED BY <1>1, FoldLeftExists
<1>3. it = [s \in SUBSET D |-> Step(it, s)]
  <2>1. ASSUME NEW s \in SUBSET D PROVE it[s] = Step(it, s)
    <3>1. s # {} => seq[Max(s)] \in T
      BY LastOfIndices
    <3>. QED BY <1>2, <3>1 DEF Takes
  <2>. HIDE DEF Step
  <2>. QED BY <2>1
<1>4. fold = [s \in SUBSET D |-> Step(fold, s)]
  <2>. HIDE DEF Step
  <2>. QED BY <1>3
<1>5. FoldLeft(AppendGiven, list, seq) = fold[D]
  BY DEF FoldLeft, MapThenFoldSet
<1>. HIDE DEF fold
<1>6. fold[1 .. 0] = list
  BY <1>4
<1>7. ASSUME NEW k \in 1 .. Len(seq)
      PROVE  fold[1 .. k] = AppendGiven(fold[1 .. (k - 1)], seq[k])
  <2>1. Max(1 .. k) = k /\ (1 .. k) \ {k} = 1 .. (k - 1) /\ 1 .. k # {}
    BY LastOfIndices
  <2>2. 1 .. k \in SUBSET D
    OBVIOUS
  <2>. QED BY <1>4, <2>1, <2>2
<1>. DEFINE h == [k \in 0 .. Len(seq) |-> fold[1 .. k]]
<1>8. StepByStep(h, list, seq)
  BY <1>6, <1>7 DEF StepByStep
<1>9. h[Len(seq)] = fold[1 .. Len(seq)] /\ D = 1 .. Len(seq)
  OBVIOUS
<1>. HIDE DEF h
<1>10. Collects(h[Len(seq)], list, seq, T)
  BY <1>8, AllTokens
<1>. QED BY <1>5, <1>9, <1>10

LEMMA ExclusionsCollect ==
    ASSUME NEW T, NEW list \in Seq(T), NEW seq \in Seq(T)
    PROVE  Collects(FoldLeft(AppendNew, list, seq), list, seq, T)
<1>. DEFINE V == Seq(T)
            D == DOMAIN seq
            F == [p \in V \X T |-> AppendNew(p[1], p[2])]
            Step(g, s) == IF s = {} THEN list ELSE AppendNew(g[s \ {Max(s)}], seq[Max(s)])
            fold == CHOOSE g : g = [s \in SUBSET D |-> Step(g, s)]
<1>1. F \in [V \X T -> V]
  BY DEF AppendNew
<1>2. PICK it \in [SUBSET D -> V] : Takes(it, F, list, seq)
  <2>. HIDE DEF F
  <2>. QED BY <1>1, FoldLeftExists
<1>3. it = [s \in SUBSET D |-> Step(it, s)]
  <2>1. ASSUME NEW s \in SUBSET D PROVE it[s] = Step(it, s)
    <3>1. s # {} => seq[Max(s)] \in T
      BY LastOfIndices
    <3>. QED BY <1>2, <3>1 DEF Takes
  <2>. HIDE DEF Step
  <2>. QED BY <2>1
<1>4. fold = [s \in SUBSET D |-> Step(fold, s)]
  <2>. HIDE DEF Step
  <2>. QED BY <1>3
<1>5. FoldLeft(AppendNew, list, seq) = fold[D]
  BY DEF FoldLeft, MapThenFoldSet
<1>. HIDE DEF fold
<1>6. fold[1 .. 0] = list
  BY <1>4
<1>7. ASSUME NEW k \in 1 .. Len(seq)
      PROVE  fold[1 .. k] = AppendNew(fold[1 .. (k - 1)], seq[k])
  <2>1. Max(1 .. k) = k /\ (1 .. k) \ {k} = 1 .. (k - 1) /\ 1 .. k # {}
    BY LastOfIndices
  <2>2. 1 .. k \in SUBSET D
    OBVIOUS
  <2>. QED BY <1>4, <2>1, <2>2
<1>. DEFINE h == [k \in 0 .. Len(seq) |-> fold[1 .. k]]
<1>8. StepByStep(h, list, seq)
  BY <1>6, <1>7 DEF StepByStep
<1>9. h[Len(seq)] = fold[1 .. Len(seq)] /\ D = 1 .. Len(seq)
  OBVIOUS
<1>. HIDE DEF h
<1>10. Collects(h[Len(seq)], list, seq, T)
  BY <1>8, AllTokens
<1>. QED BY <1>5, <1>9, <1>10

(***************************************************************************)
(* The namespaces of the reconciler's entries are the ones out of scope.   *)
(***************************************************************************)
LEMMA SplitTokens ==
    ASSUME NEW T, NEW tokens \in Seq(T)
    PROVE  splitCSV(tokens) \in Seq(T) /\ ToSet(splitCSV(tokens)) = ToSet(tokens) \ {Unset}
<1>. DEFINE none == << >>
<1>1. none \in Seq(T) /\ ToSet(none) = {} /\ splitCSV(tokens) = FoldLeft(AppendGiven, none, tokens)
  BY DEF ToSet, splitCSV
<1>. HIDE DEF none
<1>. QED BY <1>1, SplitCollects DEF Collects

Names == STRING \cup {"kube-system", "kube-public", "kube-node-lease"}

LEMMA ThreeOf ==
    ASSUME NEW T, NEW x \in T, NEW y \in T, NEW z \in T
    PROVE  <<x, y, z>> \in Seq(T)
OBVIOUS

LEMMA ExclusionsAreOutOfScope ==
    ASSUME NEW d \in Deployments
    PROVE  LET excluded == excludedNamespaces(FlagsFor(d.flags))
           IN  excluded \in Seq(Names) /\ ToSet(excluded) = OutOfScope(d.flags)
<1>. DEFINE namespace == d.flags.namespace
            extras == d.flags.extraExcludedNamespaces
            tokens == <<namespace>> \o splitCSV(extras)
            excluded == FoldLeft(AppendNew, BuiltinExclusions, tokens)
<1>1. namespace \in Names /\ extras \in Seq(Names)
  <2>1. namespace \in STRING /\ extras \in Seq(STRING)
    BY ValuesAssumption DEF Settings
  <2>2. extras \in Seq(Names)
    BY <2>1 DEF Names
  <2>. QED BY <2>1, <2>2 DEF Names
<1>2. splitCSV(extras) \in Seq(Names) /\ ToSet(splitCSV(extras)) = ToSet(extras) \ {Unset}
  BY <1>1, SplitTokens
<1>3. excludedNamespaces(FlagsFor(d.flags)) = excluded
  <2>1. /\ FlagsFor(d.flags).namespace = namespace
        /\ FlagsFor(d.flags).extraExcludedNamespaces = splitCSV(extras)
    BY ValuesAssumption DEF FlagsFor, Settings
  <2>. QED BY <2>1 DEF excludedNamespaces
<1>4. tokens \in Seq(Names) /\ ToSet(tokens) = {namespace} \cup ToSet(splitCSV(extras))
  <2>. DEFINE split == splitCSV(extras)
  <2>1. split \in Seq(Names) /\ <<namespace>> \in Seq(Names)
    BY <1>1, <1>2
  <2>. HIDE DEF split, namespace
  <2>2. /\ <<namespace>> \o split \in Seq(Names)
        /\ Len(<<namespace>> \o split) = 1 + Len(split) /\ Len(split) \in Nat
        /\ \A i \in 1 .. (1 + Len(split)) :
              (<<namespace>> \o split)[i] = IF i <= 1 THEN namespace ELSE split[i - 1]
    BY <2>1
  <2>. DEFINE both == <<namespace>> \o split
  <2>3. DOMAIN both = 1 .. (1 + Len(split)) /\ DOMAIN split = 1 .. Len(split)
    BY <2>1, <2>2
  <2>4. both[1] = namespace /\ 1 \in DOMAIN both
    BY <2>2, <2>3
  <2>5. \A i \in DOMAIN split : i + 1 \in DOMAIN both /\ both[i + 1] = split[i]
    BY <2>2, <2>3
  <2>6. \A i \in DOMAIN both : both[i] = namespace \/ (i - 1 \in DOMAIN split /\ both[i] = split[i - 1])
    BY <2>2, <2>3
  <2>7. ToSet(both) = {namespace} \cup ToSet(split)
    <3>. HIDE DEF both
    <3>. QED BY <2>4, <2>5, <2>6 DEF ToSet
  <2>. QED BY <2>2, <2>7 DEF split
<1>5. BuiltinExclusions \in Seq(Names)
  <2>1. "kube-system" \in Names /\ "kube-public" \in Names /\ "kube-node-lease" \in Names
    BY DEF Names
  <2>. HIDE DEF Names
  <2>. QED BY <2>1, ThreeOf DEF BuiltinExclusions
<1>6. excluded \in Seq(Names)
      /\ ToSet(excluded) = ToSet(BuiltinExclusions) \cup (ToSet(tokens) \ {Unset})
  <2>. HIDE DEF tokens
  <2>. QED BY <1>4, <1>5, ExclusionsCollect DEF Collects
<1>7. Unset \notin ToSet(BuiltinExclusions)
  <2>1. Unset # "kube-system" /\ Unset # "kube-public" /\ Unset # "kube-node-lease"
    BY Zenon DEF Unset
  <2>2. ToSet(BuiltinExclusions) = {"kube-system", "kube-public", "kube-node-lease"}
    BY DEF ToSet, BuiltinExclusions
  <2>. QED BY <2>1, <2>2
<1>. QED BY <1>2, <1>3, <1>4, <1>6, <1>7 DEF OutOfScope

(***************************************************************************)
(* An applied entry says what the flags say in the fields that decide      *)
(* which requests are sent.                                                *)
(***************************************************************************)
LEMMA AppliedFields ==
    ASSUME NEW annotated, NEW d \in Deployments, NEW name \in EntryNames
    PROVE  LET entry == Applied(annotated, OwnEntries[d], Declared).webhooks[name]
           IN  /\ entry.operations = wildcardRules
               /\ entry.excluded = excludedNamespaces(FlagsFor(d.flags))
               /\ entry.label = LabelOf[name]
               /\ entry.notGroups = ExcludedGroups
<1>. DEFINE own == OwnEntries[d][name]
            entry == Applied(annotated, OwnEntries[d], Declared).webhooks[name]
<1>1. {"operations", "excluded", "label", "notGroups"} \subseteq Declared \cap Fields
  BY DEF Declared, Fields, Default
<1>2. \A f \in Declared \cap Fields : entry[f] = own[f]
  BY AppliedEntries
<1>3. own = buildWebhookEntry(FlagsFor(d.flags), name)
  BY DEF OwnEntries
<1>4. /\ own.operations = wildcardRules /\ own.excluded = excludedNamespaces(FlagsFor(d.flags))
      /\ own.label = LabelOf[name] /\ own.notGroups = ExcludedGroups
  BY <1>3 DEF buildWebhookEntry, matchConditions
<1>. HIDE DEF own, entry
<1>5. /\ entry.operations = own.operations /\ entry.excluded = own.excluded
      /\ entry.label = own.label /\ entry.notGroups = own.notGroups
  BY <1>1, <1>2
<1>. QED BY <1>4, <1>5 DEF entry

LEMMA SentExactly ==
    ASSUME NEW annotated, NEW d \in Deployments, NEW namespaces, NEW request \in Requests(namespaces)
    PROVE  (\E name \in EntryNames :
                Intercepts(Applied(annotated, OwnEntries[d], Declared).webhooks[name], request))
               <=> MustIntercept(request, d.flags)
<1>. DEFINE entry(name) == Applied(annotated, OwnEntries[d], Declared).webhooks[name]
            excluded == excludedNamespaces(FlagsFor(d.flags))
<1>1. /\ request.op \in wildcardRules
      /\ request.labels \subseteq {KustomizeLabelName, HelmLabelName}
  BY DEF Requests, wildcardRules
<1>2. Contains(excluded, request.namespace) <=> request.namespace \in OutOfScope(d.flags)
  <2>1. excluded \in Seq(Names) /\ ToSet(excluded) = OutOfScope(d.flags)
    BY ExclusionsAreOutOfScope
  <2>. HIDE DEF excluded
  <2>2. DOMAIN excluded = 1 .. Len(excluded)
    BY <2>1
  <2>. QED BY <2>1, <2>2 DEF Contains, ToSet
<1>3. \A name \in EntryNames : LabelOf[name] # Unset
  <2>1. KustomizeLabelName # Unset
    BY Zenon DEF KustomizeLabelName, Unset
  <2>2. HelmLabelName # Unset
    BY Zenon DEF HelmLabelName, Unset
  <2>. QED BY <2>1, <2>2 DEF LabelOf
<1>4. ASSUME NEW name \in EntryNames
      PROVE  Intercepts(entry(name), request) <=>
                /\ LabelOf[name] \in request.labels
                /\ request.namespace \notin OutOfScope(d.flags)
                /\ request.group \notin ExcludedGroups
  <2>. DEFINE stored_ == entry(name)
  <2>1. /\ stored_.operations = wildcardRules /\ stored_.excluded = excluded
        /\ stored_.label = LabelOf[name] /\ stored_.notGroups = ExcludedGroups
    BY AppliedFields
  <2>. HIDE DEF stored_, excluded
  <2>2. Intercepts(stored_, request) <=>
           /\ LabelOf[name] \in request.labels
           /\ request.namespace \notin OutOfScope(d.flags)
           /\ request.group \notin ExcludedGroups
    BY <1>1, <1>2, <1>3, <2>1 DEF Intercepts
  <2>. QED BY <2>2 DEF stored_
<1>5. (\E name \in EntryNames : LabelOf[name] \in request.labels) <=> request.labels # {}
  <2>1. /\ "kustomize" \in EntryNames /\ LabelOf["kustomize"] = KustomizeLabelName
        /\ "helm" \in EntryNames /\ LabelOf["helm"] = HelmLabelName
    BY DEF EntryNames, LabelOf
  <2>. QED BY <1>1, <2>1
<1>. HIDE DEF entry
<1>6. (\E name \in EntryNames : Intercepts(entry(name), request))
         <=> MustIntercept(request, d.flags)
  BY <1>4, <1>5 DEF MustIntercept
<1>. QED BY <1>6 DEF entry

(***************************************************************************)
(* Whatever was stored and whoever wrote it, a reconcile that succeeds     *)
(* leaves a configuration that sends the webhook exactly the writes it has *)
(* to see, for the flags the leader runs with: every operation on a        *)
(* Flux-labelled object, in any namespace that is not excluded             *)
(* (excludedNamespaces, buildWebhookEntry).                                *)
(***************************************************************************)
THEOREM EveryFluxWriteIsSent == Spec => InterceptsFluxWrites
<1>. DEFINE Sends ==
       pc = "apply" /\ pc' = "report" =>
          \A request \in Requests(ProbeNamespaces(leader.flags)) :
             (\E name \in EntryNames : Intercepts(stored'.webhooks[name], request))
                <=> MustIntercept(request, leader.flags)
<1>1. TypedInv /\ [Next]_vars => [Sends]_vars
  <2>. SUFFICES ASSUME TypedInv, Next, pc = "apply", pc' = "report",
                       NEW request \in Requests(ProbeNamespaces(leader.flags))
                PROVE  (\E name \in EntryNames : Intercepts(stored'.webhooks[name], request))
                          <=> MustIntercept(request, leader.flags)
    OBVIOUS
  <2>1. Apply
    BY DEF Next, ManifestApplied, Inject, Deleted, Edited, Rollout, LeaderLost, Replaced, Stop,
           Elect, Deliver, Get, GetFails, Idle, ApplyFails, ReturnError, Report, Due, loop, api
  <2>2. leader \in Deployments
    BY DEF TypedInv, TypeOK, Asleep
  <2>3. stored' = Applied(FALSE, OwnEntries[leader], Declared)
    BY <2>1 DEF Apply, Reassert, Store
  <2>. QED BY <2>2, <2>3, SentExactly
<1>2. Init => TypedInv
  BY InitTyped DEF TypedInv, Asleep, Init
<1>3. TypedInv /\ [Next]_vars => TypedInv'
  BY StepTyped, StepAsleep DEF TypedInv
<1>. QED BY <1>1, <1>2, <1>3, PTL DEF Spec, InterceptsFluxWrites
=============================================================================
