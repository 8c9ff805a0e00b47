----------------------------- MODULE MCFunctions ----------------------------
(***************************************************************************)
(* One run for the code that computes an answer from its input and keeps   *)
(* no state between calls: the field algebra, the pointers and the rules   *)
(* of .spec.ignore, the transform of the informer cache, the allow-list    *)
(* and the configuration.  A behaviour is about one of them, its subject;  *)
(* the others stay as they are.                                            *)
(***************************************************************************)
EXTENDS FieldWalk, IgnorePointers, IgnoreRules, OwnerCache, AllowList, StartupConfig, TLC

VARIABLE subject

pointerVars == <<ptr>>
MCVars == <<subject, walkVars, pointerVars, rulesVars, cacheVars, allowVars, configVars>>

About(name, init, rest) == IF subject = name THEN init ELSE rest

MCInit ==
    /\ subject \in {"fields", "pointers", "rules", "cache", "allow-list", "configuration"}
    /\ About("fields", WalkInit,
             old = Empty /\ new = Empty /\ flux = {} /\ ignore = {})
    /\ About("pointers", PointerInit, ptr = << >>)
    /\ About("rules", RulesInit,
             /\ owner = [kind |-> "HelmRelease", found |-> FALSE, entries |-> << >>]
             /\ at = 1 /\ ignoreSet = {} /\ pc = "ask")
    /\ About("cache", CacheInit,
             /\ server = [kind |-> "Namespace", deleting |-> FALSE, managedFields |-> FALSE,
                          spec |-> NoSection, status |-> NoSection]
             /\ store = Nothing)
    /\ About("allow-list", AllowInit, flag = {} /\ running = FALSE /\ entries = {})
    /\ About("configuration", ConfigInit,
             chart = Manual /\ env = NoVariables /\ flags = << >> /\ outcome = Starting)

MCNext ==
    \/ /\ subject = "fields" /\ WalkNext
       /\ UNCHANGED <<subject, pointerVars, rulesVars, cacheVars, allowVars, configVars>>
    \/ /\ subject = "pointers" /\ PointerNext
       /\ UNCHANGED <<subject, walkVars, rulesVars, cacheVars, allowVars, configVars>>
    \/ /\ subject = "rules" /\ RulesNext
       /\ UNCHANGED <<subject, walkVars, pointerVars, cacheVars, allowVars, configVars>>
    \/ /\ subject = "cache" /\ CacheNext
       /\ UNCHANGED <<subject, walkVars, pointerVars, rulesVars, allowVars, configVars>>
    \/ /\ subject = "allow-list" /\ AllowNext
       /\ UNCHANGED <<subject, walkVars, pointerVars, rulesVars, cacheVars, configVars>>
    \/ /\ subject = "configuration" /\ ConfigNext
       /\ UNCHANGED <<subject, walkVars, pointerVars, rulesVars, cacheVars, allowVars>>

MCSpec == MCInit /\ [][MCNext]_MCVars

----------------------------------------------------------------------------
\* The documents: a list with two members; a leaf that may become a map, whose
\* key, at the depth bound, may become one too.
app == <<"spec", "containers", "app">>
proxy == <<"spec", "containers", "proxy">>
selector == <<"spec", "selector">>
selectorKey == <<"spec", "selector", "k">>
deep == <<"spec", "selector", "k", "z">>

MCElements == {"spec", "containers", "app", "proxy", "selector", "k", "z"}
MCLeaves == {app, proxy, selector, selectorKey, deep}
MCListPaths == {<<"spec", "containers">>}

\* Flux inside the list and below a leaf that may become a map; at that leaf
\* and below the depth bound; at an interior path.
MCFluxSets == { {app, selectorKey}, {selector, deep}, {<<"spec">>} }

\* Nothing, the list, a member of it (which can never waive) and a map.
MCIgnoreSets == { {}, {<<"spec", "containers">>}, {app, selector} }

----------------------------------------------------------------------------
\* The rules of .spec.ignore.
MCPatterns == {"group", "version", "kind", "name", "namespace"}

\* A target whose matchers match but for some.
Target(verdicts) ==
    [key \in MCPatterns \cup Selectors |->
        IF key \in DOMAIN verdicts THEN verdicts[key] ELSE "match"]

MCTargets ==
    { Target(verdicts) : verdicts \in
        { << >> } \cup UNION { [keys -> {"mismatch", "malformed"}] :
            keys \in { {"kind"}, {"annotationSelector"}, {"kind", "name"}, {"name", "labelSelector"} } } }

\* One path per rule is enough to tell the rules apart; some have two, some none.
MCPaths == { {}, {"replicas"}, {"image"}, {"image", Invalid}, {"image", Root}, {Root} }

MCEntries ==
    [isMap : {TRUE}, paths : MCPaths, target : MCTargets]
        \cup [isMap : {FALSE}, paths : { {"image"} }, target : { Target(<< >>) }]

----------------------------------------------------------------------------
\* Durations as they are written, and their seconds.
MCDurations == "0s" :> 0 @@ "1m" :> 60
=============================================================================
