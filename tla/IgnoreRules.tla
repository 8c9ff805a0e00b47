----------------------------- MODULE IgnoreRules ----------------------------
(***************************************************************************)
(* The evaluation of a Kustomization's .spec.ignore for one object, as     *)
(* driftIgnoreSet runs it for an update it would otherwise deny: parse the *)
(* entries, find the rules whose target selects the object, and collect    *)
(* their paths.  A target is what its matchers say of that object; the     *)
(* order in which the five patterns are asked is that of a Go map.         *)
(***************************************************************************)
EXTENDS Naturals, Sequences

CONSTANTS
    Patterns,    \* group, version, kind, name, namespace: anchored expressions
    Pointers,    \* the field paths a valid pointer stands for
    Root,        \* the one of the empty pointer
    Invalid,     \* a pointer that does not start with a slash
    Entries,     \* what an entry of .spec.ignore may be
    MaxEntries   \* bound: entries of an owner

Selectors == {"labelSelector", "annotationSelector"}
Verdicts == {"match", "mismatch", "malformed"}

ASSUME EntriesAssumption ==
    /\ Patterns \cap Selectors = {} /\ Root \in Pointers /\ Invalid \notin Pointers
    /\ \A entry \in Entries :
          /\ entry.isMap \in BOOLEAN /\ entry.paths \subseteq Pointers \cup {Invalid}
          /\ entry.target \in [Patterns \cup Selectors -> Verdicts]

VARIABLES
    owner,    \* the owner as cached: its kind, whether it is found, its entries
    at,       \* the entry ignoreSetForObject looks at
    ignoreSet,\* the set it has collected
    pc        \* "ask", "rules", then "done", or "failed" after an error

rulesVars == <<owner, at, ignoreSet, pc>>

Owners ==
    [kind : {"Kustomization", "HelmRelease"}, found : BOOLEAN,
     entries : UNION { [1 .. n -> Entries] : n \in 0 .. MaxEntries }]

RulesInit == owner \in Owners /\ at = 1 /\ ignoreSet = {} /\ pc = "ask"

\* driftIgnoreSet: only a Kustomization that can be read has rules.
Ask ==
    /\ pc = "ask"
    /\ pc' = IF owner.kind = "Kustomization" /\ owner.found THEN "rules" ELSE "done"
    /\ UNCHANGED <<owner, at, ignoreSet>>

Current == owner.entries[at]
More == pc = "rules" /\ at <= Len(owner.entries)

\* parseIgnoreRules passes over an entry that is no map or has no paths.
Usable(entry) == entry.isMap /\ entry.paths # {}

Skip ==
    /\ More /\ ~Usable(Current)
    /\ at' = at + 1 /\ UNCHANGED <<owner, ignoreSet, pc>>

\* What ruleMatchesObject may answer: the first pattern that does not match
\* decides, whichever that is; the selectors follow in their order.
\* Mutant: the selectors are forgotten.
PatternsOnly(target) ==
    LET stopping == { key \in Patterns : target[key] # "match" }
    IN  IF stopping = {} THEN {"match"} ELSE { target[key] : key \in stopping }
ruleMatchesObject(target) ==
    LET stopping == { key \in Patterns : target[key] # "match" }
    IN  IF stopping # {} THEN { target[key] : key \in stopping }
        ELSE IF target["labelSelector"] # "match" THEN { target["labelSelector"] }
        ELSE { target["annotationSelector"] }

Fail == ignoreSet' = {} /\ pc' = "failed" /\ UNCHANGED <<owner, at>>

\* A matching rule: an invalid pointer fails the whole evaluation; Set.Insert
\* takes no empty path.
\* Mutant: the pointers that are valid count.
InsertValid ==
    /\ ignoreSet' = ignoreSet \cup (Current.paths \ {Root, Invalid})
    /\ at' = at + 1 /\ UNCHANGED <<owner, pc>>
InsertPaths ==
    IF Invalid \in Current.paths THEN Fail
    ELSE /\ ignoreSet' = ignoreSet \cup (Current.paths \ {Root})
         /\ at' = at + 1 /\ UNCHANGED <<owner, pc>>

\* Mutant: the first rule for another object ends the loop.
StopLooking == pc' = "done" /\ UNCHANGED <<owner, at, ignoreSet>>
NextRule == at' = at + 1 /\ UNCHANGED <<owner, ignoreSet, pc>>

Rule ==
    /\ More /\ Usable(Current)
    /\ \E verdict \in ruleMatchesObject(Current.target) :
          \/ verdict = "malformed" /\ Fail
          \/ verdict = "mismatch" /\ NextRule
          \/ verdict = "match" /\ InsertPaths

Return ==
    /\ pc = "rules" /\ ~More
    /\ pc' = "done" /\ UNCHANGED <<owner, at, ignoreSet>>

RulesNext == Ask \/ Skip \/ Rule \/ Return

RulesSpec == RulesInit /\ [][RulesNext]_rulesVars

----------------------------------------------------------------------------
\* An owner's rules, and what their targets say as a whole.
Rules == { owner.entries[i] : i \in { j \in DOMAIN owner.entries : Usable(owner.entries[j]) } }
Says(rule, verdict) == \E key \in DOMAIN rule.target : rule.target[key] = verdict
Selected(rule) == ~Says(rule, "mismatch") /\ ~Says(rule, "malformed")
Faulty(rule) == Says(rule, "malformed") \/ Invalid \in rule.paths

Ended == pc \in {"done", "failed"}

(***************************************************************************)
(* Every waived path stands in a rule that selects this object without     *)
(* doubt, of a Kustomization that could be read, whatever order the        *)
(* patterns are asked in (driftIgnoreSet, ignoreSetForObject).             *)
(***************************************************************************)
WaivesOnlySelected ==
    \A path \in ignoreSet :
        /\ owner.kind = "Kustomization" /\ owner.found
        /\ \E rule \in Rules : Selected(rule) /\ path \in rule.paths

(***************************************************************************)
(* A faulty rule that nothing says is for another object takes every       *)
(* waiver with it, those of sound rules before it included                 *)
(* (ignoreSetForObject: "Fails closed").                                   *)
(***************************************************************************)
FailsClosed ==
    Ended /\ (\E rule \in Rules : Faulty(rule) /\ ~Says(rule, "mismatch")) => ignoreSet = {}

(***************************************************************************)
(* Without an error no selecting rule is lost: not behind a rule for       *)
(* another object, not behind an unusable entry (ignoreSetForObject: "the  *)
(* union ... from every ignore rule whose target matches the object").     *)
(***************************************************************************)
EveryRuleCounts ==
    pc = "done" /\ owner.kind = "Kustomization" /\ owner.found =>
        \A rule \in Rules : Selected(rule) => rule.paths \ {Root} \subseteq ignoreSet
=============================================================================
