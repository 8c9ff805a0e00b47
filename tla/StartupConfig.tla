--------------------------- MODULE StartupConfig ----------------------------
(***************************************************************************)
(* What main makes of its environment and its flags, before it builds the  *)
(* manager, for the settings that several sources may give or that a check *)
(* may refuse (cmd/webhook/main.go), and the flags the chart passes for    *)
(* the values it also writes into the manifest.                            *)
(***************************************************************************)
EXTENDS Integers, Sequences

CONSTANTS
    Durations,        \* durations as they are written, with their seconds
    Policies,         \* values given for the failure policy
    Timeouts,         \* values given for --webhook-timeout
    DefaultInterval   \* config.DefaultVWCResyncInterval, seconds

\* Not given: an empty variable, a flag that is not set.
Unset == ""
Typo == "malformed"
Given(values) == values \cup {Unset}
Texts == Given(DOMAIN Durations \cup {Typo})

ASSUME ConfigAssumption == Typo \notin DOMAIN Durations

VARIABLES
    chart,    \* the values of the release, or Manual
    env,      \* environment variables
    flags,    \* what the command line sets
    outcome   \* "starting", "exited", or the settings main goes on with

configVars == <<chart, env, flags, outcome>>

Exited == [state |-> "exited"]
Starting == [state |-> "starting"]
Manual == [by |-> "hand"]

Env == [vwcResyncInterval : Texts, discoveryInterval : Texts, failurePolicy : Given(Policies)]
Flags == [vwcResyncInterval : Texts, discoveryInterval : Texts, failurePolicy : Given(Policies),
          webhookTimeout : Timeouts, namespaceLabel : BOOLEAN, namespaceLabelValue : BOOLEAN]

ChartValues ==
    [by : {"helm"}, failurePolicy : {"Ignore", "Fail"}, timeoutSeconds : Timeouts \cap 1 .. 30,
     vwcResyncInterval : Given(DOMAIN Durations), discoveryInterval : Given(DOMAIN Durations)]

\* {{ default a b }} and cmp.Or: the first that is given.
Or(a, b) == IF a # Unset THEN a ELSE b

\* deployment.yaml leaves a flag out when the value is main's default.
\* Mutant: the alias of the value is passed as the alias of the flag.
ChartPassesAlias(values) == values.vwcResyncInterval
ChartInterval(values) == Or(values.vwcResyncInterval, values.discoveryInterval)

ChartFlags(values) ==
    [vwcResyncInterval |-> ChartInterval(values), discoveryInterval |-> Unset,
     failurePolicy |-> IF values.failurePolicy = "Ignore" THEN Unset ELSE values.failurePolicy,
     webhookTimeout |-> values.timeoutSeconds,   \* 3, left out, is main's default
     namespaceLabel |-> FALSE, namespaceLabelValue |-> FALSE]

NoVariables == [name \in {"vwcResyncInterval", "discoveryInterval", "failurePolicy"} |-> Unset]

ConfigInit ==
    /\ \/ chart = Manual /\ env \in Env /\ flags \in Flags
       \/ /\ chart \in ChartValues /\ flags = ChartFlags(chart)
          /\ env = NoVariables
    /\ outcome = Starting

----------------------------------------------------------------------------
\* getEnvDuration returns an error, or the seconds.
Readable(text) == text # Typo
getEnvDuration(text, default) == IF text = Unset THEN default ELSE Durations[text]

resyncIntervalAccepted(e) == Readable(e.discoveryInterval) /\ Readable(e.vwcResyncInterval)
resyncIntervalDefault(e) ==
    getEnvDuration(e.vwcResyncInterval, getEnvDuration(e.discoveryInterval, DefaultInterval))

\* Mutant: the alias overrides the flag (before 1.0).
AliasOverrides(f) == f.discoveryInterval # Unset
UseAlias(f) == f.discoveryInterval # Unset /\ f.vwcResyncInterval = Unset

vwcResyncInterval(e, f) ==
    LET given == IF UseAlias(f) THEN f.discoveryInterval ELSE f.vwcResyncInterval
    IN  getEnvDuration(given, resyncIntervalDefault(e))

failurePolicy(e, f) == Or(f.failurePolicy, Or(e.failurePolicy, "Ignore"))
parseFailurePolicy(policy) == policy \in {"Ignore", "Fail"}

Accepted(e, f) ==
    /\ resyncIntervalAccepted(e)
    /\ Readable(f.vwcResyncInterval) /\ Readable(f.discoveryInterval)  \* flag.Parse
    /\ f.namespaceLabelValue => f.namespaceLabel
    /\ parseFailurePolicy(failurePolicy(e, f))
    /\ f.webhookTimeout \in 1 .. 30

Settings(e, f) ==
    [state |-> "started", interval |-> vwcResyncInterval(e, f),
     failurePolicy |-> failurePolicy(e, f), timeout |-> f.webhookTimeout]

Configure ==
    /\ outcome = Starting
    /\ outcome' = IF Accepted(env, flags) THEN Settings(env, flags) ELSE Exited
    /\ UNCHANGED <<chart, env, flags>>

ConfigNext == Configure

ConfigSpec == ConfigInit /\ [][ConfigNext]_configVars
----------------------------------------------------------------------------
Started == outcome.state = "started"

(***************************************************************************)
(* The interval comes from the most explicit source that gives one: the    *)
(* flag, its deprecated alias, the variable, its deprecated alias, the     *)
(* default (main, "a leftover --discovery-interval").  And no process      *)
(* starts with a duration it could not read, even one that another source  *)
(* overrides ("a typo silently falling back to a default is worse than a   *)
(* crash").                                                                *)
(***************************************************************************)
IntervalSources ==
    << flags.vwcResyncInterval, flags.discoveryInterval,
       env.vwcResyncInterval, env.discoveryInterval >>
IntervalPrecedence ==
    Started =>
        /\ \A i \in 1 .. 4 : IntervalSources[i] # Typo
        /\ IF \A i \in 1 .. 4 : IntervalSources[i] = Unset THEN outcome.interval = DefaultInterval
           ELSE \E i \in 1 .. 4 :
                   /\ IntervalSources[i] # Unset
                   /\ \A j \in 1 .. i - 1 : IntervalSources[j] = Unset
                   /\ outcome.interval = Durations[IntervalSources[i]]

(***************************************************************************)
(* A released chart starts, and the controller it starts applies the       *)
(* failure policy, the timeout and the interval of the values the manifest *)
(* was rendered from (the --failure-policy flag: "must match the deployed  *)
(* manifest or the two SSA appliers churn").                               *)
(***************************************************************************)
ChartAgrees ==
    chart # Manual /\ outcome # Starting =>
        /\ Started
        /\ outcome.failurePolicy = chart.failurePolicy
        /\ outcome.timeout = chart.timeoutSeconds
        /\ outcome.interval =
              LET given == Or(chart.vwcResyncInterval, chart.discoveryInterval)
              IN  IF given = Unset THEN DefaultInterval ELSE Durations[given]
=============================================================================
