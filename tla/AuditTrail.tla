----------------------------- MODULE AuditTrail -----------------------------
(***************************************************************************)
(* The handler's metrics, which an audit-only rollout is decided by        *)
(* (internal/metrics/metrics.go and the places of handler.go that record). *)
(* Calls run concurrently, a scrape may fall between any two increments,   *)
(* and the handler goes on with a call the API server no longer waits for: *)
(* its context is then cancelled, so nothing it reads blocks any more.     *)
(***************************************************************************)
EXTENDS HandlerDecisions, FiniteSets

CONSTANTS
    None,
    Slots,            \* calls in progress
    RequestPool,      \* the requests considered, with whether their API group is excluded
    OwnerStates,      \* [sa, ignore, inventory] of the owner a read may find
    AuditOnly,        \* --audit-only
    FetchTimeout,     \* half-seconds a read of the cache may block
    WebhookTimeout,   \* half-seconds the API server waits
    MaxCalls          \* bound: requests received

\* The upper bounds of the histogram, in half-seconds: 0.5, 1, 2.5, 5 and 10 s,
\* whatever the timeouts are.  The seven below them are shorter than a tick.
Buckets == {1, 2, 5, 10, 20}

Decisions ==
    { Allow(reason) : reason \in AllowedReasons } \cup { Deny(reason) : reason \in DeniedReasons }
        \cup { Await(read) : read \in OwnerReads \cup NamespaceReads }
DecisionReasons == AllowedReasons \cup DeniedReasons

\* Where a call is: in a read, at one of the early returns, in buildResponse
\* before either counter or between the two, at the end.
EarlyReturns == {"subresource", "group", "scope", "unmanaged"}
Places == EarlyReturns \cup {"read", "buildResponse", "denial", "respond"}

Calls ==
    [req : RequestPool, decision : Decisions, pc : Places,
     waited : 0 .. WebhookTimeout, timer : 0 .. WebhookTimeout, late : BOOLEAN]

ASSUME AuditAssumption ==
    /\ AuditOnly \in BOOLEAN
    /\ {FetchTimeout, WebhookTimeout, MaxCalls} \subseteq Nat
    /\ None \notin Calls

VARIABLES
    calls,         \* per slot: the call, or None
    requests,      \* flux_drift_webhook_requests_total by decision
    denials,       \* flux_drift_webhook_denials_total
    conflicts,     \* flux_drift_webhook_ownership_conflicts_total
    latency,       \* flux_drift_webhook_latency_seconds: the cumulative buckets
    answered       \* history: responses written, by decision; those that deny or warn,
                   \* those nobody awaits

metrics == <<requests, denials, conflicts, latency>>
vars == <<calls, metrics, answered>>

NamespaceStates == [labelled : BOOLEAN, terminating : BOOLEAN]

Init ==
    /\ calls = [s \in Slots |-> None]
    /\ requests = [reason \in DecisionReasons |-> 0]
    /\ denials = 0 /\ conflicts = 0
    /\ latency = [count |-> 0, le |-> [b \in Buckets |-> 0]]
    /\ answered = [all |-> 0, by |-> [reason \in DecisionReasons |-> 0],
                   blocked |-> 0, late |-> 0]

InProgress == { s \in Slots : calls[s] # None }

----------------------------------------------------------------------------
\* What Handle decides, of an object of any group.
Excluded(req) == ExcludedGroup \/ req.excluded
Entry(req) ==
    IF req.excluded /\ ~req.subresource THEN Allow("allowed_excluded_group") ELSE Handle(req)

\* Where Handle returns with it: the management gate and all that follows it,
\* the whole of Handle, and the rest of it after a read.
GatePlace(req) ==
    IF req.fault # "metadata" /\ ~FluxInfo(req).isManaged THEN "unmanaged" ELSE "buildResponse"

EntryPlace(req) ==
    IF req.subresource THEN "subresource"
    ELSE IF Excluded(req) THEN "group"
    ELSE IF Namespace = "excluded" THEN "scope"
    ELSE GatePlace(req)

ResumePlace(step, req, found, namespace) ==
    IF step # "scope" THEN "buildResponse"
    ELSE IF found /\ ~namespace.labelled THEN "scope"
    ELSE GatePlace(req)

At(place, decision) == IF decision.step = "decided" THEN place ELSE "read"

\* The first two checks of Handle return before the timer starts.
Untimed(req) == req.subresource \/ Excluded(req)

\* RecordOwnershipConflict, in checkFluxOwnership.
OwnershipConflicts(decision) ==
    IF decision.reason = "denied_wrong_flux_controller" THEN 1 ELSE 0

Receive(s) ==
    /\ calls[s] = None /\ answered.all + Cardinality(InProgress) < MaxCalls
    /\ \E req \in RequestPool :
          /\ calls' = [calls EXCEPT ![s] =
                [req |-> req, decision |-> Entry(req), pc |-> At(EntryPlace(req), Entry(req)),
                 waited |-> 0, timer |-> 0, late |-> FALSE]]
          /\ conflicts' = conflicts + OwnershipConflicts(Entry(req))
    /\ UNCHANGED <<requests, denials, latency, answered>>

----------------------------------------------------------------------------
\* Mutant: the timer starts after the namespace scope.
TimedAfterScope(step, blocked) == IF step = "scope" THEN 0 ELSE blocked
Timed(step, blocked) == blocked

\* The read a call is in comes back after so long, the API server still there
\* or gone.
Returned(s, found, blocked, late) ==
    LET call == calls[s]
        step == call.decision.step
    IN  /\ call.pc = "read" /\ call.waited + blocked <= WebhookTimeout
        /\ \E owner \in OwnerStates, namespace \in NamespaceStates :
              LET decision == Resume(step, call.req, found, owner, namespace)
                  place == ResumePlace(step, call.req, found, namespace)
              IN  /\ calls' = [calls EXCEPT ![s] =
                        [call EXCEPT !.decision = decision, !.pc = At(place, decision),
                                     !.late = late, !.waited = @ + blocked,
                                     !.timer = @ + Timed(step, blocked)]]
                  /\ conflicts' = conflicts + OwnershipConflicts(decision)
        /\ UNCHANGED <<requests, denials, latency, answered>>

\* A read takes any time below its own timeout, and none once the context is
\* cancelled.
Read(s) ==
    /\ calls[s] # None
    /\ \E found \in BOOLEAN, blocked \in 0 .. FetchTimeout :
          /\ blocked < FetchTimeout /\ (calls[s].late => blocked = 0)
          /\ Returned(s, found, blocked, calls[s].late)

\* The timeout of getOwner or of the namespace lookup ends the read.
ReadTimesOut(s) ==
    /\ calls[s] # None /\ ~calls[s].late
    /\ Returned(s, FALSE, FetchTimeout, FALSE)

\* The API server gives up during the read, which ends with the context.
ReadCancelled(s) ==
    /\ calls[s] # None /\ ~calls[s].late
    /\ WebhookTimeout - calls[s].waited <= FetchTimeout
    /\ Returned(s, FALSE, WebhookTimeout - calls[s].waited, TRUE)

----------------------------------------------------------------------------
\* Every place that records is an action of its own.
Moves(s, from, to) ==
    calls[s] # None /\ calls[s].pc = from /\ calls' = [calls EXCEPT ![s].pc = to]

RecordRequest(reason) ==
    /\ requests' = [requests EXCEPT ![reason] = @ + 1]
    /\ UNCHANGED <<denials, conflicts, latency, answered>>

SubresourceReturn(s) ==
    Moves(s, "subresource", "respond") /\ RecordRequest("allowed_subresource")

ExcludedGroupReturn(s) ==
    Moves(s, "group", "respond") /\ RecordRequest("allowed_excluded_group")

ScopeReturn(s) ==
    Moves(s, "scope", "respond") /\ RecordRequest("allowed_namespace_filter")

\* Mutant: the return goes through buildResponse as well, which records again.
ThroughBuildResponse(s) ==
    Moves(s, "unmanaged", "buildResponse") /\ RecordRequest("allowed_not_managed")
UnmanagedReturn(s) ==
    Moves(s, "unmanaged", "respond") /\ RecordRequest("allowed_not_managed")

buildResponse(s) ==
    Moves(s, "buildResponse", "denial") /\ RecordRequest(calls[s].decision.reason)

\* Mutant: RecordDenial after the return for audit-only.
UnlessAudited(decision) == IF decision.allowed \/ AuditOnly THEN 0 ELSE 1
RecordDenial(decision) == IF decision.allowed THEN 0 ELSE 1

CountDenial(s) ==
    /\ Moves(s, "denial", "respond")
    /\ denials' = denials + RecordDenial(calls[s].decision)
    /\ UNCHANGED <<requests, conflicts, latency, answered>>

\* A histogram counts an observation in every bucket whose bound it is within.
ObserveDuration(timer) ==
    [count |-> latency.count + 1,
     le |-> [b \in Buckets |-> latency.le[b] + (IF timer <= b THEN 1 ELSE 0)]]

\* The deferred timer is observed, and the response written.
Respond(s) ==
    LET call == calls[s]
        one(holds) == IF holds THEN 1 ELSE 0
    IN  /\ call # None /\ call.pc = "respond"
        /\ latency' = IF Untimed(call.req) THEN latency ELSE ObserveDuration(call.timer)
        /\ answered' = [all |-> answered.all + 1,
                        by |-> [answered.by EXCEPT ![call.decision.reason] = @ + 1],
                        blocked |-> answered.blocked + one(~call.decision.allowed),
                        late |-> answered.late + one(call.late)]
        /\ calls' = [calls EXCEPT ![s] = None]
        /\ UNCHANGED <<requests, denials, conflicts>>

Next ==
    \E s \in Slots :
        \/ Receive(s) \/ Read(s) \/ ReadTimesOut(s) \/ ReadCancelled(s)
        \/ SubresourceReturn(s) \/ ExcludedGroupReturn(s) \/ ScopeReturn(s) \/ UnmanagedReturn(s)
        \/ buildResponse(s) \/ CountDenial(s) \/ Respond(s)

Spec == Init /\ [][Next]_vars

----------------------------------------------------------------------------
Total(reasons) == SumFunctionOnSet(requests, reasons)

\* The calls past the place that counts them, and past both counters.
Recorded == { s \in InProgress : calls[s].pc \in {"denial", "respond"} }
Judged == { s \in InProgress : calls[s].pc = "respond" }
DecidedAs(slots, reason) == { s \in slots : calls[s].decision.reason = reason }
DeniedIn(slots) == { s \in slots : ~calls[s].decision.allowed }

(***************************************************************************)
(* Every answer is counted once, under the decision it is of, whichever of *)
(* the five places of Handle it is given at, in time or too late (the four *)
(* early returns, each with a label of its own, and buildResponse).        *)
(***************************************************************************)
EveryAnswerCounted ==
    \A reason \in DecisionReasons :
        requests[reason] = answered.by[reason] + Cardinality(DecidedAs(Recorded, reason))

(***************************************************************************)
(* What enforcement would block is counted whether or not it is enforced:  *)
(* every response that denies or warns is in denials_total, and in         *)
(* requests_total under a denied_ decision, up to the calls between the    *)
(* two increments (README.md:421: "every would-deny is logged and          *)
(* counted"); a denied_wrong_flux_controller has its pair of owners in     *)
(* ownership_conflicts_total, in audit mode too (README.md:20).            *)
(***************************************************************************)
WouldDeniesCounted ==
    /\ denials = answered.blocked + Cardinality(DeniedIn(Judged))
    /\ Total(DeniedReasons) = answered.blocked + Cardinality(DeniedIn(Recorded))
    /\ conflicts = requests["denied_wrong_flux_controller"]
                  + Cardinality(DecidedAs(InProgress \ Recorded, "denied_wrong_flux_controller"))

(***************************************************************************)
(* Every call the API server gave up on, the ones a failurePolicy of       *)
(* Ignore admitted unjudged, lies above each bucket below the webhook's    *)
(* timeout, and no call at all above one beyond it: with 3 s, 2.5 s shows  *)
(* them all and 5 s keeps them out of +Inf (metrics.go: "the degradation   *)
(* region an operator must see").  A call answered late in the same region *)
(* is with them.                                                           *)
(***************************************************************************)
TailCoversTheUnanswered ==
    \A b \in Buckets :
        /\ b < WebhookTimeout => latency.count - latency.le[b] >= answered.late
        /\ b > WebhookTimeout => latency.le[b] = latency.count
=============================================================================
