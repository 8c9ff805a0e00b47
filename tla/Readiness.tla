----------------------------- MODULE Readiness ------------------------------
(***************************************************************************)
(* The start of the program on every replica, from main to the moment the  *)
(* Service routes admission calls to it, and the election of the replica   *)
(* that runs the controller (cmd/webhook/main.go).  The manager's order is *)
(* controller-runtime's: the listener is started first and binds in its    *)
(* own time, the caches next, the other runnables once these are synced,   *)
(* the leader's last.                                                      *)
(***************************************************************************)
EXTENDS Naturals, FiniteSets

CONSTANTS
    Replicas,
    None,
    CachedObjectTypes,  \* what the handler reads from the cache
    CRDs,               \* those of them that are custom resources
    MaxStops,           \* bound: crashes and shutdowns of replicas
    MaxFlaps            \* bound: leases a healthy leader fails to renew

ASSUME ReadinessAssumption ==
    /\ None \notin Replicas /\ CRDs \subseteq CachedObjectTypes
    /\ MaxStops \in Nat /\ MaxFlaps \in Nat

VARIABLES
    served,     \* the types the API server serves
    phase,      \* of a replica: "down", "boot" (main before mgr.Start), "up"
    pending,    \* warmInformerCaches: types still to register
    skipped,    \* history: types warmInformerCaches could not resolve, and logged
    informers,  \* registered informers
    synced,     \* informers that have listed
    listening,  \* the TLS listener is bound
    ch,         \* cachesSynced.ch is closed
    controls,   \* the leader-election runnables have started
    lease,      \* the holder of the lease, or None
    endpoints,  \* the replicas the Service routes to
    budget

process == <<phase, pending, skipped, informers, synced, listening, ch, controls>>
vars == <<served, process, lease, endpoints, budget>>

Init ==
    /\ \E absent \in SUBSET CRDs : served = CachedObjectTypes \ absent
    /\ phase = [r \in Replicas |-> "down"]
    /\ pending = [r \in Replicas |-> {}] /\ skipped = [r \in Replicas |-> {}]
    /\ informers = [r \in Replicas |-> {}] /\ synced = [r \in Replicas |-> {}]
    /\ listening = [r \in Replicas |-> FALSE] /\ ch = [r \in Replicas |-> FALSE]
    /\ controls = [r \in Replicas |-> FALSE]
    /\ lease = None /\ endpoints = {}
    /\ budget = [stops |-> MaxStops, flaps |-> MaxFlaps]

----------------------------------------------------------------------------
\* A CRD is installed later.
InstallCRD ==
    /\ \E type \in CRDs \ served : served' = served \cup {type}
    /\ UNCHANGED <<process, lease, endpoints, budget>>

\* The kubelet starts the container; it is no endpoint before it is ready again.
Boot(r) ==
    /\ phase[r] = "down" /\ r \notin endpoints
    /\ phase' = [phase EXCEPT ![r] = "boot"]
    /\ pending' = [pending EXCEPT ![r] = CachedObjectTypes]
    /\ UNCHANGED <<served, skipped, informers, synced, listening, ch, controls, lease, endpoints,
                   budget>>

\* warmInformerCaches: a type that cannot be resolved is skipped.
\* Mutant: it is registered anyway.
RegisterAnyway(type) == {type}
GetInformer(type) == {type} \cap served

Warm(r) ==
    /\ \E type \in pending[r] :
          /\ pending' = [pending EXCEPT ![r] = @ \ {type}]
          /\ informers' = [informers EXCEPT ![r] = @ \cup GetInformer(type)]
          /\ skipped' = [skipped EXCEPT ![r] = @ \cup ({type} \ GetInformer(type))]
    /\ UNCHANGED <<served, phase, synced, listening, ch, controls, lease, endpoints, budget>>

StartManager(r) ==
    /\ phase[r] = "boot" /\ pending[r] = {}
    /\ phase' = [phase EXCEPT ![r] = "up"]
    /\ UNCHANGED <<served, pending, skipped, informers, synced, listening, ch, controls, lease,
                   endpoints, budget>>

Listen(r) ==
    /\ phase[r] = "up" /\ ~listening[r]
    /\ listening' = [listening EXCEPT ![r] = TRUE]
    /\ UNCHANGED <<served, phase, pending, skipped, informers, synced, ch, controls, lease,
                   endpoints, budget>>

\* An informer lists its type.
Sync(r) ==
    /\ phase[r] = "up"
    /\ \E type \in (informers[r] \cap served) \ synced[r] :
          synced' = [synced EXCEPT ![r] = @ \cup {type}]
    /\ UNCHANGED <<served, phase, pending, skipped, informers, listening, ch, controls, lease,
                   endpoints, budget>>

\* The manager starts the Others once the caches have synced.
\* Mutant: without NeedLeaderElection it waits for the lease.
WithTheLeaders(r) == informers[r] \subseteq synced[r] /\ lease = r
AmongOthers(r) == informers[r] \subseteq synced[r]

CloseCh(r) ==
    /\ phase[r] = "up" /\ AmongOthers(r) /\ ~ch[r]
    /\ ch' = [ch EXCEPT ![r] = TRUE]
    /\ UNCHANGED <<served, phase, pending, skipped, informers, synced, listening, controls, lease,
                   endpoints, budget>>

\* The first request that reads a type skipped at the start registers its
\* informer; it pays for the list inline, and every such request is denied
\* until Sync has listed the type.
FirstUse(r) ==
    /\ r \in endpoints /\ phase[r] = "up"
    /\ \E type \in served \ informers[r] :
          informers' = [informers EXCEPT ![r] = @ \cup {type}]
    /\ UNCHANGED <<served, phase, pending, skipped, synced, listening, ch, controls, lease,
                   endpoints, budget>>

----------------------------------------------------------------------------
\* Leader election, after the caches have synced for the first time; an
\* informer created later takes nothing back.
CachesStarted(r) == phase[r] = "up" /\ (ch[r] \/ informers[r] \subseteq synced[r])

Acquire(r) ==
    /\ CachesStarted(r) /\ lease = None /\ ~controls[r]
    /\ lease' = r
    /\ UNCHANGED <<served, process, endpoints, budget>>

StartController(r) ==
    /\ lease = r /\ phase[r] = "up" /\ ~controls[r]
    /\ controls' = [controls EXCEPT ![r] = TRUE]
    /\ UNCHANGED <<served, phase, pending, skipped, informers, synced, listening, ch, lease,
                   endpoints, budget>>

\* The process ends; everything it held is gone, the lease runs on.
Exit(r) ==
    /\ phase' = [phase EXCEPT ![r] = "down"]
    /\ pending' = [pending EXCEPT ![r] = {}] /\ skipped' = [skipped EXCEPT ![r] = {}]
    /\ informers' = [informers EXCEPT ![r] = {}]
    /\ synced' = [synced EXCEPT ![r] = {}] /\ listening' = [listening EXCEPT ![r] = FALSE]
    /\ ch' = [ch EXCEPT ![r] = FALSE] /\ controls' = [controls EXCEPT ![r] = FALSE]

Spend(what) == budget[what] > 0 /\ budget' = [budget EXCEPT ![what] = @ - 1]

\* A crash, or a shutdown, which may release the lease (ReleaseOnCancel).
Stop(r) ==
    /\ phase[r] # "down" /\ Exit(r)
    /\ lease' \in (IF lease = r THEN {r, None} ELSE {lease})
    /\ Spend("stops") /\ UNCHANGED <<served, endpoints>>

\* The renew deadline passes: mgr.Start returns an error and main exits.
\* Mutant: the error is logged and the process stays.
LogAndStay(r) == UNCHANGED process
ExitOnError(r) == Exit(r)

LeaseLost(r) ==
    /\ lease = r /\ phase[r] = "up"
    /\ ExitOnError(r) /\ lease' = None
    /\ Spend("flaps") /\ UNCHANGED <<served, endpoints>>

\* The lease of a holder that is gone runs out.
Expire ==
    /\ lease # None /\ ~(phase[lease] = "up")
    /\ lease' = None /\ UNCHANGED <<served, process, endpoints, budget>>

----------------------------------------------------------------------------
\* The kubelet asks readyz: ping, webhook-server, cache-sync.
\* Mutant: probes.SetupChecks and the webhook server's check only.
WithoutCacheSync(r) == phase[r] = "up" /\ listening[r]
Readyz(r) == phase[r] = "up" /\ listening[r] /\ ch[r]

Probe(r) ==
    /\ endpoints' = IF Readyz(r) THEN endpoints \cup {r} ELSE endpoints \ {r}
    /\ endpoints' # endpoints
    /\ UNCHANGED <<served, process, lease, budget>>

Next ==
    \/ InstallCRD \/ Expire
    \/ \E r \in Replicas :
          \/ Boot(r) \/ Warm(r) \/ StartManager(r) \/ Listen(r) \/ Sync(r) \/ CloseCh(r)
          \/ FirstUse(r) \/ Acquire(r) \/ StartController(r) \/ Stop(r) \/ LeaseLost(r)
          \/ Probe(r)

Spec == Init /\ [][Next]_vars

(***************************************************************************)
(* The kubelet restarts and probes, a process runs, an informer lists, an  *)
(* expired lease is taken, requests come.  Nobody need install a CRD, and  *)
(* no replica is promised the lease as long as another takes it.           *)
(***************************************************************************)
Fairness ==
    /\ WF_vars(Expire) /\ WF_vars(\E r \in Replicas : Acquire(r))
    /\ \A r \in Replicas :
          /\ WF_vars(Boot(r)) /\ WF_vars(Warm(r)) /\ WF_vars(StartManager(r))
          /\ WF_vars(Listen(r)) /\ WF_vars(Sync(r)) /\ WF_vars(CloseCh(r))
          /\ WF_vars(StartController(r)) /\ WF_vars(Probe(r)) /\ WF_vars(FirstUse(r))

FairSpec == Spec /\ Fairness

----------------------------------------------------------------------------
TypeOK ==
    /\ served \subseteq CachedObjectTypes
    /\ phase \in [Replicas -> {"down", "boot", "up"}]
    /\ {pending, skipped, informers, synced} \subseteq [Replicas -> SUBSET CachedObjectTypes]
    /\ {listening, ch, controls} \subseteq [Replicas -> BOOLEAN]
    /\ \A r \in Replicas : informers[r] \subseteq served
    /\ lease \in Replicas \cup {None} /\ endpoints \subseteq Replicas
    /\ budget \in [stops : 0 .. MaxStops, flaps : 0 .. MaxFlaps]

(***************************************************************************)
(* No cold start takes traffic: a replica that runs and is routed to has   *)
(* its listener bound and has listed every type that main could resolve,   *)
(* so that no lookup of these is denied for want of a warm cache (main,    *)
(* the three readyz checks).  A type skipped at the start has no such      *)
(* promise: its lookups are denied from its first use until it has listed. *)
(***************************************************************************)
NoColdTraffic ==
    \A r \in endpoints :
        phase[r] # "down" =>
            /\ phase[r] = "up" /\ listening[r]
            /\ CachedObjectTypes \ skipped[r] \subseteq synced[r]

(***************************************************************************)
(* Two controllers never apply the configuration at once: a replica runs   *)
(* it only while it holds the lease (main exits when mgr.Start returns).   *)
(***************************************************************************)
OneController == \A r \in Replicas : controls[r] => lease = r

(***************************************************************************)
(* Every replica takes traffic in the end and keeps it, leader or not,     *)
(* with or without the CRDs, once nothing stops it any more, and what the  *)
(* API server serves is then read from a warm cache, the types installed   *)
(* after the start included (cachesSynced.NeedLeaderElection,              *)
(* warmInformerCaches, CachedObjectTypes).                                 *)
(***************************************************************************)
EveryReplicaServes ==
    \A r \in Replicas : <>[](r \in endpoints /\ served \subseteq synced[r])

(***************************************************************************)
(* Whatever happens to leaders, a replica runs the controller in the end:  *)
(* what VWCReconciler assumes of Elect.                                    *)
(***************************************************************************)
SomeoneControls == <>[](\E r \in Replicas : controls[r])
=============================================================================
