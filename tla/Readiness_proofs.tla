-------------------------- MODULE Readiness_proofs --------------------------
(***************************************************************************)
(* For any number of replicas, cached types, crashes and lost leases: no   *)
(* cold replica takes traffic, and only the holder of the lease runs the   *)
(* controller.                                                             *)
(***************************************************************************)
EXTENDS Readiness, TLAPS

(***************************************************************************)
(* The inductive invariant.  Main registers every type or skips it before  *)
(* mgr.Start (pending is empty from there on), cachesSynced.ch is closed   *)
(* once all that were registered have listed, and an informer created by a *)
(* request later is of a type that was skipped: so ch speaks for every     *)
(* type but these.  Whatever main left behind when it exited is gone       *)
(* before it boots again.                                                  *)
(***************************************************************************)
Warmed(r) ==
    /\ pending[r] # {} => phase[r] = "boot"
    /\ phase[r] # "down" => CachedObjectTypes \subseteq pending[r] \cup informers[r] \cup skipped[r]
    /\ listening[r] => phase[r] = "up"
    /\ ch[r] => phase[r] = "up" /\ CachedObjectTypes \ skipped[r] \subseteq synced[r]
    /\ r \in endpoints => phase[r] = "down" \/ (listening[r] /\ ch[r])

Elected(r) == controls[r] => lease = r /\ phase[r] = "up"

RInv == TypeOK /\ \A r \in Replicas : Warmed(r) /\ Elected(r)

LEMMA RInvInit == Init => RInv
BY ReadinessAssumption DEF Init, RInv, TypeOK, Warmed, Elected

\* A step of one replica says nothing of the others.
LEMMA BudgetType ==
    ASSUME TypeOK, NEW what \in {"stops", "flaps"}, Spend(what)
    PROVE  budget' \in [stops : 0 .. MaxStops, flaps : 0 .. MaxFlaps]
BY ReadinessAssumption DEF TypeOK, Spend

LEMMA StartInv ==
    ASSUME RInv, NEW r \in Replicas,
           \/ Boot(r) \/ Warm(r) \/ StartManager(r) \/ Listen(r) \/ Sync(r) \/ CloseCh(r)
           \/ FirstUse(r)
    PROVE  RInv'
<1>. USE ReadinessAssumption DEF RInv
<1>1. CASE Boot(r)
  BY <1>1 DEF Boot, TypeOK, Warmed, Elected
<1>2. CASE Warm(r)
  <2>1. phase[r] = "boot" /\ ~ch[r]
    BY <1>2 DEF Warm, Warmed
  <2>. QED BY <1>2, <2>1 DEF Warm, GetInformer, TypeOK, Warmed, Elected
<1>3. CASE StartManager(r)
  BY <1>3 DEF StartManager, TypeOK, Warmed, Elected
<1>4. CASE Listen(r)
  BY <1>4 DEF Listen, TypeOK, Warmed, Elected
<1>5. CASE Sync(r)
  BY <1>5 DEF Sync, TypeOK, Warmed, Elected
<1>6. CASE CloseCh(r)
  BY <1>6 DEF CloseCh, AmongOthers, TypeOK, Warmed, Elected
<1>7. CASE FirstUse(r)
  BY <1>7 DEF FirstUse, TypeOK, Warmed, Elected
<1>. QED BY <1>1, <1>2, <1>3, <1>4, <1>5, <1>6, <1>7

LEMMA ExitInv ==
    ASSUME RInv, NEW r \in Replicas, Exit(r), UNCHANGED <<served, endpoints>>,
           lease' \in {lease, None}, lease' # lease => lease = r,
           NEW what \in {"stops", "flaps"}, Spend(what)
    PROVE  RInv'
<1>1. TypeOK'
  BY BudgetType DEF RInv, Exit, TypeOK
<1>2. ASSUME NEW q \in Replicas PROVE Warmed(q)' /\ Elected(q)'
  <2>1. Warmed(q) /\ Elected(q)
    BY DEF RInv
  <2>2. CASE q = r
    <3>1. /\ phase'[q] = "down" /\ pending'[q] = {} /\ ~listening'[q] /\ ~ch'[q]
          /\ ~controls'[q]
      BY <2>2 DEF Exit, RInv, TypeOK
    <3>. QED BY <3>1 DEF Warmed, Elected
  <2>3. CASE q # r
    <3>1. /\ phase'[q] = phase[q] /\ pending'[q] = pending[q] /\ informers'[q] = informers[q]
          /\ synced'[q] = synced[q] /\ skipped'[q] = skipped[q]
      BY <2>3 DEF Exit, RInv, TypeOK
    <3>2. listening'[q] = listening[q] /\ ch'[q] = ch[q] /\ controls'[q] = controls[q]
      BY <2>3 DEF Exit, RInv, TypeOK
    <3>3. controls[q] => lease' = lease
      BY <2>1, <2>3 DEF Elected
    <3>. QED BY <2>1, <3>1, <3>2, <3>3 DEF Warmed, Elected
  <2>. QED BY <2>2, <2>3
<1>. QED BY <1>1, <1>2 DEF RInv

LEMMA LeaseInv ==
    ASSUME RInv, NEW r \in Replicas,
           Acquire(r) \/ StartController(r) \/ Stop(r) \/ LeaseLost(r) \/ Expire
    PROVE  RInv'
<1>. USE ReadinessAssumption
<1>1. CASE Acquire(r)
  BY <1>1 DEF Acquire, process, RInv, TypeOK, Warmed, Elected
<1>2. CASE StartController(r)
  BY <1>2 DEF StartController, RInv, TypeOK, Warmed, Elected
<1>3. CASE Stop(r)
  BY <1>3, ExitInv DEF Stop
<1>4. CASE LeaseLost(r)
  BY <1>4, ExitInv DEF LeaseLost, ExitOnError
<1>5. CASE Expire
  BY <1>5 DEF Expire, process, RInv, TypeOK, Warmed, Elected
<1>. QED BY <1>1, <1>2, <1>3, <1>4, <1>5

LEMMA RInvNext == RInv /\ [Next]_vars => RInv'
<1>. SUFFICES ASSUME RInv, [Next]_vars PROVE RInv'
  OBVIOUS
<1>1. CASE InstallCRD
  BY <1>1, ReadinessAssumption DEF InstallCRD, process, RInv, TypeOK, Warmed, Elected
<1>2. CASE Expire
  <2>1. lease \in Replicas
    BY <1>2 DEF Expire, RInv, TypeOK
  <2>. QED BY <1>2, <2>1, LeaseInv
<1>3. ASSUME NEW r \in Replicas, Probe(r) PROVE RInv'
  BY <1>3 DEF Probe, Readyz, process, RInv, TypeOK, Warmed, Elected
<1>4. CASE UNCHANGED vars
  BY <1>4 DEF vars, process, RInv, TypeOK, Warmed, Elected
<1>. QED BY <1>1, <1>2, <1>3, <1>4, StartInv, LeaseInv DEF Next

(***************************************************************************)
(* Every variable keeps its type; an informer is registered only for a     *)
(* type the API server serves (warmInformerCaches).                        *)
(***************************************************************************)
THEOREM StartTypeCorrect == Spec => []TypeOK
<1>1. RInv => TypeOK
  BY DEF RInv
<1>. QED BY <1>1, RInvInit, RInvNext, PTL DEF Spec

(***************************************************************************)
(* No cold start takes traffic: what main could resolve at the start has   *)
(* listed wherever the Service routes (main, the three readyz checks).     *)
(***************************************************************************)
THEOREM TrafficIsWarm == Spec => []NoColdTraffic
<1>1. RInv => NoColdTraffic
  BY DEF RInv, TypeOK, NoColdTraffic, Warmed
<1>. QED BY <1>1, RInvInit, RInvNext, PTL DEF Spec

(***************************************************************************)
(* Two controllers never apply the configuration at once (main exits when  *)
(* mgr.Start returns an error).                                            *)
(***************************************************************************)
THEOREM ControllerHoldsLease == Spec => []OneController
<1>1. RInv => OneController
  BY DEF RInv, OneController, Elected
<1>. QED BY <1>1, RInvInit, RInvNext, PTL DEF Spec
=============================================================================
