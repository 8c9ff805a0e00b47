---------------------------- MODULE MCReadiness -----------------------------
(* Values of the constants for the run of Readiness.                        *)
EXTENDS Readiness

MCCRDs == {"HelmRelease"}
MCCachedObjectTypes == {"Namespace"} \cup MCCRDs
=============================================================================
