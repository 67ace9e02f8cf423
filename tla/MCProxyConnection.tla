-------------------------- MODULE MCProxyConnection --------------------------
(* Small instances of ProxyConnection for TLC. *)
EXTENDS ConnectionRefinement

(* i32::MIN stands two allocations below the seed of -1, so that a third   *)
(* explainable request meets the exhausted counter.                        *)
MCMinId == -3
=============================================================================
