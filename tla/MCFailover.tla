------------------------------ MODULE MCFailover ------------------------------
(* Small instances of Failover for TLC. *)
EXTENDS Failover

CONSTANTS h1, h2

(* Both members, in either SRV order, and a lookup that misses one. *)
MCCandidates == {<<h1, h2>>, <<h2, h1>>, <<h2>>}
=============================================================================
