--------------------------- MODULE MCProxyProcess ---------------------------
(* A process in front of two hosts, with one client that keeps coming back. *)
EXTENDS ProxyProcess

CONSTANTS h1, h2

MCCandidates == {<<h1, h2>>}
=============================================================================
