--------------------------- MODULE MCSelectPrimary ---------------------------
(* Small instances of SelectPrimary for TLC. *)
EXTENDS SelectPrimary

CONSTANTS h1, h2, h3

(* A full list, a list that misses a member, and one with a host twice. *)
MCCandidates == {<<h1, h2, h3>>, <<h3, h2>>, <<h1, h1>>}
=============================================================================
