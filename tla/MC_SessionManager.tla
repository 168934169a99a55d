------------------------- MODULE MC_SessionManager --------------------------
(***************************************************************************)
(* SessionManager for TLC: an IKEv1 and an IKEv2 session of peers that may *)
(* connect under one identity and ask for one address, two goroutines that *)
(* install child SAs, and one SPI of the reserved range.                   *)
(***************************************************************************)
EXTENDS SessionManager, TLC

Symmetry == Permutations(Workers) \cup Permutations(SPIs \ Reserved)
=============================================================================
