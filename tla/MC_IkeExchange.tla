--------------------------- MODULE MC_IkeExchange ---------------------------
(***************************************************************************)
(* Instance of IkeExchange for TLC: a request in two fragments, the same   *)
(* repeated in three, and two R-U-THERE at a time.                         *)
(***************************************************************************)
EXTENDS IkeExchange

MCScenarios ==
    {[m \in {1} |-> <<2>>], [m \in {1} |-> <<2, 3>>], [m \in {2, 3} |-> <<0>>]}
=============================================================================
