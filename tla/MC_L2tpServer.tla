--------------------------- MODULE MC_L2tpServer ---------------------------
(* Instances of L2tpServer: handlers are interchangeable. *)
EXTENDS L2tpServer, TLC

HandlerSymmetry == Permutations(Handlers)
=============================================================================
