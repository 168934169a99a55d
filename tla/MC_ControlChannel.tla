------------------------- MODULE MC_ControlChannel --------------------------
(***************************************************************************)
(* TLC instances of ControlChannel.  The numbers wrap when the LNS sends   *)
(* and the LAC only acknowledges; both ends send in shorter behaviours.    *)
(***************************************************************************)
EXTENDS ControlChannel

MCEnds == {"lns", "lac"}
Limits(lns, lac) == [e \in MCEnds |-> IF e = "lns" THEN lns ELSE lac]
MCMaxSends == {Limits(9, 0), Limits(2, 1)}
MCLiveSends == {Limits(2, 1)}
=============================================================================
