--------------------------- MODULE MC_EspChannel ----------------------------
(***************************************************************************)
(* The TLC instance of EspChannel (Esp.cfg): a window of 2 words of 2      *)
(* bits, 5 sequence numbers and two calls of Encrypt past the last, every  *)
(* kind of body and two addresses.                                         *)
(***************************************************************************)
EXTENDS EspChannel
=============================================================================
