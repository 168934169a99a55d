---------------------------- MODULE MC_IpamPool -----------------------------
(* Four addresses and five callers, so that the pool runs out.             *)
EXTENDS IpamPool
=============================================================================
