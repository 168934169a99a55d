------------------------------ MODULE IpamPool ------------------------------
(***************************************************************************)
(* The IPv4 address pool (internal/ipam/pool.go): a bitmap over the range  *)
(* startIP .. endIP and a hint, nextFree, where the next search begins.    *)
(* Every method holds the pool's mutex from its first line to its last,    *)
(* so each is one action.  An address is modelled by its offset from       *)
(* startIP; offsets outside 0 .. Size - 1 are addresses out of range.      *)
(***************************************************************************)
EXTENDS Integers

CONSTANTS
    Size,       \* addresses in the range: endIP - startIP + 1
    Clients,    \* the callers, each of which holds at most one address
    NoAddr      \* "no address"

ASSUME SizeAssumption   == Size \in Nat \ {0}
ASSUME ClientAssumption == NoAddr \notin Int

Indices == 0 .. Size - 1

VARIABLES
    bitmap,     \* Pool.bitmap
    nextFree,   \* Pool.nextFree
    lease,      \* the callers' side: the address each one holds
    refused     \* the callers' side: the last request returned an error

poolVars == <<bitmap, nextFree>>
ipamVars == <<bitmap, nextFree, lease, refused>>

PoolTypeOK ==
    /\ bitmap \in [Indices -> BOOLEAN]
    /\ nextFree \in Indices
    /\ lease \in [Clients -> Indices \cup {NoAddr}]
    /\ refused \in [Clients -> BOOLEAN]

NewPool ==
    /\ bitmap = [i \in Indices |-> FALSE]
    /\ nextFree = 0

PoolInit ==
    /\ NewPool
    /\ lease = [c \in Clients |-> NoAddr]
    /\ refused = [c \in Clients |-> FALSE]
-----------------------------------------------------------------------------
\* The i-th index that Allocate's loop looks at.
probe(i) == (nextFree + i) % Size

\* Mutant of Allocate: the search starts after the hint and never wraps to it.
AllocateShort(c) ==
    /\ lease[c] = NoAddr
    /\ \/ \E i \in 1 .. Size - 1 :
            /\ ~ bitmap[probe(i)]
            /\ \A j \in 1 .. i - 1 : bitmap[probe(j)]
            /\ bitmap' = [bitmap EXCEPT ![probe(i)] = TRUE]
            /\ nextFree' = (probe(i) + 1) % Size
            /\ lease' = [lease EXCEPT ![c] = probe(i)]
            /\ refused' = [refused EXCEPT ![c] = FALSE]
       \/ /\ \A i \in 1 .. Size - 1 : bitmap[probe(i)]
          /\ refused' = [refused EXCEPT ![c] = TRUE]
          /\ UNCHANGED <<poolVars, lease>>

\* Mutant of Allocate: the hint is not wrapped at the end of the range.
AllocateUnwrapped(c) ==
    /\ lease[c] = NoAddr
    /\ \E i \in Indices :
          /\ ~ bitmap[probe(i)]
          /\ \A j \in 0 .. i - 1 : bitmap[probe(j)]
          /\ bitmap' = [bitmap EXCEPT ![probe(i)] = TRUE]
          /\ nextFree' = probe(i) + 1
          /\ lease' = [lease EXCEPT ![c] = probe(i)]
          /\ refused' = [refused EXCEPT ![c] = FALSE]

\* Allocate: the first free index from the hint on, or an error.
Allocate(c) ==
    /\ lease[c] = NoAddr
    /\ \/ \E i \in Indices :
            /\ ~ bitmap[probe(i)]
            /\ \A j \in 0 .. i - 1 : bitmap[probe(j)]
            /\ bitmap' = [bitmap EXCEPT ![probe(i)] = TRUE]
            /\ nextFree' = (probe(i) + 1) % Size
            /\ lease' = [lease EXCEPT ![c] = probe(i)]
            /\ refused' = [refused EXCEPT ![c] = FALSE]
       \/ /\ \A i \in Indices : bitmap[probe(i)]
          /\ refused' = [refused EXCEPT ![c] = TRUE]
          /\ UNCHANGED <<poolVars, lease>>

\* Mutant of AllocateSpecific: no test whether the address is taken.
AllocateSpecificUnchecked(c, idx) ==
    /\ lease[c] = NoAddr
    /\ idx \in Indices
    /\ bitmap' = [bitmap EXCEPT ![idx] = TRUE]
    /\ lease' = [lease EXCEPT ![c] = idx]
    /\ refused' = [refused EXCEPT ![c] = FALSE]
    /\ UNCHANGED nextFree

\* AllocateSpecific: an address out of range or taken is an error, with no effect.
AllocateSpecific(c, idx) ==
    /\ lease[c] = NoAddr
    /\ idx \in Indices
    /\ ~ bitmap[idx]
    /\ bitmap' = [bitmap EXCEPT ![idx] = TRUE]
    /\ lease' = [lease EXCEPT ![c] = idx]
    /\ refused' = [refused EXCEPT ![c] = FALSE]
    /\ UNCHANGED nextFree

\* Mutant of Release: the hint moves down, the bit stays set.
ReleaseKeepsBit(c, idx) ==
    /\ \A d \in Clients \ {c} : lease[d] # idx
    /\ nextFree' = IF bitmap[idx] /\ idx < nextFree THEN idx ELSE nextFree
    /\ lease' = IF lease[c] = idx THEN [lease EXCEPT ![c] = NoAddr] ELSE lease
    /\ UNCHANGED <<bitmap, refused>>

(***************************************************************************)
(* Release of an address that is out of range or not allocated is an       *)
(* error, with no effect: so is a second release.  The pool does not know  *)
(* who holds what and clears the bit for any caller; that nobody gives     *)
(* back what another caller holds is assumed here (close of the L2TP       *)
(* session releases once: AddressExclusive in L2tpServer).                 *)
(***************************************************************************)
Release(c, idx) ==
    /\ \A d \in Clients \ {c} : lease[d] # idx
    /\ IF bitmap[idx]
       THEN /\ bitmap' = [bitmap EXCEPT ![idx] = FALSE]
            /\ nextFree' = IF idx < nextFree THEN idx ELSE nextFree
       ELSE UNCHANGED poolVars
    /\ lease' = IF lease[c] = idx THEN [lease EXCEPT ![c] = NoAddr] ELSE lease
    /\ UNCHANGED refused

PoolNext ==
    \E c \in Clients :
        \/ Allocate(c)
        \/ \E idx \in Indices : AllocateSpecific(c, idx) \/ Release(c, idx)

PoolSpec == PoolInit /\ [][PoolNext]_ipamVars
-----------------------------------------------------------------------------
(***************************************************************************)
(* The bitmap and the callers agree: a bit is set exactly when some caller *)
(* holds the address, so no address is lost to the pool and none is handed *)
(* out while it is in use (Allocate, AllocateSpecific, Release).           *)
(***************************************************************************)
BitmapIsLeases ==
    \A i \in Indices : bitmap[i] <=> \E c \in Clients : lease[c] = i

(***************************************************************************)
(* Two callers never hold the same address (Allocate, AllocateSpecific).   *)
(***************************************************************************)
LeasesDisjoint ==
    \A c, d \in Clients : lease[c] # NoAddr /\ lease[c] = lease[d] => c = d

(***************************************************************************)
(* The pool implements AddressPool: in particular the circular search from *)
(* the hint reports "pool exhausted" only when no address is free.         *)
(***************************************************************************)
Abstract == INSTANCE AddressPool WITH Addresses <- Indices

ImplementsAddressPool == Abstract!Spec
=============================================================================
