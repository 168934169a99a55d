----------------------------- MODULE EspEngine ------------------------------
(***************************************************************************)
(* The tables of the ESP data plane: the inbound SA database indexed by    *)
(* SPI (internal/esp/sa.go), the policy database from destination address  *)
(* to outbound SA, the default outbound SA and the loop that reads the TUN *)
(* device (internal/esp/engine.go).  What happens inside one SA, from the  *)
(* sequence number to the replay window and the peer address, is           *)
(* EspChannel.                                                             *)
(*                                                                         *)
(* Each table has a mutex of its own that is held for one operation, so an *)
(* operation is one step; what joins several of them is not atomic.        *)
(***************************************************************************)
EXTENDS Integers, FiniteSets

CONSTANTS
    SPIs,       \* inbound SPIs that the random generator may return
    Reserved,   \* those of the range 0-255, which AddInbound refuses
    Addresses,  \* virtual addresses of the clients
    Owners      \* what an SA was made for: the IKE sessions

ASSUME ReservedAssumption == Reserved \subseteq SPIs

None == "none"
ASSUME NoneAssumption ==
    /\ None \notin SPIs \cup Addresses
    /\ Owners \cap {None, "static"} = {}

VARIABLES
    bySPI,        \* db.bySPI: the inbound SA of an SPI
    spd,          \* e.spd: the outbound SA of a destination address
    defaultOutSA, \* e.defaultOutSA
    loop          \* the SA that the outbound loop has looked up for the packet in hand

espVars == <<bySPI, spd, defaultOutSA, loop>>

(***************************************************************************)
(* All that is kept of an SA is the session it was made for.  A default    *)
(* outbound SA is configured by hand and belongs to no session.            *)
(***************************************************************************)
SAs == Owners
NoSA == None
StaticSA == "static"

EspTypeOK ==
    /\ bySPI \in [SPIs -> SAs \cup {NoSA}]
    /\ spd \in [Addresses -> SAs \cup {NoSA}]
    /\ defaultOutSA \in {StaticSA, NoSA}
    /\ loop \in SAs \cup {StaticSA, NoSA}

NewEngine ==
    /\ bySPI = [spi \in SPIs |-> NoSA]
    /\ spd = [ip \in Addresses |-> NoSA]
    /\ defaultOutSA = NoSA
    /\ loop = NoSA

(***************************************************************************)
(* The operations, as the new value of the table they change.  AddInbound  *)
(* reports a reserved or a taken SPI, and AddInboundSA drops the report.   *)
(***************************************************************************)
AddInboundSA(spi, sa) ==
    IF spi \in Reserved \/ bySPI[spi] /= NoSA THEN bySPI ELSE [bySPI EXCEPT ![spi] = sa]

RemoveInboundSAs(spis) == [spi \in SPIs |-> IF spi \in spis THEN NoSA ELSE bySPI[spi]]

AddOutboundSA(ip, sa) == [spd EXCEPT ![ip] = sa]
RemoveOutboundSAsNot(ips) == spd
RemoveOutboundSAs(ips) == [ip \in Addresses |-> IF ip \in ips THEN NoSA ELSE spd[ip]]

SetDefaultOutboundSA(sa) ==
    /\ sa \in {StaticSA, NoSA} \ {defaultOutSA}
    /\ defaultOutSA' = sa
    /\ UNCHANGED <<bySPI, spd, loop>>

(***************************************************************************)
(* The outbound loop takes the SA under the engine's mutex and encrypts    *)
(* and sends after it has let go.                                          *)
(***************************************************************************)
outboundLookup(dst) ==
    LET outSA == IF dst \in Addresses /\ spd[dst] /= NoSA THEN spd[dst] ELSE defaultOutSA
    IN  /\ loop = NoSA
        /\ outSA /= NoSA    \* otherwise the packet is dropped
        /\ loop' = outSA
        /\ UNCHANGED <<bySPI, spd, defaultOutSA>>

outboundSend ==
    /\ loop /= NoSA
    /\ loop' = NoSA
    /\ UNCHANGED <<bySPI, spd, defaultOutSA>>
=============================================================================
