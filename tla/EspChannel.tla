----------------------------- MODULE EspChannel -----------------------------
(***************************************************************************)
(* One ESP security association end to end: the sender's Encrypt, the      *)
(* network, and the receiver's HandleInboundESP / Decrypt                  *)
(* (internal/esp/packet.go, engine.go).                                    *)
(*                                                                         *)
(* The network duplicates, reorders, delays and loses datagrams, damages   *)
(* them, and may rewrite their source address (NAT rebinding).  One        *)
(* goroutine, the read loop of port 4500, receives; it releases the replay *)
(* window's lock between Check and Advance, so the two are separate steps. *)
(***************************************************************************)
EXTENDS ReplayWindow, FiniteSets

CONSTANTS
    SeqMax,       \* largest sequence number of the header: 0xFFFFFFFF
    MaxEncrypts,  \* bound: calls of Encrypt in a behaviour
    Suites,       \* the cipher suites to run, a subset of {"AEAD", "CBC"}
    Bodies,       \* what an authentic packet may hold, a subset of AllBodies
    Addrs,        \* source IP addresses (HandleInboundESP does not compare ports)
    NoPkt         \* no packet in the receiver's hands

ASSUME SeqMaxAssumption == SeqMax \in Nat \ {0}
ASSUME MaxEncryptsAssumption == MaxEncrypts \in Nat

(***************************************************************************)
(* The bodies the receiver tells apart: an inner packet for the TUN device *)
(* or the L2TP server, a TFC dummy (NextHeader 59), a plaintext whose pad  *)
(* length is larger than itself, and a CBC ciphertext that is not a whole  *)
(* number of blocks.                                                       *)
(***************************************************************************)
AllBodies == {"inner", "dummy", "badpad", "unaligned"}

ASSUME SuitesAssumption == Suites \subseteq {"AEAD", "CBC"}
ASSUME BodiesAssumption == Bodies \subseteq AllBodies

VARIABLES
    suite,      \* sa.CipherSuite of the pair of SAs
    seqNum,     \* sender: sa.SeqNum
    wire,       \* every authentic packet ever sent
    rw,         \* receiver: sa.ReplayWindow
    rx,         \* receiver: the packet between Check and Advance, or NoPkt
    peerAddr,   \* receiver: sa.PeerAddr
    accepted,   \* history: the sequence numbers Advance was called with
    delivered   \* history: how often the inner packet of each Encrypt was handed on

vars == <<suite, seqNum, wire, rw, rx, peerAddr, accepted, delivered>>

Seqs == 0 .. SeqMax

(***************************************************************************)
(* A packet: its header's sequence number, whether its ICV verifies, its   *)
(* body, and the call of Encrypt that made it (0: none).                   *)
(***************************************************************************)
Packets == [seq : Seqs, auth : BOOLEAN, body : AllBodies, id : 0 .. MaxEncrypts]

\* A datagram damaged or invented on the way: any header, an ICV that fails.
Damaged == {[seq |-> s, auth |-> FALSE, body |-> "inner", id |-> 0] : s \in Seqs}

ASSUME NoPktAssumption == NoPkt \notin [pkt : Packets, from : Addrs]

TypeOK ==
    /\ suite \in Suites
    /\ seqNum \in 0 .. MaxEncrypts
    /\ wire \subseteq Packets
    /\ rw \in Windows
    /\ rx \in [pkt : Packets, from : Addrs] \cup {NoPkt}
    /\ peerAddr \in Addrs
    /\ accepted \subseteq Seqs
    /\ delivered \in [1 .. MaxEncrypts -> Nat]

Init ==
    /\ suite \in Suites
    /\ seqNum = 0
    /\ wire = {}
    /\ rw = NewReplayWindow
    /\ rx = NoPkt
    /\ peerAddr \in Addrs
    /\ accepted = {}
    /\ delivered = [i \in 1 .. MaxEncrypts |-> 0]
-----------------------------------------------------------------------------
(***************************************************************************)
(* Encrypt increments sa.SeqNum atomically and refuses to send once the    *)
(* 64-bit counter has passed the 32-bit field; the header takes its low    *)
(* bits.  The counter keeps counting on the refused calls.  (No SA is ever *)
(* created with ESN set.)                                                  *)
(***************************************************************************)
\* Mutant of Encrypt: no overflow check, the low 32 bits wrap.
EncryptUnchecked(body) ==
    /\ seqNum < MaxEncrypts
    /\ seqNum' = seqNum + 1
    /\ wire' = wire \cup {[seq |-> seqNum' % (SeqMax + 1), auth |-> TRUE,
                           body |-> body, id |-> seqNum']}
    /\ UNCHANGED <<suite, rw, rx, peerAddr, accepted, delivered>>

Encrypt(body) ==
    /\ seqNum < MaxEncrypts
    /\ seqNum' = seqNum + 1
    /\ wire' = IF seqNum' > SeqMax
               THEN wire
               ELSE wire \cup {[seq |-> seqNum' % (SeqMax + 1), auth |-> TRUE,
                                body |-> body, id |-> seqNum']}
    /\ UNCHANGED <<suite, rw, rx, peerAddr, accepted, delivered>>

(***************************************************************************)
(* The first half of Decrypt, up to the release of the lock in Check.      *)
(* decryptCBC verifies the ICV before Check and looks at the block         *)
(* alignment after it; decryptAEAD does Check first.  A packet that fails  *)
(* is dropped without a trace.                                             *)
(***************************************************************************)
\* Mutant of BeginDecrypt: the peer address follows a packet before it is verified.
BeginDecryptRebinds(pkt, from) ==
    /\ rx = NoPkt
    /\ suite = "CBC" => pkt.auth
    /\ Check(rw, pkt.seq)
    /\ suite = "CBC" => pkt.body # "unaligned"
    /\ rx' = [pkt |-> pkt, from |-> from]
    /\ peerAddr' = from
    /\ UNCHANGED <<suite, seqNum, wire, rw, accepted, delivered>>

BeginDecrypt(pkt, from) ==
    /\ rx = NoPkt
    /\ suite = "CBC" => pkt.auth
    /\ Check(rw, pkt.seq)
    /\ suite = "CBC" => pkt.body # "unaligned"
    /\ rx' = [pkt |-> pkt, from |-> from]
    /\ UNCHANGED <<suite, seqNum, wire, rw, peerAddr, accepted, delivered>>

\* decryptAEAD: Open fails, the window and the peer address stay.
OpenFails ==
    /\ rx # NoPkt
    /\ suite = "AEAD" /\ ~ rx.pkt.auth
    /\ rx' = NoPkt
    /\ UNCHANGED <<suite, seqNum, wire, rw, peerAddr, accepted, delivered>>

(***************************************************************************)
(* The rest of Decrypt and of HandleInboundESP: the window advances as     *)
(* soon as the packet is authentic, then the trailer is stripped (a bad    *)
(* pad length drops the packet), the peer address follows the packet's     *)
(* source, and an inner packet goes to the TUN device or the L2TP server.  *)
(***************************************************************************)
\* Mutant of EndDecrypt: Advance is also reached when Open fails.
EndDecryptUnverified ==
    /\ rx # NoPkt
    /\ rw' = Advance(rw, rx.pkt.seq)
    /\ accepted' = accepted \cup {rx.pkt.seq}
    /\ peerAddr' = IF rx.pkt.body = "badpad" THEN peerAddr ELSE rx.from
    /\ delivered' = IF rx.pkt.auth /\ rx.pkt.body = "inner"
                    THEN [delivered EXCEPT ![rx.pkt.id] = @ + 1] ELSE delivered
    /\ rx' = NoPkt
    /\ UNCHANGED <<suite, seqNum, wire>>

EndDecrypt ==
    /\ rx # NoPkt
    /\ rx.pkt.auth
    /\ rw' = Advance(rw, rx.pkt.seq)
    /\ accepted' = accepted \cup {rx.pkt.seq}
    /\ peerAddr' = IF rx.pkt.body = "badpad" THEN peerAddr ELSE rx.from
    /\ delivered' = IF rx.pkt.body \in {"inner", "unaligned"}
                    THEN [delivered EXCEPT ![rx.pkt.id] = @ + 1] ELSE delivered
    /\ rx' = NoPkt
    /\ UNCHANGED <<suite, seqNum, wire>>

Next ==
    \/ \E body \in Bodies : Encrypt(body)
    \/ \E pkt \in wire \cup Damaged, from \in Addrs : BeginDecrypt(pkt, from)
    \/ OpenFails
    \/ EndDecrypt

Spec == Init /\ [][Next]_vars
-----------------------------------------------------------------------------
(***************************************************************************)
(* No packet is handed to the TUN device or to the L2TP server twice,      *)
(* however often the network repeats it (Decrypt, replay.go).              *)
(***************************************************************************)
DeliveredOnce == \A i \in 1 .. MaxEncrypts : delivered[i] <= 1

(***************************************************************************)
(* The bitmap, with its word-wise shifts, is exactly the window of RFC     *)
(* 4303 3.4.3: Check accepts a sequence number if and only if it is not 0, *)
(* not left of the window, and was not accepted before.  So no fresh       *)
(* in-window packet is lost to a shift and no old one slips in.            *)
(***************************************************************************)
WindowExact ==
    \A s \in Seqs :
        Check(rw, s) <=> /\ s # 0
                         /\ s \notin accepted
                         /\ \A a \in accepted : a - s < Size

(***************************************************************************)
(* A damaged or invented packet never moves the window: its right edge is  *)
(* always the sequence number of a packet the peer really sent (Advance is *)
(* called after the integrity check only).                                 *)
(***************************************************************************)
EdgeIsAuthentic ==
    rw.lastSeq # 0 => \E p \in wire : p.seq = rw.lastSeq

(***************************************************************************)
(* Two packets sent under one SA never share a sequence number - and so,   *)
(* with an AEAD whose nonce is salt || sequence number, never a nonce -    *)
(* even after the 32-bit field is exhausted (encryptAEAD, encryptCBC).     *)
(***************************************************************************)
SeqNotReused ==
    \A p, q \in wire : p.seq = q.seq => p = q

(***************************************************************************)
(* Once the receiver has seen the peer from a new address it keeps that    *)
(* address until another fresh authentic packet arrives: repeats and       *)
(* damaged packets never redirect the SA (engine.go, NAT rebinding).       *)
(***************************************************************************)
PeerFollowsFreshPackets ==
    [][peerAddr' # peerAddr => accepted' # accepted]_vars
=============================================================================
