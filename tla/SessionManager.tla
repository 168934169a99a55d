--------------------------- MODULE SessionManager ---------------------------
(***************************************************************************)
(* The IKE session manager (internal/ike/session.go): the two session      *)
(* tables, the identity table behind the rule of one connection per        *)
(* identity, the virtual addresses, and the installation of child SAs in   *)
(* the ESP engine, on which it works through the operations of EspEngine.  *)
(*                                                                         *)
(* Register and Delete hold sm.mu from end to end and are one step each.   *)
(* InstallV2ChildSA and InstallV1ChildSA hold no lock of the session: the  *)
(* inbound SA, the outbound SA and the binding of the address are three    *)
(* critical sections of three mutexes, and everything else may happen      *)
(* between them.                                                           *)
(*                                                                         *)
(* An SPI pair names its session for ever (the responder's half is random  *)
(* and fresh), so sessions stand for their SPI pairs.  Both sides' keys of *)
(* a child have the same length, so buildESPSA fails for the inbound SA or *)
(* for none: the branch that takes the inbound SA back is never entered.   *)
(***************************************************************************)
EXTENDS EspEngine, Sequences

CONSTANTS
    V1, V2,      \* IKEv1 and IKEv2 sessions
    Identities,  \* peer identities
    Workers,     \* goroutines that install child SAs
    MaxChildren  \* bound: child SAs of one session

ASSUME SessionsAssumption == V1 \cap V2 = {} /\ Owners = V1 \cup V2
ASSUME IdentitiesAssumption == "" \notin Identities
ASSUME MaxChildrenAssumption == MaxChildren \in Nat

Sessions == V1 \cup V2

VARIABLES
    v1Sessions, v2Sessions,  \* the sessions in the two tables
    sess,         \* the session objects
    identityMap,  \* peer identity -> session
    assignedIPs,  \* virtual address -> session
    install,      \* what each worker is installing, and how far it has come
    late,         \* history: sessions installed, in part, after their eviction
    raced         \* history: addresses whose last binding was disturbed, see Window

smVars == <<v1Sessions, v2Sessions, sess, identityMap, assignedIPs>>
vars == <<smVars, install, late, raced, espVars>>

(***************************************************************************)
(* state of a session: "New" before Register, "Active" for every state of  *)
(* its own handshake, "Deleting" after eviction.  known: its peer identity *)
(* was set when it was registered (an aggressive mode session; the others  *)
(* learn it later).  ip: the address its configuration payload was given.  *)
(* children: the inbound SPIs of its child SAs; installed: how many of     *)
(* them were handed to InstallV1ChildSA or InstallV2ChildSA.               *)
(***************************************************************************)
SPILists == UNION {[1 .. n -> SPIs] : n \in 0 .. MaxChildren}
SessionObjects ==
    [state : {"New", "Active", "Deleting"}, peerID : Identities \cup {""},
     known : BOOLEAN, ip : Addresses \cup {None}, installed : 0 .. MaxChildren,
     children : SPILists]

Idle == [step |-> "idle", session |-> None, spi |-> None]
Installations == [step : {"inbound", "outbound", "bind"}, session : Sessions, spi : SPIs]

TypeOK ==
    /\ EspTypeOK
    /\ v1Sessions \subseteq V1 /\ v2Sessions \subseteq V2
    /\ sess \in [Sessions -> SessionObjects]
    /\ identityMap \in [Identities -> Sessions \cup {None}]
    /\ assignedIPs \in [Addresses -> Sessions \cup {None}]
    /\ install \in [Workers -> Installations \cup {Idle}]
    /\ late \subseteq Sessions /\ raced \subseteq Addresses

Init ==
    /\ NewEngine
    /\ v1Sessions = {} /\ v2Sessions = {}
    /\ sess = [s \in Sessions |-> [state |-> "New", peerID |-> "", known |-> FALSE,
                                   ip |-> None, installed |-> 0, children |-> <<>>]]
    /\ identityMap = [id \in Identities |-> None]
    /\ assignedIPs = [ip \in Addresses |-> None]
    /\ install = [w \in Workers |-> Idle]
    /\ late = {} /\ raced = {}

Registered == v1Sessions \cup v2Sessions
Elements(seq) == {seq[i] : i \in DOMAIN seq}

\* Workers between AddOutboundSA and the binding of the address.
Window(ip) == {w \in Workers : install[w].step = "bind" /\ sess[install[w].session].ip = ip}

(***************************************************************************)
(* evictSessionLocked, gone being the session to evict or None: what it    *)
(* leaves of each table.  A session that is in neither session table only  *)
(* loses its address, and one address at most: the loop over assignedIPs   *)
(* stops at the first it finds.                                            *)
(***************************************************************************)
childSPIsFirst(gone) ==
    IF gone \in Registered /\ sess[gone].children /= <<>> THEN {sess[gone].children[1]} ELSE {}
childSPIs(gone) == IF gone \in Registered THEN Elements(sess[gone].children) ELSE {}

identitiesUnchecked(gone) == {id \in Identities : gone \in Registered /\ sess[gone].peerID = id}
identitiesOf(gone) ==
    {id \in Identities : gone \in Registered /\ sess[gone].peerID = id /\ identityMap[id] = gone}

marked(gone) == IF gone \in Registered THEN [sess EXCEPT ![gone].state = "Deleting"] ELSE sess
forgotten(gone) ==
    [id \in Identities |-> IF id \in identitiesOf(gone) THEN None ELSE identityMap[id]]

boundTo(gone) == {ip \in Addresses : gone /= None /\ assignedIPs[ip] = gone}
unbindings(gone) == IF boundTo(gone) = {} THEN {{}} ELSE {{ip} : ip \in boundTo(gone)}

evictSessionLocked(gone) ==
    /\ bySPI' = RemoveInboundSAs(childSPIs(gone))
    /\ \E unbound \in unbindings(gone) :
          /\ assignedIPs' = [ip \in Addresses |-> IF ip \in unbound THEN None ELSE assignedIPs[ip]]
          /\ spd' = RemoveOutboundSAs(unbound)
          /\ raced' = raced \cup {ip \in unbound : Window(ip) /= {}}
    /\ UNCHANGED <<install, late, defaultOutSA, loop>>

(***************************************************************************)
(* RegisterV2Session and RegisterV1Session: a session whose peer identity  *)
(* is known evicts the one that is registered under it.  No session is     *)
(* ever registered under the empty identity.                               *)
(***************************************************************************)
holderOf(id) == IF id = "" THEN None ELSE identityMap[id]

\* Mutant of register: a session without a peer identity is entered as well.
registerNameless(s, id) ==
    /\ sess[s].state = "New"
    /\ sess' = [marked(holderOf(id)) EXCEPT ![s].state = "Active", ![s].peerID = id,
                                            ![s].known = (id /= "")]
    /\ identityMap' = [name \in Identities \cup {id} |->
                          IF name = id THEN s ELSE forgotten(holderOf(id))[name]]
    /\ evictSessionLocked(holderOf(id))

register(s, id) ==
    /\ sess[s].state = "New"
    /\ sess' = [marked(holderOf(id)) EXCEPT ![s].state = "Active", ![s].peerID = id,
                                            ![s].known = (id /= "")]
    /\ identityMap' = IF id = "" THEN identityMap ELSE [forgotten(holderOf(id)) EXCEPT ![id] = s]
    /\ evictSessionLocked(holderOf(id))

RegisterV2Session(s, id) ==
    /\ s \in V2
    /\ register(s, id)
    /\ v2Sessions' = (v2Sessions \ {holderOf(id)}) \cup {s}
    /\ v1Sessions' = v1Sessions \ {holderOf(id)}

RegisterV1Session(s, id) ==
    /\ s \in V1
    /\ register(s, id)
    /\ v1Sessions' = (v1Sessions \ {holderOf(id)}) \cup {s}
    /\ v2Sessions' = v2Sessions \ {holderOf(id)}

\* DeleteV2Session and DeleteV1Session; both look into both tables.
DeleteSession(s) ==
    /\ sess[s].state /= "New"
    /\ sess' = marked(s)
    /\ identityMap' = forgotten(s)
    /\ v1Sessions' = v1Sessions \ {s} /\ v2Sessions' = v2Sessions \ {s}
    /\ evictSessionLocked(s)

(***************************************************************************)
(* What the handshakes do to a session object, under its own mutex: they   *)
(* learn the identity of the peer (HandleAuth, HandleMainMode5) and append *)
(* the child SAs that were negotiated.  The SPI of a child is random: no   *)
(* two children have the same, and one may fall into the reserved range.   *)
(***************************************************************************)
LearnPeerID(s, id) ==
    /\ sess[s].state = "Active" /\ sess[s].peerID = ""
    /\ sess' = [sess EXCEPT ![s].peerID = id]
    /\ UNCHANGED <<v1Sessions, v2Sessions, identityMap, assignedIPs, install, late, raced, espVars>>

NewChild(s, spi, ip) ==
    /\ sess[s].state = "Active"
    /\ Len(sess[s].children) < MaxChildren
    /\ \A t \in Sessions : spi \notin Elements(sess[t].children)
    /\ sess[s].children /= <<>> => ip = sess[s].ip
    /\ sess' = [sess EXCEPT ![s].children = Append(@, spi), ![s].ip = ip]
    /\ UNCHANGED <<v1Sessions, v2Sessions, identityMap, assignedIPs, install, late, raced, espVars>>

(***************************************************************************)
(* InstallV2ChildSA and InstallV1ChildSA, for a child with an AEAD cipher  *)
(* (buildESPSA refuses the others before anything has changed).            *)
(***************************************************************************)
InstallChildSA(w, s) ==
    /\ install[w] = Idle
    /\ sess[s].installed < Len(sess[s].children)
    /\ sess' = [sess EXCEPT ![s].installed = @ + 1]
    /\ install' = [install EXCEPT ![w] = [step |-> "inbound", session |-> s,
                                          spi |-> sess[s].children[sess[s].installed + 1]]]
    /\ UNCHANGED <<v1Sessions, v2Sessions, identityMap, assignedIPs, late, raced, espVars>>

lateIf(s) == IF sess[s].state = "Deleting" THEN late \cup {s} ELSE late

installInbound(w) ==
    LET s == install[w].session IN
    /\ install[w].step = "inbound"
    /\ bySPI' = AddInboundSA(install[w].spi, s)
    /\ install' = [install EXCEPT ![w] = IF sess[s].ip = None THEN Idle
                                         ELSE [@ EXCEPT !.step = "outbound"]]
    /\ late' = lateIf(s)
    /\ UNCHANGED <<smVars, raced, spd, defaultOutSA, loop>>

installOutbound(w) ==
    LET s == install[w].session  ip == sess[s].ip IN
    /\ install[w].step = "outbound"
    /\ spd' = AddOutboundSA(ip, s)
    /\ install' = [install EXCEPT ![w].step = "bind"]
    /\ raced' = IF Window(ip) = {} THEN raced \ {ip} ELSE raced \cup {ip}
    /\ late' = lateIf(s)
    /\ UNCHANGED <<smVars, bySPI, defaultOutSA, loop>>

installBind(w) ==
    LET s == install[w].session IN
    /\ install[w].step = "bind"
    /\ assignedIPs' = [assignedIPs EXCEPT ![sess[s].ip] = s]
    /\ install' = [install EXCEPT ![w] = Idle]
    /\ late' = lateIf(s)
    /\ UNCHANGED <<v1Sessions, v2Sessions, sess, identityMap, raced, espVars>>

\* A DELETE payload for ESP: HandleInformational removes what the peer names.
DeleteESP(spi) ==
    /\ bySPI[spi] /= NoSA
    /\ bySPI' = RemoveInboundSAs({spi})
    /\ UNCHANGED <<smVars, install, late, raced, spd, defaultOutSA, loop>>

Engine ==
    /\ \/ \E sa \in {StaticSA, NoSA} : SetDefaultOutboundSA(sa)
       \/ \E dst \in Addresses \cup {None} : outboundLookup(dst)
       \/ outboundSend
    /\ UNCHANGED <<smVars, install, late, raced>>

Next ==
    \/ \E s \in Sessions, id \in Identities \cup {""} :
          RegisterV2Session(s, id) \/ RegisterV1Session(s, id)
    \/ \E s \in Sessions : DeleteSession(s)
    \/ \E s \in Sessions, id \in Identities : LearnPeerID(s, id)
    \/ \E s \in Sessions, spi \in SPIs, ip \in Addresses \cup {None} : NewChild(s, spi, ip)
    \/ \E w \in Workers, s \in Sessions : InstallChildSA(w, s)
    \/ \E w \in Workers : installInbound(w) \/ installOutbound(w) \/ installBind(w)
    \/ \E spi \in SPIs : DeleteESP(spi)
    \/ Engine

Spec == Init /\ [][Next]_vars

-----------------------------------------------------------------------------

(***************************************************************************)
(* The identity table names exactly the sessions that were registered      *)
(* under an identity and are still in a session table, so that there is at *)
(* most one of them for an identity: RegisterV1Session and                 *)
(* RegisterV2Session find every one they must evict, and no eviction takes *)
(* another session's entry away.                                           *)
(***************************************************************************)
IdentityMapExact ==
    \A s \in Sessions, id \in Identities :
        (identityMap[id] = s) <=> (s \in Registered /\ sess[s].known /\ sess[s].peerID = id)

(***************************************************************************)
(* Eviction is complete: a session that is being deleted has no inbound SA *)
(* and no address left, unless it was installed after evictSessionLocked   *)
(* had gone through it.                                                    *)
(***************************************************************************)
EvictionComplete ==
    \A s \in Sessions \ late :
        sess[s].state = "Deleting" =>
            /\ s \notin Registered
            /\ \A spi \in SPIs : bySPI[spi] /= s
            /\ \A ip \in Addresses : assignedIPs[ip] /= s

(***************************************************************************)
(* The policy database of the ESP engine follows the addresses the manager *)
(* has bound: an address has a route if and only if it is bound, and the   *)
(* route belongs to the session it is bound to, whoever reconnects, rekeys *)
(* or is evicted.  Two mutexes guard the two tables, so this is claimed    *)
(* only of an address that nobody is binding and whose last binding was    *)
(* not interrupted between them.                                           *)
(***************************************************************************)
RouteMatchesBinding ==
    \A ip \in Addresses \ raced : Window(ip) = {} => spd[ip] = assignedIPs[ip]

(***************************************************************************)
(* Once a session has been evicted the outbound loop takes no further      *)
(* packet for its SA; only the packet in hand at that time may still leave *)
(* (outboundLoop uses the SA after it has let go of the mutex).            *)
(***************************************************************************)
QuietAfterEviction ==
    [][\A s \in Sessions \ late :
          (sess[s].state = "Deleting" /\ loop = NoSA /\ loop' = s)
            => \E ip \in Addresses : spd[ip] = s /\ (ip \in raced \/ Window(ip) /= {})]_vars
=============================================================================
