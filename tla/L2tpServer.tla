----------------------------- MODULE L2tpServer -----------------------------
(***************************************************************************)
(* The L2TP network server: its tunnel maps, the tunnel and session state  *)
(* machines and the addresses the sessions hold (internal/l2tp/server.go,  *)
(* tunnel.go, and InitPPP and close of session.go).                        *)
(*                                                                         *)
(* HandlePacket is called by two read loops, the one of port 4500 (through *)
(* the ESP engine) and the one of port 1701; each is a handler here.  A    *)
(* handler takes s.mu, t.mu and the session's mutex one after the other    *)
(* and never holds them over a whole message: each locked stretch is a     *)
(* step, and what was read in one may be stale in the next.  Every tunnel  *)
(* has a Run goroutine, and the main goroutine calls Close at shutdown.    *)
(*                                                                         *)
(* A tunnel or a session is an object, numbered in the order of creation,  *)
(* and stays one when the maps have forgotten it.  What the control        *)
(* channel keeps is left to the module ControlChannel: the messages it     *)
(* accepts come in any order, those it holds back (duplicates, gaps, ZLBs) *)
(* and Hellos change nothing here, and any retransmit tick may be the one  *)
(* that gives up.  The pool is the set of leased addresses: Allocate       *)
(* returns any free one and fails when there is none, as AddressPool       *)
(* promises.                                                               *)
(***************************************************************************)
EXTENDS Integers, FiniteSets

CONSTANTS
    Handlers,     \* the read loops that call HandlePacket
    Keys,         \* tunnelKey: the peer's address and its tunnel ID
    RemoteIDs,    \* the session IDs that peers assign
    IdSpace,      \* size of a tunnel or session ID: 2^16
    IPs,          \* the addresses of the L2TP pool
    MaxTunnels,   \* bound: tunnels created in a behaviour
    MaxSessions   \* bound: sessions created in a behaviour

ASSUME IdSpaceAssumption == IdSpace \in Nat /\ IdSpace > 1
ASSUME RemoteIDsAssumption == RemoteIDs \subseteq 1 .. IdSpace - 1
ASSUME BoundsAssumption == MaxTunnels \in Nat /\ MaxSessions \in Nat

NoIP == 0
ASSUME IPsAssumption == NoIP \notin IPs

VARIABLES
    ntunnels,       \* number of tunnel objects created
    nsessions,      \* number of session objects created
    nextTunnelID,   \* s.nextTunnelID, modulo IdSpace
    tunnels,        \* s.tunnels: a tunnel or 0 for each key
    byLocalID,      \* s.tunnelsByLocalID: a tunnel or 0 for each ID
    tun,            \* the tunnel objects: state, localTunnelID, nextSessionID, sessions
    sess,           \* the session objects: tunnel, state, remoteSessionID, assignedIP
    running,        \* the tunnels whose Run goroutine is in its loop
    timedOut,       \* the tunnels whose Run goroutine is between onTimeout and the deferred unlock
    leased,         \* the addresses the pool has handed out
    handler,        \* what each handler is doing
    phase           \* of the process: "up", "stopping" (context done), "closed", "crashed"

mapsVars == <<tunnels, byLocalID>>
vars == <<ntunnels, nsessions, nextTunnelID, tunnels, byLocalID, tun, sess,
          running, timedOut, leased, handler, phase>>

Tunnels  == 1 .. MaxTunnels
Sessions == 1 .. MaxSessions
IDs      == 1 .. IdSpace - 1

TunnelStates  == {"none", "Idle", "WaitCtlConn", "Established", "Dead"}
SessionStates == {"none", "WaitConnect", "Established", "Closed"}

NoTunnel  == [state |-> "none", localTunnelID |-> 0, nextSessionID |-> 1,
              sessions |-> [i \in IDs |-> 0]]
NoSession == [state |-> "none", tunnel |-> 0, remoteSessionID |-> 0, assignedIP |-> NoIP]

\* A handler between messages; otherwise the step it is at and its local variables.
Idle == [at |-> "idle", t |-> 0, key |-> "", sid |-> 0, s |-> 0, ip |-> NoIP]

ControlMessages == {"SCCCN", "ICRQ", "ICCN", "CDN", "StopCCN"}
Steps == {"idle", "register", "connect", "established", "allocate", "init", "full", "close", "remove"}
             \cup ControlMessages

TypeOK ==
    /\ ntunnels \in 0 .. MaxTunnels /\ nsessions \in 0 .. MaxSessions
    /\ nextTunnelID \in IDs
    /\ tunnels \in [Keys -> 0 .. MaxTunnels]
    /\ byLocalID \in [IDs -> 0 .. MaxTunnels]
    /\ tun \in [Tunnels -> [state : TunnelStates, localTunnelID : {0} \cup IDs,
                            nextSessionID : IDs, sessions : [IDs -> 0 .. MaxSessions]]]
    /\ sess \in [Sessions -> [state : SessionStates, tunnel : 0 .. MaxTunnels,
                              remoteSessionID : {0} \cup RemoteIDs, assignedIP : IPs \cup {NoIP}]]
    /\ running \subseteq Tunnels /\ timedOut \subseteq Tunnels
    /\ leased \subseteq IPs
    /\ handler \in [Handlers -> [at : Steps, t : 0 .. MaxTunnels, key : Keys \cup {""},
                                 sid : {0} \cup IDs, s : 0 .. MaxSessions,
                                 ip : IPs \cup {NoIP}]]
    /\ phase \in {"up", "stopping", "closed", "crashed"}

Init ==
    /\ ntunnels = 0 /\ nsessions = 0
    /\ nextTunnelID = 1
    /\ tunnels = [k \in Keys |-> 0]
    /\ byLocalID = [i \in IDs |-> 0]
    /\ tun = [t \in Tunnels |-> NoTunnel]
    /\ sess = [s \in Sessions |-> NoSession]
    /\ running = {} /\ timedOut = {}
    /\ leased = {}
    /\ handler = [h \in Handlers |-> Idle]
    /\ phase = "up"
-----------------------------------------------------------------------------
Up == phase # "crashed"

At(h, step) == Up /\ handler[h].at = step

Goto(h, rec) == handler' = [handler EXCEPT ![h] = rec]

Done(h) == Goto(h, Idle)

\* Mutant of nextID: 0, the ID that means "none", is not skipped.
nextIDZero(id) == (id + 1) % IdSpace

\* Add(1) on the atomic counter, cut to 16 bits, and once more if that is 0.
nextID(id) == IF (id + 1) % IdSpace = 0 THEN 1 ELSE (id + 1) % IdSpace

(***************************************************************************)
(* Session.close on each session of a set: once closed, never again; the   *)
(* address goes back to the pool.                                          *)
(***************************************************************************)
\* Mutant of closed: the address is released but the state is not set to Closed.
closedNotMarked(S) == sess

closed(S) ==
    [s \in Sessions |-> IF s \in S THEN [sess[s] EXCEPT !.state = "Closed"] ELSE sess[s]]

\* Mutant of released: the address is not given back to the pool.
releasedNothing(S) == leased

released(S) ==
    leased \ {sess[s].assignedIP : s \in {r \in S : sess[r].state # "Closed"}}

SessionsOf(t) == {tun[t].sessions[i] : i \in IDs} \ {0}
-----------------------------------------------------------------------------
(***************************************************************************)
(* handleNewTunnel up to the registration: a new object, and HandleSCCRQ   *)
(* on it, which sends the SCCRP.  A SCCRQ without an Assigned Tunnel ID    *)
(* leaves the object idle, one of another protocol version leaves it dead; *)
(* neither object is registered.                                           *)
(***************************************************************************)
handleNewTunnel(h, key, outcome) ==
    /\ At(h, "idle")
    /\ ntunnels < MaxTunnels
    /\ ntunnels' = ntunnels + 1
    /\ nextTunnelID' = nextID(nextTunnelID)
    /\ tun' = [tun EXCEPT ![ntunnels'] = [NoTunnel EXCEPT !.state = outcome,
                                                         !.localTunnelID = nextTunnelID']]
    /\ IF outcome = "WaitCtlConn"
       THEN Goto(h, [Idle EXCEPT !.at = "register", !.t = ntunnels', !.key = key])
       ELSE UNCHANGED handler
    /\ UNCHANGED <<nsessions, mapsVars, sess, running, timedOut, leased, phase>>

\* The rest of handleNewTunnel: the maps under s.mu, whatever they held, and go Run.
registerTunnel(h) ==
    /\ At(h, "register")
    /\ tunnels' = [tunnels EXCEPT ![handler[h].key] = handler[h].t]
    /\ byLocalID' = [byLocalID EXCEPT ![tun[handler[h].t].localTunnelID] = handler[h].t]
    /\ running' = running \cup {handler[h].t}
    /\ Done(h)
    /\ UNCHANGED <<ntunnels, nsessions, nextTunnelID, tun, sess, timedOut, leased, phase>>

\* handleControlMessage finds the tunnel; the message is routed with what was found.
handleControlMessage(h, id, msg, sid) ==
    /\ At(h, "idle")
    /\ byLocalID[id] # 0
    /\ Goto(h, [Idle EXCEPT !.at = msg, !.t = byLocalID[id], !.sid = sid])
    /\ UNCHANGED <<ntunnels, nsessions, nextTunnelID, mapsVars, tun, sess, running, timedOut,
                   leased, phase>>
-----------------------------------------------------------------------------
HandleSCCCN(h) ==
    /\ At(h, "SCCCN")
    /\ tun' = IF tun[handler[h].t].state = "WaitCtlConn"
              THEN [tun EXCEPT ![handler[h].t].state = "Established"] ELSE tun
    /\ Done(h)
    /\ UNCHANGED <<ntunnels, nsessions, nextTunnelID, mapsVars, sess, running, timedOut,
                   leased, phase>>

\* A new session in the map of tunnel t, under the next local ID, and the ICRP.
AddSession(t, remote) ==
    LET id == nextID(tun[t].nextSessionID) IN
    /\ nsessions < MaxSessions
    /\ nsessions' = nsessions + 1
    /\ sess' = [sess EXCEPT ![nsessions'] = [NoSession EXCEPT
                    !.state = "WaitConnect", !.tunnel = t, !.remoteSessionID = remote]]
    /\ tun' = [tun EXCEPT ![t].nextSessionID = id, ![t].sessions[id] = nsessions']

\* Mutant of HandleICRQ: a session is created whatever the tunnel's state.
HandleICRQAnyState(h) ==
    /\ At(h, "ICRQ")
    /\ AddSession(handler[h].t, handler[h].sid)
    /\ Done(h)
    /\ UNCHANGED <<ntunnels, nextTunnelID, mapsVars, running, timedOut, leased, phase>>

\* ICRQ: sid is the peer's Assigned Session ID.
HandleICRQ(h) ==
    /\ At(h, "ICRQ")
    /\ IF tun[handler[h].t].state = "Established"
       THEN AddSession(handler[h].t, handler[h].sid)
       ELSE UNCHANGED <<nsessions, sess, tun>>
    /\ Done(h)
    /\ UNCHANGED <<ntunnels, nextTunnelID, mapsVars, running, timedOut, leased, phase>>
-----------------------------------------------------------------------------
(***************************************************************************)
(* ICCN: sid is the session ID of the header.  HandleICCN looks the        *)
(* session up under t.mu; handleICCN moves it under its own mutex.         *)
(***************************************************************************)
HandleICCN(h) ==
    LET s == tun[handler[h].t].sessions[handler[h].sid] IN
    /\ At(h, "ICCN")
    /\ IF s # 0 THEN Goto(h, [handler[h] EXCEPT !.at = "connect", !.s = s]) ELSE Done(h)
    /\ UNCHANGED <<ntunnels, nsessions, nextTunnelID, mapsVars, tun, sess, running, timedOut,
                   leased, phase>>

\* Mutant of handleICCN: the session's state is not checked.
handleICCNAnyState(h) ==
    /\ At(h, "connect")
    /\ sess' = [sess EXCEPT ![handler[h].s].state = "Established"]
    /\ Goto(h, [handler[h] EXCEPT !.at = "established"])
    /\ UNCHANGED <<ntunnels, nsessions, nextTunnelID, mapsVars, tun, running, timedOut,
                   leased, phase>>

handleICCN(h) ==
    LET s == handler[h].s IN
    /\ At(h, "connect")
    /\ IF sess[s].state = "WaitConnect"
       THEN /\ sess' = [sess EXCEPT ![s].state = "Established"]
            /\ Goto(h, [handler[h] EXCEPT !.at = "established"])
       ELSE UNCHANGED sess /\ Done(h)
    /\ UNCHANGED <<ntunnels, nsessions, nextTunnelID, mapsVars, tun, running, timedOut,
                   leased, phase>>

(***************************************************************************)
(* routeControlMessage, after HandleICCN: GetSession looks the session up  *)
(* again, under t.mu; allocateIP then asks the pool, under its own lock.   *)
(***************************************************************************)
GetSession(h) ==
    LET s == tun[handler[h].t].sessions[handler[h].sid] IN
    /\ At(h, "established")
    /\ IF s # 0 THEN Goto(h, [handler[h] EXCEPT !.at = "allocate", !.s = s]) ELSE Done(h)
    /\ UNCHANGED <<ntunnels, nsessions, nextTunnelID, mapsVars, tun, sess, running, timedOut,
                   leased, phase>>

allocateIP(h) ==
    /\ At(h, "allocate")
    /\ \/ \E ip \in IPs \ leased :
             /\ leased' = leased \cup {ip}
             /\ Goto(h, [handler[h] EXCEPT !.at = "init", !.ip = ip])
       \/ /\ leased = IPs
          /\ Goto(h, [handler[h] EXCEPT !.at = "full"])
          /\ UNCHANGED leased
    /\ UNCHANGED <<ntunnels, nsessions, nextTunnelID, mapsVars, tun, sess, running, timedOut,
                   phase>>

\* InitPPP: whatever the session's state, it keeps the address.
InitPPP(h) ==
    /\ At(h, "init")
    /\ sess' = [sess EXCEPT ![handler[h].s].assignedIP = handler[h].ip]
    /\ Done(h)
    /\ UNCHANGED <<ntunnels, nsessions, nextTunnelID, mapsVars, tun, running, timedOut,
                   leased, phase>>

\* SendCDN with result 4, the pool is exhausted: the session under that ID goes.
SendCDN(h) ==
    LET t == handler[h].t
        s == tun[t].sessions[handler[h].sid] IN
    /\ At(h, "full")
    /\ sess' = closed({s})
    /\ leased' = released({s} \ {0})
    /\ tun' = [tun EXCEPT ![t].sessions[handler[h].sid] = 0]
    /\ Done(h)
    /\ UNCHANGED <<ntunnels, nsessions, nextTunnelID, mapsVars, running, timedOut, phase>>

(***************************************************************************)
(* HandleCDN: sid is the message's Assigned Session ID, looked up among    *)
(* the LOCAL session IDs.  The session leaves the map under t.mu and is    *)
(* closed after the unlock.                                                *)
(***************************************************************************)
HandleCDN(h) ==
    LET t == handler[h].t
        s == tun[t].sessions[handler[h].sid] IN
    /\ At(h, "CDN")
    /\ IF s # 0
       THEN /\ tun' = [tun EXCEPT ![t].sessions[handler[h].sid] = 0]
            /\ Goto(h, [handler[h] EXCEPT !.at = "close", !.s = s])
       ELSE UNCHANGED tun /\ Done(h)
    /\ UNCHANGED <<ntunnels, nsessions, nextTunnelID, mapsVars, sess, running, timedOut,
                   leased, phase>>

closeSession(h) ==
    /\ At(h, "close")
    /\ sess' = closed({handler[h].s})
    /\ leased' = released({handler[h].s})
    /\ Done(h)
    /\ UNCHANGED <<ntunnels, nsessions, nextTunnelID, mapsVars, tun, running, timedOut, phase>>

\* Every session of each tunnel of a set closed, the maps emptied, the tunnels dead.
TearDown(T) ==
    LET S == UNION {SessionsOf(t) : t \in T} IN
    /\ sess' = closed(S)
    /\ leased' = released(S)
    /\ tun' = [t \in Tunnels |-> IF t \in T
                  THEN [tun[t] EXCEPT !.state = "Dead", !.sessions = NoTunnel.sessions]
                  ELSE tun[t]]

HandleStopCCN(h) ==
    /\ At(h, "StopCCN")
    /\ TearDown({handler[h].t})
    /\ Goto(h, [handler[h] EXCEPT !.at = "remove"])
    /\ UNCHANGED <<ntunnels, nsessions, nextTunnelID, mapsVars, running, timedOut, phase>>

\* Mutant of removeTunnel: only the map by local ID is cleaned.
removeTunnelHalf(h) ==
    /\ At(h, "remove")
    /\ byLocalID' = [byLocalID EXCEPT ![tun[handler[h].t].localTunnelID] = 0]
    /\ Done(h)
    /\ UNCHANGED <<ntunnels, nsessions, nextTunnelID, tunnels, tun, sess, running, timedOut,
                   leased, phase>>

removeTunnel(h) ==
    /\ At(h, "remove")
    /\ byLocalID' = [byLocalID EXCEPT ![tun[handler[h].t].localTunnelID] = 0]
    /\ tunnels' = [k \in Keys |-> IF tunnels[k] = handler[h].t THEN 0 ELSE tunnels[k]]
    /\ Done(h)
    /\ UNCHANGED <<ntunnels, nsessions, nextTunnelID, tun, sess, running, timedOut, leased, phase>>
-----------------------------------------------------------------------------
(***************************************************************************)
(* Run, retransmit tick, at the retry limit: onTimeout marks the tunnel    *)
(* dead under t.mu.  Its sessions stay open and its maps stay as they are, *)
(* and the other goroutines go on.                                         *)
(***************************************************************************)
onTimeout(t) ==
    /\ Up /\ t \in running
    /\ tun' = [tun EXCEPT ![t].state = "Dead"]
    /\ running' = running \ {t} /\ timedOut' = timedOut \cup {t}
    /\ UNCHANGED <<ntunnels, nsessions, nextTunnelID, mapsVars, sess, leased, handler, phase>>

(***************************************************************************)
(* The deferred unlock of CheckRetransmit then ends the process, here or   *)
(* in the Send whose lock it takes away (the module ControlChannel has the *)
(* details).                                                               *)
(***************************************************************************)
deferredUnlock(t) ==
    /\ Up /\ t \in timedOut
    /\ phase' = "crashed"
    /\ UNCHANGED <<ntunnels, nsessions, nextTunnelID, mapsVars, tun, sess, running, timedOut,
                   leased, handler>>

\* Run returns because its context is done.
runDone(t) ==
    /\ phase \in {"stopping", "closed"} /\ t \in running
    /\ running' = running \ {t}
    /\ UNCHANGED <<ntunnels, nsessions, nextTunnelID, mapsVars, tun, sess, timedOut, leased,
                   handler, phase>>

\* SIGINT or SIGTERM: the root context is done.
Shutdown ==
    /\ phase = "up"
    /\ phase' = "stopping"
    /\ UNCHANGED <<ntunnels, nsessions, nextTunnelID, mapsVars, tun, sess, running, timedOut,
                   leased, handler>>

(***************************************************************************)
(* Server.Close, under s.mu: Tunnel.Close for what is in s.tunnels (a      *)
(* StopCCN unless the tunnel is dead already, and the cancel of its Run),  *)
(* then both maps are replaced.                                            *)
(***************************************************************************)
Close ==
    LET T == {tunnels[k] : k \in Keys} \ {0} IN
    /\ phase = "stopping"
    /\ phase' = "closed"
    /\ TearDown(T)
    /\ running' = running \ T
    /\ tunnels' = [k \in Keys |-> 0]
    /\ byLocalID' = [i \in IDs |-> 0]
    /\ UNCHANGED <<ntunnels, nsessions, nextTunnelID, timedOut, handler>>

\* The session ID a message carries: of ours in ICCN and CDN, the peer's own in ICRQ.
SessionIDs(msg) ==
    CASE msg \in {"ICCN", "CDN"} -> IDs
      [] msg = "ICRQ" -> RemoteIDs
      [] OTHER -> {0}

Step(h) ==
    \/ registerTunnel(h)
    \/ HandleSCCCN(h)
    \/ HandleICRQ(h)
    \/ HandleICCN(h)
    \/ handleICCN(h)
    \/ GetSession(h)
    \/ allocateIP(h)
    \/ InitPPP(h)
    \/ SendCDN(h)
    \/ HandleCDN(h)
    \/ closeSession(h)
    \/ HandleStopCCN(h)
    \/ removeTunnel(h)

Next ==
    \/ \E h \in Handlers :
          \/ \E key \in Keys, outcome \in {"WaitCtlConn", "Idle", "Dead"} :
                handleNewTunnel(h, key, outcome)
          \/ \E id \in IDs, msg \in ControlMessages : \E sid \in SessionIDs(msg) :
                handleControlMessage(h, id, msg, sid)
          \/ Step(h)
    \/ \E t \in Tunnels : onTimeout(t) \/ deferredUnlock(t) \/ runDone(t)
    \/ Shutdown
    \/ Close

Spec == Init /\ [][Next]_vars
-----------------------------------------------------------------------------
Open(s) == sess[s].state \in {"WaitConnect", "Established"}

\* The addresses that handlers hold between allocateIP and InitPPP.
InHand == {handler[h].ip : h \in {g \in Handlers : handler[g].at = "init"}}

(***************************************************************************)
(* No two open sessions have the same address, and the address of an open  *)
(* session is never free in the pool nor on its way to another session,    *)
(* however the two read loops and Close interleave (InitPPP, close).       *)
(***************************************************************************)
AddressExclusive ==
    \A s \in Sessions : Open(s) /\ sess[s].assignedIP # NoIP =>
        /\ sess[s].assignedIP \in leased \ InHand
        /\ \A r \in Sessions \ {s} : Open(r) => sess[r].assignedIP # sess[s].assignedIP

(***************************************************************************)
(* Until the server is closed, every address the pool has handed out       *)
(* belongs to an open session or is on its way to one: closing a session   *)
(* gives its address back ("close cleans up session resources.").          *)
(***************************************************************************)
NoAddressLost ==
    phase \in {"up", "stopping"} =>
        leased \subseteq InHand \cup {sess[s].assignedIP : s \in {r \in Sessions : Open(r)}}

(***************************************************************************)
(* A tunnel that is dead stays dead and a session that is closed stays     *)
(* closed, although a handler may still hold a pointer to it from before   *)
(* (HandleSCCCN, handleICCN).                                              *)
(***************************************************************************)
NothingRevived ==
    [][/\ \A t \in Tunnels : tun[t].state = "Dead" => tun'[t].state = "Dead"
       /\ \A s \in Sessions : sess[s].state = "Closed" => sess'[s].state = "Closed"]_vars

(***************************************************************************)
(* A tunnel that a StopCCN or Close made dead has no open session: no ICRQ *)
(* slips in beside the tear-down.  Two exceptions, and no third: a session *)
(* that a CDN took out of the map and is about to close, and those of a    *)
(* tunnel that has timed out, which onTimeout leaves open in the tunnel's  *)
(* map, where a StopCCN or Close still finds them, until the process ends. *)
(***************************************************************************)
DeadTunnelIsEmpty ==
    \A s \in Sessions : Open(s) /\ tun[sess[s].tunnel].state = "Dead" =>
        \/ \E h \in Handlers : handler[h].at = "close" /\ handler[h].s = s
        \/ /\ sess[s].tunnel \in timedOut
           /\ \E i \in IDs : tun[sess[s].tunnel].sessions[i] = s

(***************************************************************************)
(* While the server runs, the packets of a live registered tunnel find it  *)
(* under its local ID, and a tunnel in s.tunnels is in tunnelsByLocalID    *)
(* too (handleNewTunnel, removeTunnel), as long as no more tunnels were    *)
(* created than there are IDs.                                             *)
(***************************************************************************)
TunnelReachable ==
    phase \in {"up", "stopping"} =>
        /\ \A t \in running : tun[t].state # "Dead" => byLocalID[tun[t].localTunnelID] = t
        /\ \A k \in Keys : tunnels[k] # 0 =>
              byLocalID[tun[tunnels[k]].localTunnelID] = tunnels[k]
=============================================================================
