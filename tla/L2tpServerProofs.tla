-------------------------- MODULE L2tpServerProofs --------------------------
(***************************************************************************)
(* The L2TP server, for any number of read loops, tunnels, sessions and    *)
(* addresses, and the pool it takes the addresses from, of every size and  *)
(* with any set of callers.                                                *)
(*                                                                         *)
(* Four invariants of the server, one on top of the other: what the        *)
(* handlers' local variables point at exists (Base); who holds which       *)
(* address, counting the handlers between allocateIP and InitPPP           *)
(* (Addresses); an open session is in its tunnel's map or in the hands of  *)
(* a CDN, and only a tunnel that timed out is dead with sessions in its    *)
(* map (SessionsKept); and the two maps of tunnels agree (Registered).     *)
(* The last two need every ID to be given once, that is fewer sessions or  *)
(* tunnels than IDs: the code does not ask whether the next ID is taken.   *)
(* The pool has its own, PoolInv, at the end.                              *)
(***************************************************************************)
EXTENDS L2tpServer, IpamPool, TLAPS

TunnelObjects ==
    [state : TunnelStates, localTunnelID : {0} \cup IDs, nextSessionID : IDs,
     sessions : [IDs -> 0 .. MaxSessions]]
SessionObjects ==
    [state : SessionStates, tunnel : 0 .. MaxTunnels, remoteSessionID : {0} \cup RemoteIDs,
     assignedIP : IPs \cup {NoIP}]
HandlerStates ==
    [at : Steps, t : 0 .. MaxTunnels, key : Keys \cup {""}, sid : {0} \cup IDs,
     s : 0 .. MaxSessions, ip : IPs \cup {NoIP}]

\* The steps at which a handler has found a session, and those that look one up.
HasSession == {"connect", "allocate", "init", "close"}
LooksUp == {"ICCN", "CDN", "connect", "established", "allocate", "full"}

\* What is not created yet is blank.
Blank ==
    /\ \A t \in Tunnels : t > ntunnels => tun[t] = NoTunnel
    /\ \A s \in Sessions : s > nsessions => sess[s].state = "none"

\* What a handler at each step has in its local variables.
HandlerOK(rec, nt, ns) ==
    /\ rec.at # "idle" => rec.t \in 1 .. nt
    /\ rec.at \in HasSession => rec.s \in 1 .. ns
    /\ rec.at \in LooksUp => rec.sid \in IDs
    /\ rec.at = "ICRQ" => rec.sid \in RemoteIDs
    /\ rec.at = "register" => rec.key \in Keys
    /\ rec.at = "init" => rec.ip \in IPs

\* The maps and the handlers point at what was created.
Pointers ==
    /\ \A k \in Keys : tunnels[k] <= ntunnels
    /\ \A i \in IDs : byLocalID[i] <= ntunnels
    /\ \A t \in Tunnels, i \in IDs : tun[t].sessions[i] <= nsessions
    /\ \A h \in Handlers : HandlerOK(handler[h], ntunnels, nsessions)
    /\ running \subseteq 1 .. ntunnels

Base == TypeOK /\ Blank /\ Pointers

-----------------------------------------------------------------------------

Holder(s) == sess[s].state # "Closed" /\ sess[s].assignedIP # NoIP

\* Sessions that are not closed and handlers hold leased addresses, each its own.
Addresses ==
    /\ \A s \in Sessions : Holder(s) => sess[s].assignedIP \in leased
    /\ \A s, r \in Sessions : Holder(s) /\ Holder(r) /\ s # r => sess[s].assignedIP # sess[r].assignedIP
    /\ \A h \in Handlers : handler[h].at = "init" => handler[h].ip \in leased
    /\ \A h, g \in Handlers :
          handler[h].at = "init" /\ handler[g].at = "init" /\ h # g => handler[h].ip # handler[g].ip
    /\ \A s \in Sessions, h \in Handlers :
          Holder(s) /\ handler[h].at = "init" => sess[s].assignedIP # handler[h].ip

-----------------------------------------------------------------------------

InMap(s) == \E i \in IDs : tun[sess[s].tunnel].sessions[i] = s
Closing(s) == \E h \in Handlers : handler[h].at = "close" /\ handler[h].s = s

\* As long as another session may come, the next IDs of every tunnel are free.
FreeIDs ==
    nsessions < MaxSessions =>
        \A t \in Tunnels :
            /\ tun[t].nextSessionID <= nsessions + 1
            /\ \A i \in IDs : i = 1 \/ i > tun[t].nextSessionID => tun[t].sessions[i] = 0

\* A StopCCN or Close made the tunnel dead, or it was refused.
TornDown(t) == tun[t].state = "Dead" /\ t \notin timedOut

SessionsKept ==
    /\ \A s \in Sessions : Open(s) => sess[s].tunnel \in Tunnels /\ (InMap(s) \/ Closing(s))
    /\ \A t \in Tunnels, i \in IDs : TornDown(t) => tun[t].sessions[i] = 0
    /\ FreeIDs

-----------------------------------------------------------------------------

\* The local ID of the t-th tunnel.
LocalID(t) == IF t + 1 = IdSpace THEN 1 ELSE t + 1

Registered ==
    /\ nextTunnelID = LocalID(ntunnels)
    /\ \A t \in 1 .. ntunnels : tun[t].localTunnelID = LocalID(t)
    /\ running \subseteq 1 .. ntunnels
    /\ \A h \in Handlers : handler[h].at = "remove" => tun[handler[h].t].state = "Dead"
    /\ TunnelReachable
-----------------------------------------------------------------------------

\* What the assumptions say of the constants.
LEMMA Bounds ==
    /\ IdSpace \in Nat /\ IdSpace > 1 /\ MaxTunnels \in Nat /\ MaxSessions \in Nat
    /\ RemoteIDs \subseteq IDs /\ 1 \in IDs /\ NoIP \notin IPs /\ 0 \notin IDs
  BY IdSpaceAssumption, RemoteIDsAssumption, BoundsAssumption, IPsAssumption DEF IDs

\* nextID skips 0 and stays within the ID space.
LEMMA NextIDFacts ==
    ASSUME NEW id \in IDs
    PROVE  nextID(id) \in IDs /\ nextID(id) = LocalID(id)
  BY Bounds, Z3 DEF nextID, IDs, LocalID

\* An object not yet made, and a handler with nothing to do.
LEMMA BlankTypes ==
    /\ NoTunnel \in TunnelObjects /\ NoSession \in SessionObjects
    /\ Idle \in HandlerStates /\ \A nt, ns : HandlerOK(Idle, nt, ns)
    /\ \A i \in IDs : NoTunnel.sessions[i] = 0
  BY Bounds DEF NoTunnel, NoSession, Idle, TunnelObjects, SessionObjects, HandlerStates, HandlerOK,
                TunnelStates, SessionStates, Steps, HasSession, LooksUp

\* What Base says, in the form the steps use it.
LEMMA BaseFacts ==
    ASSUME Base
    PROVE  /\ ntunnels \in Nat /\ ntunnels <= MaxTunnels /\ nsessions \in Nat /\ nsessions <= MaxSessions
           /\ nextTunnelID \in IDs
           /\ tunnels \in [Keys -> 0 .. ntunnels] /\ byLocalID \in [IDs -> 0 .. ntunnels]
           /\ tun \in [Tunnels -> TunnelObjects] /\ sess \in [Sessions -> SessionObjects]
           /\ running \subseteq 1 .. ntunnels /\ running \subseteq Tunnels
           /\ timedOut \subseteq Tunnels /\ leased \subseteq IPs
           /\ handler \in [Handlers -> HandlerStates]
           /\ \A h \in Handlers : HandlerOK(handler[h], ntunnels, nsessions)
  <1>1. /\ ntunnels \in 0 .. MaxTunnels /\ nsessions \in 0 .. MaxSessions /\ nextTunnelID \in IDs
        /\ tunnels \in [Keys -> 0 .. MaxTunnels] /\ byLocalID \in [IDs -> 0 .. MaxTunnels]
        /\ tun \in [Tunnels -> TunnelObjects] /\ sess \in [Sessions -> SessionObjects]
        /\ running \subseteq Tunnels /\ timedOut \subseteq Tunnels /\ leased \subseteq IPs
        /\ handler \in [Handlers -> HandlerStates]
    BY DEF Base, TypeOK, TunnelObjects, SessionObjects, HandlerStates
  <1>2. /\ \A k \in Keys : tunnels[k] \in 0 .. ntunnels
        /\ \A i \in IDs : byLocalID[i] \in 0 .. ntunnels
    BY <1>1, Bounds DEF Base, Pointers
  <1>3. tunnels \in [Keys -> 0 .. ntunnels] /\ byLocalID \in [IDs -> 0 .. ntunnels]
    BY <1>1, <1>2
  <1> QED BY <1>1, <1>3, Bounds DEF Base, Pointers

\* Each part of Base after a step.
LEMMA BaseParts ==
    ASSUME ntunnels' \in 0 .. MaxTunnels, nsessions' \in 0 .. MaxSessions, nextTunnelID' \in IDs,
           tunnels' \in [Keys -> 0 .. ntunnels'], byLocalID' \in [IDs -> 0 .. ntunnels'],
           tun' \in [Tunnels -> TunnelObjects],
           \A t \in Tunnels : t > ntunnels' => tun'[t] = NoTunnel,
           \A t \in Tunnels, i \in IDs : tun'[t].sessions[i] <= nsessions',
           sess' \in [Sessions -> SessionObjects],
           \A s \in Sessions : s > nsessions' => sess'[s].state = "none",
           running' \subseteq 1 .. ntunnels', timedOut' \subseteq Tunnels, leased' \subseteq IPs,
           handler' \in [Handlers -> HandlerStates],
           \A h \in Handlers : HandlerOK(handler'[h], ntunnels', nsessions'),
           phase' \in {"up", "stopping", "closed", "crashed"}
    PROVE  Base'
  <1>1. Blank' BY DEF Blank
  <1>2. Pointers'
    <2>1. \A k \in Keys : tunnels'[k] <= ntunnels' BY Bounds
    <2>2. \A i \in IDs : byLocalID'[i] <= ntunnels' BY Bounds
    <2> QED BY <2>1, <2>2 DEF Pointers
  <1>3. tunnels' \in [Keys -> 0 .. MaxTunnels] /\ byLocalID' \in [IDs -> 0 .. MaxTunnels]
    <2>1. 0 .. ntunnels' \subseteq 0 .. MaxTunnels BY Bounds
    <2> QED BY <2>1
  <1>4. TypeOK'
    <2>1. running' \subseteq Tunnels BY Bounds DEF Tunnels
    <2> QED BY <1>3, <2>1 DEF TypeOK, TunnelObjects, SessionObjects, HandlerStates
  <1> QED BY <1>1, <1>2, <1>4 DEF Base

\* One handler goes on, while more may have been created.
LEMMA HandlerMoves ==
    ASSUME Base, NEW h \in Handlers, NEW rec \in HandlerStates,
           handler' = [handler EXCEPT ![h] = rec],
           ntunnels' \in Nat, nsessions' \in Nat, ntunnels <= ntunnels', nsessions <= nsessions',
           HandlerOK(rec, ntunnels', nsessions')
    PROVE  /\ handler' \in [Handlers -> HandlerStates]
           /\ \A g \in Handlers : HandlerOK(handler'[g], ntunnels', nsessions')
  <1>1. /\ handler \in [Handlers -> HandlerStates] /\ ntunnels \in Nat /\ nsessions \in Nat
        /\ \A g \in Handlers : HandlerOK(handler[g], ntunnels, nsessions)
    BY BaseFacts
  <1>2. handler' \in [Handlers -> HandlerStates] BY <1>1
  <1>3. ASSUME NEW g \in Handlers PROVE HandlerOK(handler'[g], ntunnels', nsessions')
    <2>1. CASE g = h BY <1>1, <2>1
    <2>2. CASE g # h
      <3>1. handler'[g] = handler[g] BY <1>1, <2>2
      <3>2. HandlerOK(handler[g], ntunnels, nsessions) BY <1>1
      <3>3. HandlerOK(handler[g], ntunnels', nsessions') BY <1>1, <3>2 DEF HandlerOK
      <3> QED BY <3>1, <3>3
    <2> QED BY <2>1, <2>2
  <1> QED BY <1>2, <1>3
-----------------------------------------------------------------------------
\* Base is kept, action by action.

\* The parts of Base that hold of what a step leaves alone.
LEMMA BaseSame ==
    ASSUME Base
    PROVE  /\ ntunnels \in 0 .. MaxTunnels /\ nsessions \in 0 .. MaxSessions
           /\ \A t \in Tunnels : t > ntunnels => tun[t] = NoTunnel
           /\ \A t \in Tunnels, i \in IDs : tun[t].sessions[i] <= nsessions
           /\ \A s \in Sessions : s > nsessions => sess[s].state = "none"
           /\ phase \in {"up", "stopping", "closed", "crashed"}
  BY DEF Base, Blank, Pointers, TypeOK

\* The map of one tunnel changes.
LEMMA TunnelMoves ==
    ASSUME Base, NEW t \in 1 .. ntunnels', NEW rec \in TunnelObjects,
           ntunnels' \in 0 .. MaxTunnels, ntunnels <= ntunnels',
           nsessions' \in 0 .. MaxSessions, nsessions <= nsessions',
           tun' = [tun EXCEPT ![t] = rec],
           \A i \in IDs : rec.sessions[i] <= nsessions'
    PROVE  /\ t \in Tunnels
           /\ tun' \in [Tunnels -> TunnelObjects]
           /\ \A u \in Tunnels : u > ntunnels' => tun'[u] = NoTunnel
           /\ \A u \in Tunnels, i \in IDs : tun'[u].sessions[i] <= nsessions'
  <1>1. /\ tun \in [Tunnels -> TunnelObjects] /\ ntunnels \in Nat /\ nsessions \in Nat
        /\ ntunnels' \in Nat /\ nsessions' \in Nat
    BY BaseFacts
  <1>2. t \in Tunnels BY <1>1, Bounds DEF Tunnels
  <1>3. tun' \in [Tunnels -> TunnelObjects] BY <1>1
  <1>4. \A u \in Tunnels : u > ntunnels' => tun'[u] = NoTunnel
    <2>1. \A u \in Tunnels : u \in Nat BY Bounds DEF Tunnels
    <2>2. \A u \in Tunnels : u > ntunnels' => u > ntunnels /\ u # t BY <1>1, <2>1
    <2> QED BY <1>1, <2>2, BaseSame
  <1>5. ASSUME NEW u \in Tunnels, NEW i \in IDs PROVE tun'[u].sessions[i] <= nsessions'
    <2>1. CASE u = t BY <1>1, <2>1
    <2>2. CASE u # t
      <3>1. tun'[u] = tun[u] BY <1>1, <2>2
      <3>2. tun[u] \in TunnelObjects BY <1>1
      <3>3. tun[u].sessions[i] \in Nat BY <3>2, Bounds DEF TunnelObjects
      <3>4. tun[u].sessions[i] <= nsessions BY BaseSame
      <3> QED BY <1>1, <3>1, <3>3, <3>4
    <2> QED BY <2>1, <2>2
  <1> QED BY <1>2, <1>3, <1>4, <1>5

\* handleNewTunnel makes a tunnel object that no map knows yet.
LEMMA BaseNewTunnel ==
    ASSUME Base, NEW h \in Handlers, NEW key \in Keys, NEW outcome \in {"WaitCtlConn", "Idle", "Dead"},
           handleNewTunnel(h, key, outcome)
    PROVE  Base'
  <1> DEFINE rec == [NoTunnel EXCEPT !.state = outcome, !.localTunnelID = nextTunnelID']
             hrec == [Idle EXCEPT !.at = "register", !.t = ntunnels', !.key = key]
  <1>1. /\ ntunnels < MaxTunnels /\ ntunnels' = ntunnels + 1 /\ nextTunnelID' = nextID(nextTunnelID)
        /\ tun' = [tun EXCEPT ![ntunnels'] = rec]
        /\ handler' = [handler EXCEPT ![h] = hrec] \/ handler' = handler
        /\ UNCHANGED <<nsessions, tunnels, byLocalID, sess, running, timedOut, leased, phase>>
    BY DEF handleNewTunnel, Goto, mapsVars
  <1>2. /\ ntunnels' \in 0 .. MaxTunnels /\ nsessions' \in 0 .. MaxSessions /\ ntunnels <= ntunnels'
        /\ nsessions <= nsessions' /\ nextTunnelID' \in IDs /\ ntunnels' \in 1 .. ntunnels'
        /\ ntunnels' \in Nat /\ nsessions' \in Nat
    BY <1>1, BaseFacts, NextIDFacts, Bounds
  <1>3. rec \in TunnelObjects /\ \A i \in IDs : rec.sessions[i] = 0
    BY <1>2, BlankTypes DEF TunnelObjects, TunnelStates, NoTunnel
  <1>4. hrec \in HandlerStates /\ HandlerOK(hrec, ntunnels', nsessions')
    <2>1. /\ hrec.at = "register" /\ hrec.t = ntunnels' /\ hrec.key = key /\ hrec.sid = 0
          /\ hrec.s = 0 /\ hrec.ip = NoIP
      BY DEF Idle
    <2>2. "register" \in Steps /\ 0 \in 0 .. MaxSessions BY Bounds DEF Steps
    <2>3. hrec \in HandlerStates BY <1>2, <2>2, BlankTypes DEF HandlerStates, Idle
    <2>4. HandlerOK(hrec, ntunnels', nsessions') BY <1>2, <2>1 DEF HandlerOK, HasSession, LooksUp
    <2> QED BY <2>3, <2>4
  <1>5. tunnels' \in [Keys -> 0 .. ntunnels'] /\ byLocalID' \in [IDs -> 0 .. ntunnels']
    <2>1. 0 .. ntunnels \subseteq 0 .. ntunnels' BY <1>1, BaseFacts
    <2> QED BY <1>1, <2>1, BaseFacts
  <1>8. running' \subseteq 1 .. ntunnels' BY <1>1, BaseFacts
  <1> HIDE DEF rec, hrec
  <1>6. /\ tun' \in [Tunnels -> TunnelObjects]
        /\ \A u \in Tunnels : u > ntunnels' => tun'[u] = NoTunnel
        /\ \A u \in Tunnels, i \in IDs : tun'[u].sessions[i] <= nsessions'
    <2>1. \A i \in IDs : rec.sessions[i] <= nsessions' BY <1>2, <1>3
    <2> QED BY <1>1, <1>2, <1>3, <2>1, TunnelMoves
  <1>7. /\ handler' \in [Handlers -> HandlerStates]
        /\ \A g \in Handlers : HandlerOK(handler'[g], ntunnels', nsessions')
    <2>1. CASE handler' = [handler EXCEPT ![h] = hrec]
      BY <1>2, <1>4, <2>1, HandlerMoves
    <2>2. CASE handler' = handler
      <3>1. handler[h] \in HandlerStates /\ handler' = [handler EXCEPT ![h] = handler[h]]
        BY <2>2, BaseFacts
      <3>2. HandlerOK(handler[h], ntunnels', nsessions')
        BY <1>1, <1>2, BaseFacts DEF HandlerOK
      <3> QED BY <1>2, <3>1, <3>2, HandlerMoves
    <2> QED BY <1>1, <2>1, <2>2
  <1> QED BY <1>1, <1>2, <1>5, <1>6, <1>7, <1>8, BaseFacts, BaseSame, BaseParts

\* A handler goes on and nothing else changes but, maybe, the pool, the maps and Run.
LEMMA BaseHandler ==
    ASSUME Base, NEW h \in Handlers, NEW rec \in HandlerStates,
           handler' = [handler EXCEPT ![h] = rec],
           HandlerOK(rec, ntunnels, nsessions),
           UNCHANGED <<ntunnels, nsessions, nextTunnelID, tun, sess, timedOut, phase>>,
           tunnels' \in [Keys -> 0 .. ntunnels], byLocalID' \in [IDs -> 0 .. ntunnels],
           running' \subseteq 1 .. ntunnels, leased' \subseteq IPs
    PROVE  Base'
  <1>1. /\ handler' \in [Handlers -> HandlerStates]
        /\ \A g \in Handlers : HandlerOK(handler'[g], ntunnels', nsessions')
    BY HandlerMoves, BaseFacts
  <1> QED BY <1>1, BaseFacts, BaseSame, BaseParts

\* registerTunnel enters a finished tunnel in both maps.
LEMMA BaseRegister ==
    ASSUME Base, NEW h \in Handlers, registerTunnel(h)
    PROVE  Base'
  <1>1. /\ handler[h].at = "register"
        /\ tunnels' = [tunnels EXCEPT ![handler[h].key] = handler[h].t]
        /\ byLocalID' = [byLocalID EXCEPT ![tun[handler[h].t].localTunnelID] = handler[h].t]
        /\ running' = running \cup {handler[h].t}
        /\ handler' = [handler EXCEPT ![h] = Idle]
        /\ UNCHANGED <<ntunnels, nsessions, nextTunnelID, tun, sess, timedOut, leased, phase>>
    BY DEF registerTunnel, At, Done, Goto
  <1>2. handler[h].t \in 1 .. ntunnels /\ ntunnels \in Nat /\ ntunnels <= MaxTunnels
    BY <1>1, BaseFacts DEF HandlerOK
  <1>3. handler[h].t \in 0 .. ntunnels /\ handler[h].t \in Tunnels BY <1>2, Bounds DEF Tunnels
  <1>4. tunnels' \in [Keys -> 0 .. ntunnels] /\ byLocalID' \in [IDs -> 0 .. ntunnels]
    BY <1>1, <1>3, BaseFacts
  <1>5. running' \subseteq 1 .. ntunnels BY <1>1, <1>2, BaseFacts
  <1> QED BY <1>1, <1>4, <1>5, BlankTypes, BaseFacts, BaseHandler

\* A control message is looked up by the local tunnel ID.
LEMMA BaseControlMessage ==
    ASSUME Base, NEW h \in Handlers, NEW id \in IDs, NEW msg \in ControlMessages,
           NEW sid \in SessionIDs(msg), handleControlMessage(h, id, msg, sid)
    PROVE  Base'
  <1> DEFINE rec == [Idle EXCEPT !.at = msg, !.t = byLocalID[id], !.sid = sid]
  <1>1. /\ byLocalID[id] # 0 /\ handler' = [handler EXCEPT ![h] = rec]
        /\ UNCHANGED <<ntunnels, nsessions, nextTunnelID, tunnels, byLocalID, tun, sess, running, timedOut,
                       leased, phase>>
    BY DEF handleControlMessage, Goto, mapsVars
  <1>2. byLocalID[id] \in 1 .. ntunnels /\ byLocalID[id] \in 0 .. MaxTunnels
    BY <1>1, BaseFacts, Bounds
  <1>3. /\ msg \in {"ICCN", "CDN"} => sid \in IDs
        /\ msg = "ICRQ" => sid \in RemoteIDs
        /\ sid \in {0} \cup IDs
    <2>1. CASE msg \in {"ICCN", "CDN"} BY <2>1 DEF SessionIDs
    <2>2. CASE msg = "ICRQ" BY <2>2, Bounds DEF SessionIDs
    <2>3. CASE msg \notin {"ICCN", "CDN", "ICRQ"} BY <2>3 DEF SessionIDs
    <2> QED BY <2>1, <2>2, <2>3
  <1>4. rec \in HandlerStates
    <2>1. msg \in Steps /\ 0 \in 0 .. MaxSessions BY Bounds DEF Steps
    <2> QED BY <1>2, <1>3, <2>1, BlankTypes DEF HandlerStates, Idle
  <1>5. HandlerOK(rec, ntunnels, nsessions)
    BY <1>2, <1>3 DEF HandlerOK, Idle, HasSession, LooksUp, ControlMessages
  <1> HIDE DEF rec
  <1> QED BY <1>1, <1>4, <1>5, BaseFacts, BaseHandler

\* Where a handler is, its tunnel exists.
LEMMA HandlerTunnel ==
    ASSUME Base, NEW h \in Handlers, handler[h].at # "idle"
    PROVE  /\ handler[h].t \in 1 .. ntunnels /\ handler[h].t \in Tunnels
           /\ tun[handler[h].t] \in TunnelObjects
           /\ handler[h] \in HandlerStates /\ HandlerOK(handler[h], ntunnels, nsessions)
  <1>1. /\ handler[h] \in HandlerStates /\ HandlerOK(handler[h], ntunnels, nsessions)
        /\ ntunnels \in Nat /\ ntunnels <= MaxTunnels
    BY BaseFacts
  <1>2. handler[h].t \in 1 .. ntunnels BY <1>1 DEF HandlerOK
  <1>3. handler[h].t \in Tunnels BY <1>1, <1>2, Bounds DEF Tunnels
  <1> QED BY <1>1, <1>2, <1>3, BaseFacts

\* The tunnel of a handler changes; the handler is done or goes to another step.
LEMMA BaseTunnel ==
    ASSUME Base, NEW h \in Handlers, handler[h].at # "idle", NEW rec \in TunnelObjects,
           tun' = [tun EXCEPT ![handler[h].t] = rec],
           \A i \in IDs : rec.sessions[i] <= nsessions',
           nsessions' \in 0 .. MaxSessions, nsessions <= nsessions',
           sess' \in [Sessions -> SessionObjects],
           \A s \in Sessions : s > nsessions' => sess'[s].state = "none",
           NEW hrec \in HandlerStates, handler' = [handler EXCEPT ![h] = hrec],
           HandlerOK(hrec, ntunnels, nsessions'),
           UNCHANGED <<ntunnels, nextTunnelID, tunnels, byLocalID, running, timedOut, phase>>,
           leased' \subseteq IPs
    PROVE  Base'
  <1>1. handler[h].t \in 1 .. ntunnels' BY HandlerTunnel
  <1>2. ntunnels' \in 0 .. MaxTunnels /\ ntunnels <= ntunnels' /\ ntunnels' \in Nat /\ nsessions' \in Nat
    BY BaseSame, BaseFacts
  <1>3. /\ tun' \in [Tunnels -> TunnelObjects]
        /\ \A u \in Tunnels : u > ntunnels' => tun'[u] = NoTunnel
        /\ \A u \in Tunnels, i \in IDs : tun'[u].sessions[i] <= nsessions'
    BY <1>1, <1>2, TunnelMoves
  <1>4. /\ handler' \in [Handlers -> HandlerStates]
        /\ \A g \in Handlers : HandlerOK(handler'[g], ntunnels', nsessions')
    BY <1>2, HandlerMoves
  <1> QED BY <1>2, <1>3, <1>4, BaseFacts, BaseSame, BaseParts
\* Closing sessions: their state, and nothing else of theirs.
LEMMA ClosedFacts ==
    ASSUME Base, NEW S
    PROVE  /\ closed(S) \in [Sessions -> SessionObjects]
           /\ \A s \in Sessions :
                 /\ s \in S => closed(S)[s].state = "Closed"
                 /\ s \notin S => closed(S)[s] = sess[s]
                 /\ closed(S)[s].assignedIP = sess[s].assignedIP
                 /\ closed(S)[s].tunnel = sess[s].tunnel
           /\ released(S) \subseteq leased
  <1>1. sess \in [Sessions -> SessionObjects] BY BaseFacts
  <1>2. \A s \in Sessions : sess[s] \in SessionObjects /\ [sess[s] EXCEPT !.state = "Closed"] \in SessionObjects
    BY <1>1 DEF SessionObjects, SessionStates
  <1>3. closed(S) \in [Sessions -> SessionObjects] BY <1>2 DEF closed
  <1>4. \A s \in Sessions :
            /\ s \in S => closed(S)[s] = [sess[s] EXCEPT !.state = "Closed"]
            /\ s \notin S => closed(S)[s] = sess[s]
    BY DEF closed
  <1>5. \A s \in Sessions :
            /\ s \in S => closed(S)[s].state = "Closed"
            /\ closed(S)[s].assignedIP = sess[s].assignedIP
            /\ closed(S)[s].tunnel = sess[s].tunnel
    BY <1>2, <1>4 DEF SessionObjects
  <1>6. released(S) \subseteq leased BY DEF released
  <1> QED BY <1>3, <1>4, <1>5, <1>6

\* Closing sessions makes none.
LEMMA ClosedBlank ==
    ASSUME Base, NEW S, \A s \in S : s \in 0 .. nsessions
    PROVE  \A s \in Sessions : s > nsessions => closed(S)[s].state = "none"
  <1>1. \A s \in Sessions : s > nsessions => s \notin S
    BY BaseFacts, Bounds DEF Sessions
  <1> QED BY <1>1, ClosedFacts, BaseSame

\* The entries of a tunnel's map.
LEMMA MapEntries ==
    ASSUME Base, NEW t \in Tunnels, NEW i \in IDs
    PROVE  tun[t].sessions[i] \in 0 .. nsessions
  <1>1. tun[t] \in TunnelObjects BY BaseFacts
  <1>2. tun[t].sessions[i] \in 0 .. MaxSessions BY <1>1 DEF TunnelObjects
  <1> QED BY <1>2, BaseSame, BaseFacts, Bounds

\* SCCCN changes the state of one tunnel.
LEMMA BaseSCCCN ==
    ASSUME Base, NEW h \in Handlers, HandleSCCCN(h)
    PROVE  Base'
  <1> DEFINE t == handler[h].t
  <1>1. /\ handler[h].at = "SCCCN" /\ handler' = [handler EXCEPT ![h] = Idle]
        /\ tun' = [tun EXCEPT ![t].state = "Established"] \/ tun' = tun
        /\ UNCHANGED <<ntunnels, nsessions, nextTunnelID, tunnels, byLocalID, sess, running, timedOut, leased, phase>>
    BY DEF HandleSCCCN, At, Done, Goto, mapsVars
  <1>2. t \in Tunnels /\ tun[t] \in TunnelObjects BY <1>1, HandlerTunnel
  <1>3. tun' = [tun EXCEPT ![t] = tun'[t]] /\ tun'[t] \in TunnelObjects
        /\ tun'[t].sessions = tun[t].sessions
    <2>1. tun \in [Tunnels -> TunnelObjects] BY BaseFacts
    <2>2. CASE tun' = tun BY <1>2, <2>1, <2>2
    <2>3. CASE tun' = [tun EXCEPT ![t].state = "Established"]
      <3>1. "Established" \in TunnelStates BY DEF TunnelStates
      <3> QED BY <1>2, <2>1, <2>3, <3>1 DEF TunnelObjects
    <2> QED BY <1>1, <2>2, <2>3
  <1>4. \A i \in IDs : tun'[t].sessions[i] <= nsessions' BY <1>1, <1>2, <1>3, BaseSame
  <1>5. nsessions' \in 0 .. MaxSessions /\ nsessions <= nsessions' BY <1>1, BaseSame, Bounds
  <1>6. handler[h].at # "idle" BY <1>1
  <1> QED BY <1>1, <1>3, <1>4, <1>5, <1>6, BaseTunnel, BaseFacts, BaseSame, BlankTypes

\* AddSession: a new session, in the map under the next ID.
LEMMA AddSessionFacts ==
    ASSUME Base, NEW t \in Tunnels, NEW remote \in RemoteIDs, AddSession(t, remote)
    PROVE  /\ nsessions' = nsessions + 1 /\ nsessions' \in Sessions
           /\ sess' \in [Sessions -> SessionObjects]
           /\ \A s \in Sessions : s # nsessions' => sess'[s] = sess[s]
           /\ sess'[nsessions'].state = "WaitConnect" /\ sess'[nsessions'].tunnel = t
           /\ sess'[nsessions'].assignedIP = NoIP
           /\ tun' = [tun EXCEPT ![t] = tun'[t]] /\ tun'[t] \in TunnelObjects
           /\ tun'[t].nextSessionID = nextID(tun[t].nextSessionID)
           /\ tun'[t].state = tun[t].state /\ tun'[t].localTunnelID = tun[t].localTunnelID
           /\ tun'[t].sessions[nextID(tun[t].nextSessionID)] = nsessions'
           /\ nextID(tun[t].nextSessionID) \in IDs
           /\ \A i \in IDs : i # nextID(tun[t].nextSessionID) => tun'[t].sessions[i] = tun[t].sessions[i]
  <1> DEFINE id == nextID(tun[t].nextSessionID)
             rec == [NoSession EXCEPT !.state = "WaitConnect", !.tunnel = t, !.remoteSessionID = remote]
  <1>1. /\ nsessions < MaxSessions /\ nsessions' = nsessions + 1
        /\ sess' = [sess EXCEPT ![nsessions'] = rec]
        /\ tun' = [tun EXCEPT ![t].nextSessionID = id, ![t].sessions[id] = nsessions']
    BY DEF AddSession
  <1>2. tun \in [Tunnels -> TunnelObjects] /\ tun[t] \in TunnelObjects /\ sess \in [Sessions -> SessionObjects]
        /\ nsessions \in Nat
    BY BaseFacts
  <1>3. id \in IDs BY <1>2, NextIDFacts DEF TunnelObjects
  <1>4. nsessions' \in Sessions /\ nsessions' \in 0 .. MaxSessions BY <1>1, <1>2, Bounds DEF Sessions
  <1>5. t \in 0 .. MaxTunnels BY Bounds DEF Tunnels
  <1>6. rec \in SessionObjects /\ rec.state = "WaitConnect" /\ rec.tunnel = t /\ rec.assignedIP = NoIP
    BY <1>5 DEF SessionObjects, SessionStates, NoSession
  <1> HIDE DEF rec, id
  <1>7. /\ sess' \in [Sessions -> SessionObjects]
        /\ \A s \in Sessions : s # nsessions' => sess'[s] = sess[s]
        /\ sess'[nsessions'] = rec
    BY <1>1, <1>2, <1>4, <1>6
  <1>8. /\ tun' = [tun EXCEPT ![t] = tun'[t]] /\ tun'[t] \in TunnelObjects
        /\ tun'[t].nextSessionID = id
        /\ tun'[t].state = tun[t].state /\ tun'[t].localTunnelID = tun[t].localTunnelID
        /\ tun'[t].sessions[id] = nsessions'
        /\ \A i \in IDs : i # id => tun'[t].sessions[i] = tun[t].sessions[i]
    BY <1>1, <1>2, <1>3, <1>4 DEF TunnelObjects
  <1> QED BY <1>1, <1>3, <1>4, <1>6, <1>7, <1>8 DEF id

\* ICRQ makes a session of its tunnel, under a new ID.
LEMMA BaseICRQ ==
    ASSUME Base, NEW h \in Handlers, HandleICRQ(h)
    PROVE  Base'
  <1> DEFINE t == handler[h].t
  <1>1. /\ handler[h].at = "ICRQ" /\ handler' = [handler EXCEPT ![h] = Idle]
        /\ UNCHANGED <<ntunnels, nextTunnelID, tunnels, byLocalID, running, timedOut, leased, phase>>
    BY DEF HandleICRQ, At, Done, Goto, mapsVars
  <1>2. t \in Tunnels /\ tun[t] \in TunnelObjects /\ handler[h].sid \in RemoteIDs
    BY <1>1, HandlerTunnel DEF HandlerOK
  <1>3. CASE AddSession(t, handler[h].sid)
    <2>1. /\ nsessions' = nsessions + 1 /\ nsessions' \in Sessions
          /\ sess' \in [Sessions -> SessionObjects]
          /\ \A s \in Sessions : s # nsessions' => sess'[s] = sess[s]
          /\ tun' = [tun EXCEPT ![t] = tun'[t]] /\ tun'[t] \in TunnelObjects
          /\ \A i \in IDs : tun'[t].sessions[i] = nsessions' \/ tun'[t].sessions[i] = tun[t].sessions[i]
      BY <1>2, <1>3, AddSessionFacts
    <2>2. nsessions \in Nat /\ nsessions' \in Nat /\ nsessions <= nsessions' /\ nsessions' \in 0 .. MaxSessions
      BY <2>1, BaseFacts, Bounds DEF Sessions
    <2>3. \A i \in IDs : tun'[t].sessions[i] <= nsessions'
      BY <1>2, <2>1, <2>2, MapEntries
    <2>4. \A s \in Sessions : s > nsessions' => sess'[s].state = "none"
      <3>1. \A s \in Sessions : s > nsessions' => s > nsessions /\ s # nsessions'
        BY <2>1, <2>2, Bounds DEF Sessions
      <3> QED BY <2>1, <3>1, BaseSame
    <2> QED BY <1>1, <2>1, <2>2, <2>3, <2>4, BaseTunnel, BaseFacts, BlankTypes
  <1>4. CASE UNCHANGED <<nsessions, sess, tun>>
    BY <1>1, <1>4, BaseHandler, BaseFacts, BlankTypes
  <1> QED BY <1>3, <1>4 DEF HandleICRQ

\* A handler that has looked a session up goes to another step.
LEMMA MovesOn ==
    ASSUME Base, NEW h \in Handlers, handler[h].at \in LooksUp,
           NEW step \in {"connect", "established", "allocate", "init", "full", "close"}, NEW s \in 0 .. nsessions,
           NEW ip \in IPs \cup {NoIP},
           step \in HasSession => s # 0, step = "init" => ip # NoIP
    PROVE  /\ [handler[h] EXCEPT !.at = step, !.s = s, !.ip = ip] \in HandlerStates
           /\ HandlerOK([handler[h] EXCEPT !.at = step, !.s = s, !.ip = ip], ntunnels, nsessions)
  <1>1. handler[h] \in HandlerStates /\ HandlerOK(handler[h], ntunnels, nsessions)
        /\ handler[h].t \in 1 .. ntunnels /\ handler[h].sid \in IDs
    BY HandlerTunnel DEF LooksUp, HandlerOK
  <1>2. step \in Steps /\ s \in 0 .. MaxSessions /\ (s # 0 => s \in 1 .. nsessions)
    BY BaseFacts, Bounds DEF Steps
  <1> DEFINE rec == [handler[h] EXCEPT !.at = step, !.s = s, !.ip = ip]
  <1>3. rec \in HandlerStates BY <1>1, <1>2 DEF HandlerStates
  <1>4. rec.at = step /\ rec.t = handler[h].t /\ rec.s = s /\ rec.sid = handler[h].sid /\ rec.ip = ip
    BY <1>1 DEF HandlerStates
  <1> HIDE DEF rec
  <1>5. HandlerOK(rec, ntunnels, nsessions)
    BY <1>1, <1>2, <1>4 DEF HandlerOK, HasSession
  <1> QED BY <1>3, <1>5 DEF rec

\* ICCN finds its session, or is dropped.
LEMMA BaseICCN ==
    ASSUME Base, NEW h \in Handlers, HandleICCN(h)
    PROVE  Base'
  <1> DEFINE s == tun[handler[h].t].sessions[handler[h].sid]
  <1>1. /\ handler[h].at = "ICCN"
        /\ \/ s # 0 /\ handler' = [handler EXCEPT ![h] = [handler[h] EXCEPT !.at = "connect", !.s = s]]
           \/ handler' = [handler EXCEPT ![h] = Idle]
        /\ UNCHANGED <<ntunnels, nsessions, nextTunnelID, tunnels, byLocalID, tun, sess, running, timedOut, leased,
                       phase>>
    BY DEF HandleICCN, At, Done, Goto, mapsVars
  <1>2. handler[h].t \in Tunnels /\ handler[h].sid \in IDs /\ handler[h] \in HandlerStates
    BY <1>1, HandlerTunnel DEF HandlerOK, LooksUp
  <1>3. s \in 0 .. nsessions BY <1>2, MapEntries
  <1>4. CASE s # 0 /\ handler' = [handler EXCEPT ![h] = [handler[h] EXCEPT !.at = "connect", !.s = s]]
    <2> DEFINE rec == [handler[h] EXCEPT !.at = "connect", !.s = s]
    <2>1. /\ handler[h].ip \in IPs \cup {NoIP}
          /\ rec = [handler[h] EXCEPT !.at = "connect", !.s = s, !.ip = handler[h].ip]
      BY <1>2 DEF HandlerStates
    <2>2. handler[h].at \in LooksUp BY <1>1 DEF LooksUp
    <2>3. rec \in HandlerStates /\ HandlerOK(rec, ntunnels, nsessions)
      <3> HIDE DEF s
      <3>1. PICK full : full = [handler[h] EXCEPT !.at = "connect", !.s = s, !.ip = handler[h].ip] OBVIOUS
      <3>2. full \in HandlerStates /\ HandlerOK(full, ntunnels, nsessions)
        BY <1>3, <1>4, <2>1, <2>2, <3>1, MovesOn
      <3> QED BY ONLY <2>1, <3>1, <3>2
    <2> HIDE DEF rec
    <2>4. handler' = [handler EXCEPT ![h] = rec] BY <1>4 DEF rec
    <2> QED BY <1>1, <2>3, <2>4, BaseHandler, BaseFacts
  <1>5. CASE handler' = [handler EXCEPT ![h] = Idle]
    BY <1>1, <1>5, BaseHandler, BaseFacts, BlankTypes
  <1> QED BY <1>1, <1>4, <1>5

\* The session that ICCN found is established.
LEMMA BaseConnect ==
    ASSUME Base, NEW h \in Handlers, handleICCN(h)
    PROVE  Base'
  <1> DEFINE s == handler[h].s
             rec == [handler[h] EXCEPT !.at = "established"]
  <1>1. /\ handler[h].at = "connect" /\ handler[h].at # "idle"
        /\ \/ /\ sess[s].state = "WaitConnect" /\ sess' = [sess EXCEPT ![s].state = "Established"]
              /\ handler' = [handler EXCEPT ![h] = rec]
           \/ sess' = sess /\ handler' = [handler EXCEPT ![h] = Idle]
        /\ UNCHANGED <<ntunnels, nsessions, nextTunnelID, tunnels, byLocalID, tun, running, timedOut, leased, phase>>
    BY DEF handleICCN, At, Done, Goto, mapsVars
  <1>2. /\ handler[h].t \in Tunnels /\ handler[h].sid \in IDs /\ handler[h] \in HandlerStates
        /\ s \in 1 .. nsessions /\ handler[h].t \in 1 .. ntunnels
    BY <1>1, HandlerTunnel DEF HandlerOK, LooksUp, HasSession
  <1>3. sess \in [Sessions -> SessionObjects] /\ s \in Sessions /\ nsessions \in Nat
    BY <1>2, BaseFacts, Bounds DEF Sessions
  <1>4. CASE /\ sess[s].state = "WaitConnect" /\ sess' = [sess EXCEPT ![s].state = "Established"]
             /\ handler' = [handler EXCEPT ![h] = rec]
    <2>1. "Established" \in SessionStates /\ "established" \in Steps BY DEF SessionStates, Steps
    <2>2. sess' \in [Sessions -> SessionObjects] BY <1>3, <1>4, <2>1 DEF SessionObjects
    <2>3. \A r \in Sessions : r > nsessions => sess'[r].state = "none"
      <3>1. \A r \in Sessions : r > nsessions => r # s BY <1>2, <1>3
      <3> QED BY <1>3, <1>4, <3>1, BaseSame
    <2>4. rec \in HandlerStates BY <1>2, <2>1 DEF HandlerStates
    <2>5. rec.at = "established" /\ rec.t = handler[h].t /\ rec.sid = handler[h].sid
      BY <1>2 DEF HandlerStates
    <2>6. HandlerOK(rec, ntunnels, nsessions)
      BY <1>2, <2>5 DEF HandlerOK, HasSession
    <2> HIDE DEF rec
    <2>7. tun' = [tun EXCEPT ![handler[h].t] = tun[handler[h].t]] /\ tun[handler[h].t] \in TunnelObjects
      BY <1>1, <1>2, BaseFacts
    <2>8. \A i \in IDs : tun[handler[h].t].sessions[i] <= nsessions' BY <1>1, <1>2, BaseSame
    <2>9. nsessions' \in 0 .. MaxSessions /\ nsessions <= nsessions' BY <1>1, <1>3, BaseSame
    <2> QED BY <1>1, <1>4, <2>2, <2>3, <2>4, <2>6, <2>7, <2>8, <2>9, BaseTunnel, BaseFacts
  <1>5. CASE sess' = sess /\ handler' = [handler EXCEPT ![h] = Idle]
    BY <1>1, <1>5, BaseHandler, BaseFacts, BlankTypes
  <1> QED BY <1>1, <1>4, <1>5

\* The established session is looked up again, and is found or gone.
LEMMA BaseGetSession ==
    ASSUME Base, NEW h \in Handlers, GetSession(h)
    PROVE  Base'
  <1> DEFINE s == tun[handler[h].t].sessions[handler[h].sid]
  <1>1. /\ handler[h].at = "established"
        /\ \/ s # 0 /\ handler' = [handler EXCEPT ![h] = [handler[h] EXCEPT !.at = "allocate", !.s = s]]
           \/ handler' = [handler EXCEPT ![h] = Idle]
        /\ UNCHANGED <<ntunnels, nsessions, nextTunnelID, tunnels, byLocalID, tun, sess, running, timedOut, leased,
                       phase>>
    BY DEF GetSession, At, Done, Goto, mapsVars
  <1>2. handler[h].t \in Tunnels /\ handler[h].sid \in IDs /\ handler[h] \in HandlerStates
    BY <1>1, HandlerTunnel DEF HandlerOK, LooksUp
  <1>3. s \in 0 .. nsessions BY <1>2, MapEntries
  <1>4. CASE s # 0 /\ handler' = [handler EXCEPT ![h] = [handler[h] EXCEPT !.at = "allocate", !.s = s]]
    <2> DEFINE rec == [handler[h] EXCEPT !.at = "allocate", !.s = s]
    <2>1. /\ handler[h].ip \in IPs \cup {NoIP}
          /\ rec = [handler[h] EXCEPT !.at = "allocate", !.s = s, !.ip = handler[h].ip]
      BY <1>2 DEF HandlerStates
    <2>2. handler[h].at \in LooksUp BY <1>1 DEF LooksUp
    <2>3. rec \in HandlerStates /\ HandlerOK(rec, ntunnels, nsessions)
      <3> HIDE DEF s
      <3>1. PICK full : full = [handler[h] EXCEPT !.at = "allocate", !.s = s, !.ip = handler[h].ip] OBVIOUS
      <3>2. full \in HandlerStates /\ HandlerOK(full, ntunnels, nsessions)
        BY <1>3, <1>4, <2>1, <2>2, <3>1, MovesOn
      <3> QED BY ONLY <2>1, <3>1, <3>2
    <2> HIDE DEF rec
    <2>4. handler' = [handler EXCEPT ![h] = rec] BY <1>4 DEF rec
    <2> QED BY <1>1, <2>3, <2>4, BaseHandler, BaseFacts
  <1>5. CASE handler' = [handler EXCEPT ![h] = Idle]
    BY <1>1, <1>5, BaseHandler, BaseFacts, BlankTypes
  <1> QED BY <1>1, <1>4, <1>5

\* A session asks for an address, which is free or refused.
LEMMA BaseAllocate ==
    ASSUME Base, NEW h \in Handlers, allocateIP(h)
    PROVE  Base'
  <1>1. /\ handler[h].at = "allocate"
        /\ \/ \E ip \in IPs \ leased :
                 /\ leased' = leased \cup {ip}
                 /\ handler' = [handler EXCEPT ![h] = [handler[h] EXCEPT !.at = "init", !.ip = ip]]
           \/ /\ handler' = [handler EXCEPT ![h] = [handler[h] EXCEPT !.at = "full"]]
              /\ leased' = leased
        /\ UNCHANGED <<ntunnels, nsessions, nextTunnelID, tunnels, byLocalID, tun, sess, running, timedOut, phase>>
    BY DEF allocateIP, At, Goto, mapsVars
  <1>2. /\ handler[h].t \in Tunnels /\ handler[h].sid \in IDs /\ handler[h] \in HandlerStates
        /\ handler[h].s \in 1 .. nsessions /\ handler[h].t \in 1 .. ntunnels
    BY <1>1, HandlerTunnel DEF HandlerOK, LooksUp, HasSession
  <1>3. ASSUME NEW ip \in IPs \ leased, leased' = leased \cup {ip},
               handler' = [handler EXCEPT ![h] = [handler[h] EXCEPT !.at = "init", !.ip = ip]]
        PROVE  Base'
    <2> DEFINE rec == [handler[h] EXCEPT !.at = "init", !.ip = ip]
    <2>1. "init" \in Steps BY DEF Steps
    <2>2. rec \in HandlerStates BY <1>2, <2>1 DEF HandlerStates
    <2>3. /\ rec.at = "init" /\ rec.t = handler[h].t /\ rec.sid = handler[h].sid /\ rec.s = handler[h].s
          /\ rec.ip = ip
      BY <1>2 DEF HandlerStates
    <2>4. HandlerOK(rec, ntunnels, nsessions)
      BY <1>2, <2>3 DEF HandlerOK, LooksUp
    <2> HIDE DEF rec
    <2>5. handler' = [handler EXCEPT ![h] = rec] BY <1>3 DEF rec
    <2>6. leased' \subseteq IPs BY <1>3, BaseFacts
    <2> QED BY <1>1, <2>2, <2>4, <2>5, <2>6, BaseHandler, BaseFacts
  <1>4. CASE handler' = [handler EXCEPT ![h] = [handler[h] EXCEPT !.at = "full"]] /\ leased' = leased
    <2> DEFINE rec == [handler[h] EXCEPT !.at = "full"]
    <2>1. "full" \in Steps BY DEF Steps
    <2>2. rec \in HandlerStates BY <1>2, <2>1 DEF HandlerStates
    <2>3. rec.at = "full" /\ rec.t = handler[h].t /\ rec.sid = handler[h].sid
      BY <1>2 DEF HandlerStates
    <2>4. HandlerOK(rec, ntunnels, nsessions)
      BY <1>2, <2>3 DEF HandlerOK, HasSession
    <2> HIDE DEF rec
    <2>5. handler' = [handler EXCEPT ![h] = rec] BY <1>4 DEF rec
    <2> QED BY <1>1, <1>4, <2>2, <2>4, <2>5, BaseHandler, BaseFacts
  <1> QED BY <1>1, <1>3, <1>4

\* The session is given the address that was leased for it.
LEMMA BaseInitPPP ==
    ASSUME Base, NEW h \in Handlers, InitPPP(h)
    PROVE  Base'
  <1>1. /\ handler[h].at = "init" /\ handler[h].at # "idle"
        /\ sess' = [sess EXCEPT ![handler[h].s].assignedIP = handler[h].ip]
        /\ handler' = [handler EXCEPT ![h] = Idle]
        /\ UNCHANGED <<ntunnels, nsessions, nextTunnelID, tunnels, byLocalID, tun, running, timedOut, leased, phase>>
    BY DEF InitPPP, At, Done, Goto, mapsVars
  <1>2. handler[h].s \in 1 .. nsessions /\ handler[h].t \in Tunnels /\ handler[h].ip \in IPs
    BY <1>1, HandlerTunnel DEF HandlerOK, HasSession
  <1>3. sess \in [Sessions -> SessionObjects] /\ handler[h].s \in Sessions /\ nsessions \in Nat
    BY <1>2, BaseFacts, Bounds DEF Sessions
  <1>4. sess' \in [Sessions -> SessionObjects] BY <1>1, <1>2, <1>3 DEF SessionObjects
  <1>5. \A r \in Sessions : r > nsessions => sess'[r].state = "none"
    <2>1. \A r \in Sessions : r > nsessions => r # handler[h].s BY <1>2, <1>3
    <2> QED BY <1>1, <1>3, <2>1, BaseSame
  <1>6. tun' = [tun EXCEPT ![handler[h].t] = tun[handler[h].t]] /\ tun[handler[h].t] \in TunnelObjects
    BY <1>1, <1>2, BaseFacts
  <1>7. \A i \in IDs : tun[handler[h].t].sessions[i] <= nsessions' BY <1>1, <1>2, BaseSame
  <1>8. nsessions' \in 0 .. MaxSessions /\ nsessions <= nsessions' BY <1>1, <1>3, BaseSame
  <1> QED BY <1>1, <1>4, <1>5, <1>6, <1>7, <1>8, BaseTunnel, BaseFacts, BlankTypes

\* A tunnel's map loses an entry.
LEMMA Unmapped ==
    ASSUME Base, NEW t \in Tunnels, NEW i \in IDs, tun' = [tun EXCEPT ![t].sessions[i] = 0]
    PROVE  /\ tun' = [tun EXCEPT ![t] = tun'[t]] /\ tun'[t] \in TunnelObjects
           /\ \A u \in Tunnels : u # t => tun'[u] = tun[u]
           /\ \A u \in Tunnels : /\ tun'[u].state = tun[u].state
                                 /\ tun'[u].localTunnelID = tun[u].localTunnelID
                                 /\ tun'[u].nextSessionID = tun[u].nextSessionID
           /\ tun'[t].sessions[i] = 0
           /\ \A j \in IDs : j # i => tun'[t].sessions[j] = tun[t].sessions[j]
           /\ \A j \in IDs : tun'[t].sessions[j] <= nsessions
  <1>1. tun \in [Tunnels -> TunnelObjects] /\ 0 \in 0 .. MaxSessions BY BaseFacts, Bounds
  <1>2. /\ tun' = [tun EXCEPT ![t] = tun'[t]] /\ tun'[t] \in TunnelObjects
        /\ \A u \in Tunnels : u # t => tun'[u] = tun[u]
    BY <1>1 DEF TunnelObjects
  <1>3. /\ \A u \in Tunnels : /\ tun'[u].state = tun[u].state
                              /\ tun'[u].localTunnelID = tun[u].localTunnelID
                              /\ tun'[u].nextSessionID = tun[u].nextSessionID
        /\ tun'[t].sessions[i] = 0
        /\ \A j \in IDs : j # i => tun'[t].sessions[j] = tun[t].sessions[j]
    BY <1>1 DEF TunnelObjects
  <1>4. \A j \in IDs : tun'[t].sessions[j] <= nsessions
    BY <1>3, BaseSame, BaseFacts
  <1> QED BY <1>2, <1>3, <1>4

\* A session without an address is closed and taken out of its tunnel.
LEMMA BaseSendCDN ==
    ASSUME Base, NEW h \in Handlers, SendCDN(h)
    PROVE  Base'
  <1> DEFINE t == handler[h].t
             s == tun[t].sessions[handler[h].sid]
  <1>1. /\ handler[h].at = "full" /\ handler[h].at # "idle"
        /\ sess' = closed({s}) /\ leased' = released({s} \ {0})
        /\ tun' = [tun EXCEPT ![t].sessions[handler[h].sid] = 0]
        /\ handler' = [handler EXCEPT ![h] = Idle]
        /\ UNCHANGED <<ntunnels, nsessions, nextTunnelID, tunnels, byLocalID, running, timedOut, phase>>
    BY DEF SendCDN, At, Done, Goto, mapsVars
  <1>2. t \in Tunnels /\ handler[h].sid \in IDs
    BY <1>1, HandlerTunnel DEF HandlerOK, LooksUp
  <1>3. s \in 0 .. nsessions BY <1>2, MapEntries
  <1>4. /\ tun' = [tun EXCEPT ![t] = tun'[t]] /\ tun'[t] \in TunnelObjects
        /\ \A j \in IDs : tun'[t].sessions[j] <= nsessions'
    BY <1>1, <1>2, Unmapped
  <1> HIDE DEF s
  <1>5. sess' \in [Sessions -> SessionObjects] BY <1>1, ClosedFacts
  <1>6. \A r \in Sessions : r > nsessions' => sess'[r].state = "none" BY <1>1, <1>3, ClosedBlank
  <1>7. leased' \subseteq IPs BY <1>1, ClosedFacts, BaseFacts
  <1>8. nsessions' \in 0 .. MaxSessions /\ nsessions <= nsessions' BY <1>1, BaseFacts, BaseSame
  <1> QED BY <1>1, <1>4, <1>5, <1>6, <1>7, <1>8, BaseTunnel, BlankTypes

\* CDN closes the session and takes it out of its tunnel.
LEMMA BaseCDN ==
    ASSUME Base, NEW h \in Handlers, HandleCDN(h)
    PROVE  Base'
  <1> DEFINE t == handler[h].t
             s == tun[t].sessions[handler[h].sid]
             rec == [handler[h] EXCEPT !.at = "close", !.s = s]
  <1>1. /\ handler[h].at = "CDN" /\ handler[h].at # "idle"
        /\ \/ /\ s # 0 /\ tun' = [tun EXCEPT ![t].sessions[handler[h].sid] = 0]
              /\ handler' = [handler EXCEPT ![h] = rec]
           \/ tun' = tun /\ handler' = [handler EXCEPT ![h] = Idle]
        /\ UNCHANGED <<ntunnels, nsessions, nextTunnelID, tunnels, byLocalID, sess, running, timedOut, leased, phase>>
    BY DEF HandleCDN, At, Done, Goto, mapsVars
  <1>2. t \in Tunnels /\ handler[h].sid \in IDs /\ handler[h] \in HandlerStates /\ handler[h].at \in LooksUp
    BY <1>1, HandlerTunnel DEF HandlerOK, LooksUp
  <1>3. s \in 0 .. nsessions BY <1>2, MapEntries
  <1>4. CASE /\ s # 0 /\ tun' = [tun EXCEPT ![t].sessions[handler[h].sid] = 0]
             /\ handler' = [handler EXCEPT ![h] = rec]
    <2>1. /\ tun' = [tun EXCEPT ![t] = tun'[t]] /\ tun'[t] \in TunnelObjects
          /\ \A j \in IDs : tun'[t].sessions[j] <= nsessions'
      <3>1. tun' = [tun EXCEPT ![t].sessions[handler[h].sid] = 0] /\ nsessions' = nsessions
        BY <1>1, <1>4
      <3> DEFINE i == handler[h].sid
      <3>2. t \in Tunnels /\ i \in IDs /\ tun' = [tun EXCEPT ![t].sessions[i] = 0] BY <1>2, <3>1
      <3> HIDE DEF s, rec, t, i
      <3>3. /\ tun' = [tun EXCEPT ![t] = tun'[t]] /\ tun'[t] \in TunnelObjects
            /\ \A j \in IDs : tun'[t].sessions[j] <= nsessions
        BY ONLY Base, <3>2, Unmapped
      <3> QED BY <3>1, <3>3
    <2>2. /\ handler[h].ip \in IPs \cup {NoIP}
          /\ rec = [handler[h] EXCEPT !.at = "close", !.s = s, !.ip = handler[h].ip]
      BY <1>2 DEF HandlerStates
    <2>3. rec \in HandlerStates /\ HandlerOK(rec, ntunnels, nsessions)
      <3> HIDE DEF s
      <3>1. PICK full : full = [handler[h] EXCEPT !.at = "close", !.s = s, !.ip = handler[h].ip] OBVIOUS
      <3>2. full \in HandlerStates /\ HandlerOK(full, ntunnels, nsessions)
        BY <1>2, <1>3, <1>4, <2>2, <3>1, MovesOn
      <3> QED BY ONLY <2>2, <3>1, <3>2
    <2> HIDE DEF rec, s
    <2>4. nsessions' \in 0 .. MaxSessions /\ nsessions <= nsessions' BY <1>1, BaseFacts, BaseSame
    <2> QED BY <1>1, <1>4, <2>1, <2>3, <2>4, BaseTunnel, BaseFacts, BaseSame
  <1>5. CASE tun' = tun /\ handler' = [handler EXCEPT ![h] = Idle]
    BY <1>1, <1>5, BaseHandler, BaseFacts, BlankTypes
  <1> QED BY <1>1, <1>4, <1>5

\* A session closed from within gives its address back.
LEMMA BaseCloseSession ==
    ASSUME Base, NEW h \in Handlers, closeSession(h)
    PROVE  Base'
  <1> DEFINE t == handler[h].t
  <1>1. /\ handler[h].at = "close" /\ handler[h].at # "idle"
        /\ sess' = closed({handler[h].s}) /\ leased' = released({handler[h].s})
        /\ handler' = [handler EXCEPT ![h] = Idle]
        /\ UNCHANGED <<ntunnels, nsessions, nextTunnelID, tunnels, byLocalID, tun, running, timedOut, phase>>
    BY DEF closeSession, At, Done, Goto, mapsVars
  <1>2. t \in Tunnels /\ handler[h].s \in 0 .. nsessions
    BY <1>1, HandlerTunnel, BaseFacts DEF HandlerOK, HasSession
  <1>3. tun' = [tun EXCEPT ![t] = tun[t]] /\ tun[t] \in TunnelObjects
    BY <1>1, <1>2, BaseFacts
  <1>4. \A i \in IDs : tun[t].sessions[i] <= nsessions' BY <1>1, <1>2, BaseSame
  <1>5. sess' \in [Sessions -> SessionObjects] BY <1>1, ClosedFacts
  <1>6. \A r \in Sessions : r > nsessions' => sess'[r].state = "none" BY <1>1, <1>2, ClosedBlank
  <1>7. leased' \subseteq IPs BY <1>1, ClosedFacts, BaseFacts
  <1>8. nsessions' \in 0 .. MaxSessions /\ nsessions <= nsessions' BY <1>1, BaseFacts, BaseSame
  <1> QED BY <1>1, <1>3, <1>4, <1>5, <1>6, <1>7, <1>8, BaseTunnel, BlankTypes
\* TearDown: the tunnels of T are dead and empty, their sessions closed.
LEMMA TearDownFacts ==
    ASSUME Base, NEW T \in SUBSET (1 .. ntunnels), TearDown(T)
    PROVE  /\ T \subseteq Tunnels
           /\ sess' \in [Sessions -> SessionObjects] /\ leased' \subseteq leased
           /\ \A s \in Sessions : s > nsessions => sess'[s].state = "none"
           /\ tun' \in [Tunnels -> TunnelObjects]
           /\ \A t \in Tunnels : t > ntunnels => tun'[t] = NoTunnel
           /\ \A t \in Tunnels, i \in IDs : tun'[t].sessions[i] <= nsessions
           /\ \A t \in Tunnels : t \notin T => tun'[t] = tun[t]
           /\ \A t \in T : /\ tun'[t].state = "Dead" /\ tun'[t].localTunnelID = tun[t].localTunnelID
                           /\ tun'[t].nextSessionID = tun[t].nextSessionID
                           /\ \A i \in IDs : tun'[t].sessions[i] = 0
           /\ \A s \in Sessions :
                 /\ sess'[s].tunnel = sess[s].tunnel
                 /\ sess'[s] = sess[s] \/ sess'[s].state = "Closed"
                 /\ \A t \in T, i \in IDs : tun[t].sessions[i] = s => sess'[s].state = "Closed"
  <1> DEFINE S == UNION {SessionsOf(t) : t \in T}
  <1>1. /\ sess' = closed(S) /\ leased' = released(S)
        /\ tun' = [t \in Tunnels |-> IF t \in T
                     THEN [tun[t] EXCEPT !.state = "Dead", !.sessions = NoTunnel.sessions]
                     ELSE tun[t]]
    BY DEF TearDown
  <1>2. /\ tun \in [Tunnels -> TunnelObjects] /\ ntunnels \in Nat /\ ntunnels <= MaxTunnels
        /\ nsessions \in Nat
    BY BaseFacts
  <1>3. T \subseteq Tunnels BY <1>2, Bounds DEF Tunnels
  <1>4. \A s \in S : s \in 0 .. nsessions
    BY <1>3, MapEntries DEF SessionsOf
  <1>5. \A t \in T, i \in IDs, s \in Sessions : tun[t].sessions[i] = s => s \in S
    BY Bounds DEF SessionsOf, Sessions
  <1> HIDE DEF S
  <1>6. /\ sess' \in [Sessions -> SessionObjects] /\ leased' \subseteq leased
        /\ \A s \in Sessions : s > nsessions => sess'[s].state = "none"
        /\ \A s \in Sessions :
              /\ sess'[s].tunnel = sess[s].tunnel
              /\ sess'[s] = sess[s] \/ sess'[s].state = "Closed"
              /\ s \in S => sess'[s].state = "Closed"
    <2>1. /\ closed(S) \in [Sessions -> SessionObjects] /\ released(S) \subseteq leased
          /\ \A s \in Sessions :
                /\ s \in S => closed(S)[s].state = "Closed"
                /\ s \notin S => closed(S)[s] = sess[s]
                /\ closed(S)[s].tunnel = sess[s].tunnel
      BY ClosedFacts
    <2>2. \A s \in Sessions : s > nsessions => closed(S)[s].state = "none" BY <1>4, ClosedBlank
    <2> QED BY <1>1, <2>1, <2>2
  <1>7. /\ NoTunnel.sessions \in [IDs -> 0 .. MaxSessions] /\ \A i \in IDs : NoTunnel.sessions[i] = 0
        /\ "Dead" \in TunnelStates
    BY Bounds DEF NoTunnel, TunnelStates
  <1>8. ASSUME NEW t \in T
        PROVE  /\ tun'[t] \in TunnelObjects
               /\ tun'[t].state = "Dead" /\ tun'[t].localTunnelID = tun[t].localTunnelID
               /\ tun'[t].nextSessionID = tun[t].nextSessionID
               /\ \A i \in IDs : tun'[t].sessions[i] = 0
    <2>1. tun[t] \in TunnelObjects BY <1>2, <1>3
    <2>2. tun'[t] = [tun[t] EXCEPT !.state = "Dead", !.sessions = NoTunnel.sessions]
      BY <1>1, <1>3
    <2> QED BY <1>7, <2>1, <2>2 DEF TunnelObjects
  <1>9. \A t \in Tunnels : t \notin T => tun'[t] = tun[t] BY <1>1
  <1>10. tun' \in [Tunnels -> TunnelObjects]
    <2>1. \A t \in Tunnels : tun'[t] \in TunnelObjects BY <1>2, <1>8, <1>9
    <2> QED BY <1>1, <2>1
  <1>11. \A t \in Tunnels : t > ntunnels => tun'[t] = NoTunnel
    <2>1. \A t \in T : ~ (t > ntunnels) BY <1>2
    <2> QED BY <1>9, <2>1, BaseSame
  <1>12. \A t \in Tunnels, i \in IDs : tun'[t].sessions[i] <= nsessions
    <2>1. \A t \in T, i \in IDs : tun'[t].sessions[i] <= nsessions BY <1>2, <1>8
    <2>2. \A t \in Tunnels, i \in IDs : t \notin T => tun'[t].sessions[i] <= nsessions
      BY <1>9, BaseSame
    <2> QED BY <2>1, <2>2
  <1> QED BY <1>3, <1>5, <1>6, <1>8, <1>9, <1>10, <1>11, <1>12

\* StopCCN tears its tunnel down, every session of it included.
LEMMA BaseStopCCN ==
    ASSUME Base, NEW h \in Handlers, HandleStopCCN(h)
    PROVE  Base'
  <1> DEFINE rec == [handler[h] EXCEPT !.at = "remove"]
  <1>1. /\ handler[h].at = "StopCCN" /\ handler[h].at # "idle"
        /\ TearDown({handler[h].t})
        /\ handler' = [handler EXCEPT ![h] = rec]
        /\ UNCHANGED <<ntunnels, nsessions, nextTunnelID, tunnels, byLocalID, running, timedOut, phase>>
    BY DEF HandleStopCCN, At, Done, Goto, mapsVars
  <1>2. handler[h].t \in 1 .. ntunnels /\ handler[h] \in HandlerStates
    BY <1>1, HandlerTunnel
  <1>3. "remove" \in Steps BY DEF Steps
  <1>4. rec \in HandlerStates BY <1>2, <1>3 DEF HandlerStates
  <1>5. rec.at = "remove" /\ rec.t = handler[h].t BY <1>2 DEF HandlerStates
  <1>6. HandlerOK(rec, ntunnels, nsessions) BY <1>2, <1>5 DEF HandlerOK, HasSession, LooksUp
  <1> HIDE DEF rec
  <1>7. {handler[h].t} \in SUBSET (1 .. ntunnels) BY <1>2
  <1>8. /\ sess' \in [Sessions -> SessionObjects] /\ leased' \subseteq leased
        /\ \A s \in Sessions : s > nsessions => sess'[s].state = "none"
        /\ tun' \in [Tunnels -> TunnelObjects]
        /\ \A t \in Tunnels : t > ntunnels => tun'[t] = NoTunnel
        /\ \A t \in Tunnels, i \in IDs : tun'[t].sessions[i] <= nsessions
    BY <1>1, <1>7, TearDownFacts
  <1>9. /\ handler' \in [Handlers -> HandlerStates]
        /\ \A g \in Handlers : HandlerOK(handler'[g], ntunnels', nsessions')
    BY <1>1, <1>4, <1>6, BaseFacts, HandlerMoves
  <1>10. leased' \subseteq IPs BY <1>8, BaseFacts
  <1> QED BY <1>1, <1>8, <1>9, <1>10, BaseFacts, BaseSame, BaseParts

\* removeTunnel takes a tunnel out of both maps.
LEMMA BaseRemove ==
    ASSUME Base, NEW h \in Handlers, removeTunnel(h)
    PROVE  Base'
  <1>1. /\ byLocalID' = [byLocalID EXCEPT ![tun[handler[h].t].localTunnelID] = 0]
        /\ tunnels' = [k \in Keys |-> IF tunnels[k] = handler[h].t THEN 0 ELSE tunnels[k]]
        /\ handler' = [handler EXCEPT ![h] = Idle]
        /\ UNCHANGED <<ntunnels, nsessions, nextTunnelID, tun, sess, running, timedOut, leased, phase>>
    BY DEF removeTunnel, At, Done, Goto
  <1>2. 0 \in 0 .. ntunnels BY BaseFacts
  <1>3. tunnels' \in [Keys -> 0 .. ntunnels] /\ byLocalID' \in [IDs -> 0 .. ntunnels]
    BY <1>1, <1>2, BaseFacts
  <1> QED BY <1>1, <1>3, BlankTypes, BaseFacts, BaseHandler

\* Close tears down every tunnel that the map names.
LEMMA BaseClose ==
    ASSUME Base, Close
    PROVE  Base'
  <1> DEFINE T == {tunnels[k] : k \in Keys} \ {0}
  <1>1. /\ phase' = "closed" /\ TearDown(T) /\ running' = running \ T
        /\ tunnels' = [k \in Keys |-> 0] /\ byLocalID' = [i \in IDs |-> 0]
        /\ UNCHANGED <<ntunnels, nsessions, nextTunnelID, timedOut, handler>>
    BY DEF Close
  <1>2. T \in SUBSET (1 .. ntunnels) BY BaseFacts
  <1> HIDE DEF T
  <1>3. /\ sess' \in [Sessions -> SessionObjects] /\ leased' \subseteq leased
        /\ \A s \in Sessions : s > nsessions => sess'[s].state = "none"
        /\ tun' \in [Tunnels -> TunnelObjects]
        /\ \A t \in Tunnels : t > ntunnels => tun'[t] = NoTunnel
        /\ \A t \in Tunnels, i \in IDs : tun'[t].sessions[i] <= nsessions
    BY <1>1, <1>2, TearDownFacts
  <1>4. leased' \subseteq IPs /\ running' \subseteq 1 .. ntunnels' BY <1>1, <1>3, BaseFacts
  <1>5. 0 \in 0 .. ntunnels BY BaseFacts
  <1>6. tunnels' \in [Keys -> 0 .. ntunnels'] /\ byLocalID' \in [IDs -> 0 .. ntunnels'] BY <1>1, <1>5
  <1> QED BY <1>1, <1>3, <1>4, <1>6, BaseFacts, BaseSame, BaseParts

\* The process starts with nothing.
LEMMA BaseInit == Init => Base
  <1> SUFFICES ASSUME Init PROVE Base
    OBVIOUS
  <1> USE DEF Init
  <1>1. TypeOK
    <2>1. tun \in [Tunnels -> TunnelObjects] /\ sess \in [Sessions -> SessionObjects]
          /\ handler \in [Handlers -> HandlerStates]
      BY BlankTypes
    <2>2. ntunnels \in 0 .. MaxTunnels /\ nsessions \in 0 .. MaxSessions /\ nextTunnelID \in IDs
      BY Bounds
    <2>3. tunnels \in [Keys -> 0 .. MaxTunnels] /\ byLocalID \in [IDs -> 0 .. MaxTunnels]
      BY Bounds
    <2>4. running \subseteq Tunnels /\ timedOut \subseteq Tunnels /\ leased \subseteq IPs /\ phase \in {"up", "stopping", "closed", "crashed"}
      OBVIOUS
    <2> QED BY ONLY <2>1, <2>2, <2>3, <2>4 DEF TypeOK, TunnelObjects, SessionObjects, HandlerStates
  <1>2. Blank BY DEF Blank, NoSession
  <1>3. Pointers BY BlankTypes, Bounds DEF Pointers
  <1> QED BY <1>1, <1>2, <1>3 DEF Base

\* The retry limit: the tunnel is dead and keeps everything else.
LEMMA TimeoutFacts ==
    ASSUME Base, NEW t \in Tunnels, onTimeout(t)
    PROVE  /\ tun' \in [Tunnels -> TunnelObjects]
           /\ \A u \in Tunnels : u # t => tun'[u] = tun[u]
           /\ tun'[t].state = "Dead"
           /\ \A u \in Tunnels : /\ tun'[u].localTunnelID = tun[u].localTunnelID
                                 /\ tun'[u].nextSessionID = tun[u].nextSessionID
                                 /\ tun'[u].sessions = tun[u].sessions
  <1>1. tun' = [tun EXCEPT ![t].state = "Dead"] BY DEF onTimeout
  <1>2. tun \in [Tunnels -> TunnelObjects] /\ "Dead" \in TunnelStates BY BaseFacts DEF TunnelStates
  <1>3. tun' \in [Tunnels -> TunnelObjects] BY <1>1, <1>2 DEF TunnelObjects
  <1>4. \A u \in Tunnels : u # t => tun'[u] = tun[u] BY <1>1, <1>2
  <1>5. /\ tun'[t].state = "Dead" /\ tun'[t].localTunnelID = tun[t].localTunnelID
        /\ tun'[t].nextSessionID = tun[t].nextSessionID /\ tun'[t].sessions = tun[t].sessions
    BY <1>1, <1>2 DEF TunnelObjects
  <1> QED BY <1>3, <1>4, <1>5

\* A tunnel that times out was registered, so that it exists.
LEMMA BaseTimeout ==
    ASSUME Base, NEW t \in Tunnels, onTimeout(t)
    PROVE  Base'
  <1>1. /\ running' = running \ {t} /\ timedOut' = timedOut \cup {t} /\ t \in running
        /\ UNCHANGED <<ntunnels, nsessions, nextTunnelID, tunnels, byLocalID, sess, leased, handler, phase>>
    BY DEF onTimeout, mapsVars
  <1>2. t \in 1 .. ntunnels BY <1>1, BaseFacts
  <1>3. /\ tun' \in [Tunnels -> TunnelObjects]
        /\ \A u \in Tunnels : u # t => tun'[u] = tun[u]
        /\ \A u \in Tunnels : tun'[u].sessions = tun[u].sessions
    BY TimeoutFacts
  <1>4. \A u \in Tunnels : u > ntunnels' => tun'[u] = NoTunnel
    <2>1. \A u \in Tunnels : u > ntunnels => u # t BY <1>2, BaseFacts, Bounds DEF Tunnels
    <2> QED BY <1>1, <1>3, <2>1, BaseSame
  <1>5. \A u \in Tunnels, i \in IDs : tun'[u].sessions[i] <= nsessions' BY <1>1, <1>3, BaseSame
  <1>6. running' \subseteq 1 .. ntunnels' /\ timedOut' \subseteq Tunnels BY <1>1, BaseFacts
  <1> QED BY <1>1, <1>3, <1>4, <1>5, <1>6, BaseFacts, BaseSame, BaseParts

\* Steps of the goroutines and of the daemon touch no object.
LEMMA BaseQuiet ==
    ASSUME Base,
           UNCHANGED <<ntunnels, nsessions, nextTunnelID, tunnels, byLocalID, tun, sess, timedOut, leased, handler>>,
           running' \subseteq running, phase' \in {"up", "stopping", "closed", "crashed"}
    PROVE  Base'
  BY BaseFacts, BaseSame, BaseParts

\* Every step keeps the types of the objects and the maps.
LEMMA BaseStep ==
    ASSUME Base, [Next]_vars
    PROVE  Base'
  <1>1. CASE UNCHANGED vars BY <1>1, BaseQuiet, BaseSame DEF vars
  <1>2. CASE \E h \in Handlers, key \in Keys, outcome \in {"WaitCtlConn", "Idle", "Dead"} :
                handleNewTunnel(h, key, outcome)
    BY <1>2, BaseNewTunnel
  <1>3. CASE \E h \in Handlers, id \in IDs, msg \in ControlMessages : \E sid \in SessionIDs(msg) :
                handleControlMessage(h, id, msg, sid)
    BY <1>3, BaseControlMessage
  <1>4. CASE \E h \in Handlers : Step(h)
    BY <1>4, BaseRegister, BaseSCCCN, BaseICRQ, BaseICCN, BaseConnect, BaseGetSession, BaseAllocate, BaseInitPPP,
       BaseSendCDN, BaseCDN, BaseCloseSession, BaseStopCCN, BaseRemove DEF Step
  <1>5. CASE \E t \in Tunnels : onTimeout(t) BY <1>5, BaseTimeout
  <1>6. CASE \E t \in Tunnels : runDone(t) BY <1>6, BaseQuiet, BaseSame DEF runDone, mapsVars
  <1>7. CASE Shutdown BY <1>7, BaseQuiet DEF Shutdown, mapsVars
  <1>8. CASE Close BY <1>8, BaseClose
  <1>9. CASE \E t \in Tunnels : deferredUnlock(t) BY <1>9, BaseQuiet DEF deferredUnlock, mapsVars
  <1> QED BY <1>1, <1>2, <1>3, <1>4, <1>5, <1>6, <1>7, <1>8, <1>9 DEF Next
-----------------------------------------------------------------------------
\* Addresses is kept, action by action.

\* No session and no handler comes by an address, and what they hold stays leased.
LEMMA AddressesKept ==
    ASSUME Addresses,
           \A s \in Sessions : sess'[s].state # "Closed" /\ sess'[s].assignedIP # NoIP =>
               Holder(s) /\ sess'[s].assignedIP = sess[s].assignedIP /\ sess[s].assignedIP \in leased',
           \A h \in Handlers : handler'[h].at = "init" =>
               handler[h].at = "init" /\ handler'[h].ip = handler[h].ip /\ handler[h].ip \in leased'
    PROVE  Addresses'
  BY DEF Addresses, Holder

\* A handler that does not go to InitPPP comes by no address.
LEMMA NotToInit ==
    ASSUME Base, NEW h \in Handlers, NEW rec, handler' = [handler EXCEPT ![h] = rec], rec.at # "init"
    PROVE  \A g \in Handlers : handler'[g].at = "init" =>
               handler[g].at = "init" /\ handler'[g].ip = handler[g].ip /\ g # h
  BY BaseFacts

\* The same when neither a session nor the pool changes.
LEMMA AddressesHandler ==
    ASSUME Base, Addresses, NEW h \in Handlers, NEW rec, handler' = [handler EXCEPT ![h] = rec],
           rec.at # "init", UNCHANGED <<sess, leased>>
    PROVE  Addresses'
  <1>1. \A g \in Handlers : handler'[g].at = "init" =>
               handler[g].at = "init" /\ handler'[g].ip = handler[g].ip /\ handler[g].ip \in leased'
    BY NotToInit DEF Addresses
  <1>2. \A s \in Sessions : sess'[s].state # "Closed" /\ sess'[s].assignedIP # NoIP =>
               Holder(s) /\ sess'[s].assignedIP = sess[s].assignedIP /\ sess[s].assignedIP \in leased'
    BY DEF Addresses, Holder
  <1> QED BY <1>1, <1>2, AddressesKept

\* Closing sessions gives back the addresses of those sessions and of no other.
LEMMA AddressesReleased ==
    ASSUME Base, Addresses, NEW S, S \ {0} \subseteq Sessions,
           sess' = closed(S), leased' = released(S \ {0}),
           \A g \in Handlers : handler'[g].at = "init" =>
               handler[g].at = "init" /\ handler'[g].ip = handler[g].ip
    PROVE  Addresses'
  <1>1. ASSUME NEW s \in Sessions, sess'[s].state # "Closed", sess'[s].assignedIP # NoIP
        PROVE  Holder(s) /\ sess'[s].assignedIP = sess[s].assignedIP /\ sess[s].assignedIP \in leased'
    <2>1. s \notin S /\ sess'[s] = sess[s] BY <1>1, ClosedFacts
    <2>2. Holder(s) BY <1>1, <2>1 DEF Holder
    <2>3. ASSUME NEW r \in S \ {0}, sess[r].state # "Closed"
          PROVE  sess[r].assignedIP # sess[s].assignedIP
      BY <2>1, <2>2, <2>3 DEF Addresses, Holder
    <2> QED BY <2>1, <2>2, <2>3 DEF released, Addresses
  <1>2. ASSUME NEW g \in Handlers, handler'[g].at = "init"
        PROVE  handler[g].at = "init" /\ handler'[g].ip = handler[g].ip /\ handler[g].ip \in leased'
    <2>1. handler[g].at = "init" /\ handler'[g].ip = handler[g].ip BY <1>2
    <2>2. handler[g].ip \in IPs BY <2>1, BaseFacts DEF HandlerOK
    <2>3. ASSUME NEW r \in S \ {0}, sess[r].state # "Closed"
          PROVE  sess[r].assignedIP # handler[g].ip
      BY <2>1, <2>2, <2>3, Bounds DEF Addresses, Holder
    <2> QED BY <2>1, <2>3 DEF released, Addresses
  <1> QED BY <1>1, <1>2, AddressesKept

\* allocateIP: the handler has an address that was free.
LEMMA AddressesAllocate ==
    ASSUME Base, Addresses, NEW h \in Handlers, NEW rec \in HandlerStates, NEW ip \in IPs \ leased,
           handler' = [handler EXCEPT ![h] = rec], rec.at = "init", rec.ip = ip,
           leased' = leased \cup {ip}, sess' = sess
    PROVE  Addresses'
  <1>1. /\ handler'[h].at = "init" /\ handler'[h].ip = ip
        /\ \A g \in Handlers : g # h => handler'[g] = handler[g]
    BY BaseFacts
  <1>2. \A s \in Sessions : Holder(s) => sess[s].assignedIP # ip BY DEF Addresses
  <1>3. \A g \in Handlers : handler[g].at = "init" => handler[g].ip # ip BY DEF Addresses
  <1> QED BY <1>1, <1>2, <1>3 DEF Addresses, Holder

\* InitPPP: the handler's address is now the session's.
LEMMA AddressesInitPPP ==
    ASSUME Base, Addresses, NEW h \in Handlers, InitPPP(h)
    PROVE  Addresses'
  <1> DEFINE r == handler[h].s
             ip == handler[h].ip
  <1>1. /\ handler[h].at = "init" /\ sess' = [sess EXCEPT ![r].assignedIP = ip]
        /\ handler' = [handler EXCEPT ![h] = Idle] /\ leased' = leased
    BY DEF InitPPP, At, Done, Goto
  <1>2. ip \in IPs /\ ip \in leased
    BY <1>1, BaseFacts DEF Addresses, HandlerOK
  <1>3. /\ \A s \in Sessions : s # r => sess'[s] = sess[s]
        /\ \A s \in Sessions : s = r => sess'[s].state = sess[s].state /\ sess'[s].assignedIP = ip
    BY <1>1, BaseFacts DEF SessionObjects
  <1>4. \A g \in Handlers : handler'[g].at = "init" =>
               handler[g].at = "init" /\ handler'[g].ip = handler[g].ip /\ g # h
    <2>1. Idle.at # "init" BY DEF Idle
    <2> QED BY <1>1, <2>1, NotToInit
  <1>5. /\ \A s \in Sessions : Holder(s) => sess[s].assignedIP # ip
        /\ \A g \in Handlers : handler[g].at = "init" /\ g # h => handler[g].ip # ip
    BY <1>1 DEF Addresses
  <1> HIDE DEF r, ip
  <1> QED BY <1>1, <1>2, <1>3, <1>4, <1>5 DEF Addresses, Holder

\* No session is lost or left holding a released address in a tear-down.
LEMMA AddressesTearDown ==
    ASSUME Base, Addresses, NEW T \in SUBSET (1 .. ntunnels), TearDown(T),
           \A g \in Handlers : handler'[g].at = "init" =>
               handler[g].at = "init" /\ handler'[g].ip = handler[g].ip
    PROVE  Addresses'
  <1> DEFINE S == UNION {SessionsOf(t) : t \in T}
  <1>1. sess' = closed(S) /\ leased' = released(S) BY DEF TearDown
  <1>2. S \ {0} = S BY DEF SessionsOf
  <1>3. S \subseteq Sessions
    <2>1. T \subseteq Tunnels BY TearDownFacts
    <2>2. \A t \in T, i \in IDs : tun[t].sessions[i] \in 0 .. nsessions BY <2>1, MapEntries
    <2>3. 0 .. nsessions \subseteq {0} \cup Sessions BY BaseFacts, Bounds DEF Sessions
    <2> QED BY <2>2, <2>3 DEF SessionsOf
  <1> HIDE DEF S
  <1> QED BY <1>1, <1>2, <1>3, AddressesReleased

\* Every step keeps each leased address with one holder.
LEMMA AddressesStep ==
    ASSUME Base, Addresses, [Next]_vars
    PROVE  Addresses'
  <1>0. Idle.at # "init" BY DEF Idle
  <1>1. CASE \/ UNCHANGED vars
             \/ \E t \in Tunnels : onTimeout(t) \/ deferredUnlock(t) \/ runDone(t)
             \/ Shutdown
    <2>1. UNCHANGED <<sess, leased, handler>>
      BY <1>1 DEF vars, onTimeout, deferredUnlock, runDone, Shutdown
    <2> QED BY <2>1 DEF Addresses, Holder
  <1>2. ASSUME NEW h \in Handlers, NEW key \in Keys, NEW outcome \in {"WaitCtlConn", "Idle", "Dead"},
               handleNewTunnel(h, key, outcome)
        PROVE  Addresses'
    <2> DEFINE rec == [Idle EXCEPT !.at = "register", !.t = ntunnels', !.key = key]
    <2>1. /\ handler' = [handler EXCEPT ![h] = rec] \/ handler' = handler
          /\ UNCHANGED <<sess, leased>>
      BY <1>2 DEF handleNewTunnel, Goto
    <2>2. rec.at # "init" BY DEF Idle
    <2> HIDE DEF rec
    <2>3. CASE handler' = [handler EXCEPT ![h] = rec] BY <2>1, <2>2, <2>3, AddressesHandler
    <2>4. CASE handler' = handler BY <2>1, <2>4 DEF Addresses, Holder
    <2> QED BY <2>1, <2>3, <2>4
  <1>3. ASSUME NEW h \in Handlers, NEW id \in IDs, NEW msg \in ControlMessages, NEW sid \in SessionIDs(msg),
               handleControlMessage(h, id, msg, sid)
        PROVE  Addresses'
    <2> DEFINE rec == [Idle EXCEPT !.at = msg, !.t = byLocalID[id], !.sid = sid]
    <2>1. handler' = [handler EXCEPT ![h] = rec] /\ UNCHANGED <<sess, leased>>
      BY <1>3 DEF handleControlMessage, Goto
    <2>2. rec.at # "init" BY DEF Idle, ControlMessages
    <2> HIDE DEF rec
    <2> QED BY <2>1, <2>2, AddressesHandler
  <1>4. ASSUME NEW h \in Handlers, registerTunnel(h) \/ HandleSCCCN(h) \/ removeTunnel(h)
        PROVE  Addresses'
    <2>1. handler' = [handler EXCEPT ![h] = Idle] /\ UNCHANGED <<sess, leased>>
      BY <1>4 DEF registerTunnel, HandleSCCCN, removeTunnel, Done, Goto
    <2> QED BY <1>0, <2>1, AddressesHandler
  <1>5. ASSUME NEW h \in Handlers, HandleICRQ(h) PROVE Addresses'
    <2>1. /\ handler[h].at = "ICRQ" /\ handler' = [handler EXCEPT ![h] = Idle] /\ leased' = leased
          /\ AddSession(handler[h].t, handler[h].sid) \/ sess' = sess
      BY <1>5 DEF HandleICRQ, At, Done, Goto
    <2>2. CASE sess' = sess BY <1>0, <2>1, <2>2, AddressesHandler
    <2>3. CASE AddSession(handler[h].t, handler[h].sid)
      <3>1. handler[h].t \in Tunnels /\ handler[h].sid \in RemoteIDs
        BY <2>1, HandlerTunnel DEF HandlerOK
      <3>2. /\ \A s \in Sessions : s # nsessions' => sess'[s] = sess[s]
            /\ sess'[nsessions'].assignedIP = NoIP
        BY <2>3, <3>1, AddSessionFacts
      <3>3. \A s \in Sessions : sess'[s].state # "Closed" /\ sess'[s].assignedIP # NoIP =>
               Holder(s) /\ sess'[s].assignedIP = sess[s].assignedIP /\ sess[s].assignedIP \in leased'
        BY <2>1, <3>2 DEF Addresses, Holder
      <3>4. \A g \in Handlers : handler'[g].at = "init" =>
               handler[g].at = "init" /\ handler'[g].ip = handler[g].ip /\ handler[g].ip \in leased'
        BY <1>0, <2>1, NotToInit DEF Addresses
      <3> QED BY <3>3, <3>4, AddressesKept
    <2> QED BY <2>1, <2>2, <2>3
  <1>6. ASSUME NEW h \in Handlers, HandleICCN(h) PROVE Addresses'
    <2> DEFINE rec == [handler[h] EXCEPT !.at = "connect", !.s = tun[handler[h].t].sessions[handler[h].sid]]
    <2>1. /\ handler' = [handler EXCEPT ![h] = rec] \/ handler' = [handler EXCEPT ![h] = Idle]
          /\ UNCHANGED <<sess, leased>>
      BY <1>6 DEF HandleICCN, Done, Goto
    <2>2. rec.at # "init" BY BaseFacts DEF HandlerStates
    <2> HIDE DEF rec
    <2> QED BY <1>0, <2>1, <2>2, AddressesHandler
  <1>7. ASSUME NEW h \in Handlers, handleICCN(h) PROVE Addresses'
    <2> DEFINE rec == [handler[h] EXCEPT !.at = "established"]
               r == handler[h].s
    <2>1. /\ handler' = [handler EXCEPT ![h] = rec] \/ handler' = [handler EXCEPT ![h] = Idle]
          /\ leased' = leased
          /\ sess' = sess \/ (sess[r].state = "WaitConnect" /\ sess' = [sess EXCEPT ![r].state = "Established"])
      BY <1>7 DEF handleICCN, Done, Goto
    <2>2. rec.at # "init" BY BaseFacts DEF HandlerStates
    <2>3. \A s \in Sessions : sess'[s].state # "Closed" => sess[s].state # "Closed" /\ sess'[s].assignedIP = sess[s].assignedIP
      BY <2>1, BaseFacts DEF SessionObjects
    <2> HIDE DEF rec, r
    <2>4. \A s \in Sessions : sess'[s].state # "Closed" /\ sess'[s].assignedIP # NoIP =>
               Holder(s) /\ sess'[s].assignedIP = sess[s].assignedIP /\ sess[s].assignedIP \in leased'
      BY <2>1, <2>3 DEF Addresses, Holder
    <2>5. \A g \in Handlers : handler'[g].at = "init" =>
               handler[g].at = "init" /\ handler'[g].ip = handler[g].ip /\ handler[g].ip \in leased'
      BY <1>0, <2>1, <2>2, NotToInit DEF Addresses
    <2> QED BY <2>4, <2>5, AddressesKept
  <1>8. ASSUME NEW h \in Handlers, allocateIP(h) PROVE Addresses'
    <2> DEFINE full == [handler[h] EXCEPT !.at = "full"]
    <2>1. /\ sess' = sess
          /\ \/ \E ip \in IPs \ leased :
                   /\ leased' = leased \cup {ip}
                   /\ handler' = [handler EXCEPT ![h] = [handler[h] EXCEPT !.at = "init", !.ip = ip]]
             \/ handler' = [handler EXCEPT ![h] = full] /\ leased' = leased
      BY <1>8 DEF allocateIP, Goto
    <2>2. CASE handler' = [handler EXCEPT ![h] = full] /\ leased' = leased
      <3>1. full.at # "init" BY BaseFacts DEF HandlerStates
      <3> HIDE DEF full
      <3> QED BY <2>1, <2>2, <3>1, AddressesHandler
    <2>3. ASSUME NEW ip \in IPs \ leased, leased' = leased \cup {ip},
                 handler' = [handler EXCEPT ![h] = [handler[h] EXCEPT !.at = "init", !.ip = ip]]
          PROVE  Addresses'
      <3> DEFINE rec == [handler[h] EXCEPT !.at = "init", !.ip = ip]
      <3>1. handler[h] \in HandlerStates /\ "init" \in Steps BY BaseFacts DEF Steps
      <3>2. rec \in HandlerStates /\ rec.at = "init" /\ rec.ip = ip BY <3>1 DEF HandlerStates
      <3>3. handler' = [handler EXCEPT ![h] = rec] BY <2>3
      <3> HIDE DEF rec
      <3> QED BY <2>1, <2>3, <3>2, <3>3, AddressesAllocate
    <2> QED BY <2>1, <2>2, <2>3
  <1>9. ASSUME NEW h \in Handlers, InitPPP(h) PROVE Addresses'
    BY <1>9, AddressesInitPPP
  <1>10. ASSUME NEW h \in Handlers, SendCDN(h) PROVE Addresses'
    <2> DEFINE s == tun[handler[h].t].sessions[handler[h].sid]
    <2>1. /\ handler[h].at = "full" /\ handler' = [handler EXCEPT ![h] = Idle]
          /\ sess' = closed({s}) /\ leased' = released({s} \ {0})
      BY <1>10 DEF SendCDN, At, Done, Goto
    <2>2. handler[h].t \in Tunnels /\ handler[h].sid \in IDs
      BY <2>1, HandlerTunnel DEF HandlerOK, LooksUp
    <2>3. s \in 0 .. nsessions BY <2>2, MapEntries
    <2> HIDE DEF s
    <2>4. {s} \ {0} \subseteq Sessions BY <2>3, BaseFacts, Bounds DEF Sessions
    <2>5. \A g \in Handlers : handler'[g].at = "init" =>
               handler[g].at = "init" /\ handler'[g].ip = handler[g].ip
      BY <1>0, <2>1, NotToInit
    <2> QED BY <2>1, <2>4, <2>5, AddressesReleased
  <1>11. ASSUME NEW h \in Handlers, HandleCDN(h) PROVE Addresses'
    <2> DEFINE rec == [handler[h] EXCEPT !.at = "close", !.s = tun[handler[h].t].sessions[handler[h].sid]]
    <2>1. /\ handler' = [handler EXCEPT ![h] = rec] \/ handler' = [handler EXCEPT ![h] = Idle]
          /\ UNCHANGED <<sess, leased>>
      BY <1>11 DEF HandleCDN, Done, Goto
    <2>2. rec.at # "init" BY BaseFacts DEF HandlerStates
    <2> HIDE DEF rec
    <2> QED BY <1>0, <2>1, <2>2, AddressesHandler
  <1>12. ASSUME NEW h \in Handlers, closeSession(h) PROVE Addresses'
    <2> DEFINE s == handler[h].s
    <2>1. /\ handler[h].at = "close" /\ handler' = [handler EXCEPT ![h] = Idle]
          /\ sess' = closed({s}) /\ leased' = released({s})
      BY <1>12 DEF closeSession, At, Done, Goto
    <2>2. s \in 1 .. nsessions BY <2>1, BaseFacts DEF HandlerOK, HasSession
    <2> HIDE DEF s
    <2>3. {s} \ {0} = {s} /\ {s} \subseteq Sessions BY <2>2, BaseFacts, Bounds DEF Sessions
    <2>4. \A g \in Handlers : handler'[g].at = "init" =>
               handler[g].at = "init" /\ handler'[g].ip = handler[g].ip
      BY <1>0, <2>1, NotToInit
    <2> QED BY <2>1, <2>3, <2>4, AddressesReleased
  <1>13. ASSUME NEW h \in Handlers, HandleStopCCN(h) PROVE Addresses'
    <2> DEFINE rec == [handler[h] EXCEPT !.at = "remove"]
    <2>1. /\ handler[h].at = "StopCCN" /\ handler' = [handler EXCEPT ![h] = rec]
          /\ TearDown({handler[h].t})
      BY <1>13 DEF HandleStopCCN, At, Done, Goto
    <2>2. rec.at # "init" BY BaseFacts DEF HandlerStates
    <2>3. {handler[h].t} \in SUBSET (1 .. ntunnels) BY <2>1, HandlerTunnel
    <2> HIDE DEF rec
    <2>4. \A g \in Handlers : handler'[g].at = "init" =>
               handler[g].at = "init" /\ handler'[g].ip = handler[g].ip
      BY <2>1, <2>2, NotToInit
    <2> QED BY <2>1, <2>3, <2>4, AddressesTearDown
  <1>14. CASE Close
    <2> DEFINE T == {tunnels[k] : k \in Keys} \ {0}
    <2>1. TearDown(T) /\ handler' = handler BY <1>14 DEF Close
    <2>2. T \in SUBSET (1 .. ntunnels) BY BaseFacts
    <2> HIDE DEF T
    <2> QED BY <2>1, <2>2, AddressesTearDown
  <1>15. ASSUME NEW h \in Handlers, GetSession(h) PROVE Addresses'
    <2> DEFINE rec == [handler[h] EXCEPT !.at = "allocate", !.s = tun[handler[h].t].sessions[handler[h].sid]]
    <2>1. /\ handler' = [handler EXCEPT ![h] = rec] \/ handler' = [handler EXCEPT ![h] = Idle]
          /\ UNCHANGED <<sess, leased>>
      BY <1>15 DEF GetSession, Done, Goto
    <2>2. rec.at # "init" BY BaseFacts DEF HandlerStates
    <2> HIDE DEF rec
    <2> QED BY <1>0, <2>1, <2>2, AddressesHandler
  <1> QED BY <1>1, <1>2, <1>3, <1>4, <1>5, <1>6, <1>7, <1>8, <1>9, <1>10, <1>11, <1>12, <1>13, <1>14,
             <1>15 DEF Next, Step
-----------------------------------------------------------------------------
\* What each step does to the states of tunnels and sessions.

\* A new tunnel takes a blank slot; SCCCN moves a waiting tunnel; a tear-down leaves it dead.
LEMMA TunnelsNotRevived ==
    ASSUME Base, [Next]_vars, NEW t \in Tunnels, tun[t].state = "Dead"
    PROVE  tun'[t].state = "Dead"
  <1>1. CASE \/ UNCHANGED vars
             \/ \E u \in Tunnels : deferredUnlock(u) \/ runDone(u)
             \/ Shutdown
             \/ \E h \in Handlers, id \in IDs, msg \in ControlMessages : \E sid \in SessionIDs(msg) :
                   handleControlMessage(h, id, msg, sid)
             \/ \E h \in Handlers : \/ registerTunnel(h) \/ HandleICCN(h) \/ handleICCN(h) \/ GetSession(h)
                                    \/ allocateIP(h) \/ InitPPP(h) \/ closeSession(h) \/ removeTunnel(h)
    <2>1. tun' = tun
      BY <1>1 DEF vars, deferredUnlock, runDone, Shutdown, handleControlMessage, registerTunnel, HandleICCN, handleICCN,
                  GetSession, allocateIP, InitPPP, closeSession, removeTunnel
    <2> QED BY <2>1
  <1>2. ASSUME NEW h \in Handlers, NEW key \in Keys, NEW outcome \in {"WaitCtlConn", "Idle", "Dead"},
               handleNewTunnel(h, key, outcome)
        PROVE  tun'[t].state = "Dead"
    <2> DEFINE rec == [NoTunnel EXCEPT !.state = outcome, !.localTunnelID = nextTunnelID']
    <2>1. tun' = [tun EXCEPT ![ntunnels'] = rec] /\ ntunnels' = ntunnels + 1
      BY <1>2 DEF handleNewTunnel
    <2> HIDE DEF rec
    <2>2. t # ntunnels'
      <3>1. NoTunnel.state # "Dead" BY DEF NoTunnel
      <3>2. ~ (t > ntunnels) BY <3>1, BaseSame
      <3> QED BY <2>1, <3>2, BaseFacts
    <2> QED BY <2>1, <2>2, BaseFacts
  <1>3. ASSUME NEW h \in Handlers, HandleSCCCN(h) PROVE tun'[t].state = "Dead"
    <2>1. CASE tun[handler[h].t].state = "WaitCtlConn"
      <3>1. tun' = [tun EXCEPT ![handler[h].t].state = "Established"] /\ t # handler[h].t
        BY <1>3, <2>1 DEF HandleSCCCN
      <3> QED BY <3>1, BaseFacts
    <2>2. CASE tun[handler[h].t].state # "WaitCtlConn" BY <1>3, <2>2 DEF HandleSCCCN
    <2> QED BY <2>1, <2>2
  <1>4. ASSUME NEW h \in Handlers, HandleICRQ(h) PROVE tun'[t].state = "Dead"
    <2>1. /\ handler[h].at = "ICRQ"
          /\ AddSession(handler[h].t, handler[h].sid) \/ tun' = tun
      BY <1>4 DEF HandleICRQ, At
    <2>2. CASE AddSession(handler[h].t, handler[h].sid)
      <3>1. handler[h].t \in Tunnels /\ handler[h].sid \in RemoteIDs
        BY <2>1, HandlerTunnel DEF HandlerOK
      <3>2. /\ tun' = [tun EXCEPT ![handler[h].t] = tun'[handler[h].t]]
            /\ tun'[handler[h].t].state = tun[handler[h].t].state
        BY <2>2, <3>1, AddSessionFacts
      <3>3. t # handler[h].t => tun'[t] = tun[t] BY <3>2, BaseFacts
      <3> QED BY <3>2, <3>3
    <2> QED BY <2>1, <2>2
  <1>5. ASSUME NEW h \in Handlers, SendCDN(h) \/ HandleCDN(h) PROVE tun'[t].state = "Dead"
    <2>1. /\ handler[h].at \in {"full", "CDN"}
          /\ tun' = tun \/ tun' = [tun EXCEPT ![handler[h].t].sessions[handler[h].sid] = 0]
      BY <1>5 DEF SendCDN, HandleCDN, At
    <2>2. handler[h].t \in Tunnels /\ handler[h].sid \in IDs
      BY <2>1, HandlerTunnel DEF HandlerOK, LooksUp
    <2> QED BY <2>1, <2>2, Unmapped
  <1>6. ASSUME NEW h \in Handlers, HandleStopCCN(h) PROVE tun'[t].state = "Dead"
    <2>1. handler[h].at = "StopCCN" /\ TearDown({handler[h].t}) BY <1>6 DEF HandleStopCCN, At
    <2>2. {handler[h].t} \in SUBSET (1 .. ntunnels) BY <2>1, HandlerTunnel
    <2> QED BY <2>1, <2>2, TearDownFacts
  <1>7. CASE Close
    <2> DEFINE T == {tunnels[k] : k \in Keys} \ {0}
    <2>1. TearDown(T) BY <1>7 DEF Close
    <2>2. T \in SUBSET (1 .. ntunnels) BY BaseFacts
    <2> HIDE DEF T
    <2> QED BY <2>1, <2>2, TearDownFacts
  <1>8. ASSUME NEW u \in Tunnels, onTimeout(u) PROVE tun'[t].state = "Dead"
    <2>1. tun'[u].state = "Dead" /\ (t # u => tun'[t] = tun[t]) BY <1>8, TimeoutFacts
    <2> QED BY <2>1
  <1> QED BY <1>1, <1>2, <1>3, <1>4, <1>5, <1>6, <1>7, <1>8 DEF Next, Step

\* A new session takes a blank slot; handleICCN moves a waiting session; close is for ever.
LEMMA SessionsNotRevived ==
    ASSUME Base, [Next]_vars, NEW s \in Sessions, sess[s].state = "Closed"
    PROVE  sess'[s].state = "Closed"
  <1>1. CASE \/ UNCHANGED vars
             \/ \E u \in Tunnels : onTimeout(u) \/ deferredUnlock(u) \/ runDone(u)
             \/ Shutdown
             \/ \E h \in Handlers, id \in IDs, msg \in ControlMessages : \E sid \in SessionIDs(msg) :
                   handleControlMessage(h, id, msg, sid)
             \/ \E h \in Handlers, key \in Keys, outcome \in {"WaitCtlConn", "Idle", "Dead"} :
                   handleNewTunnel(h, key, outcome)
             \/ \E h \in Handlers : \/ registerTunnel(h) \/ HandleSCCCN(h) \/ HandleICCN(h)
                                    \/ GetSession(h) \/ allocateIP(h) \/ HandleCDN(h) \/ removeTunnel(h)
    <2>1. sess' = sess
      BY <1>1 DEF vars, onTimeout, deferredUnlock, runDone, Shutdown, handleControlMessage, handleNewTunnel, registerTunnel,
                  HandleSCCCN, HandleICCN, GetSession, allocateIP, HandleCDN, removeTunnel
    <2> QED BY <2>1
  <1>2. ASSUME NEW h \in Handlers, HandleICRQ(h) PROVE sess'[s].state = "Closed"
    <2>1. /\ handler[h].at = "ICRQ"
          /\ AddSession(handler[h].t, handler[h].sid) \/ sess' = sess
      BY <1>2 DEF HandleICRQ, At
    <2>2. CASE AddSession(handler[h].t, handler[h].sid)
      <3>1. handler[h].t \in Tunnels /\ handler[h].sid \in RemoteIDs
        BY <2>1, HandlerTunnel DEF HandlerOK
      <3>2. nsessions' = nsessions + 1 /\ \A r \in Sessions : r # nsessions' => sess'[r] = sess[r]
        BY <2>2, <3>1, AddSessionFacts
      <3>3. s # nsessions'
        <4>1. ~ (s > nsessions) BY BaseSame
        <4> QED BY <3>2, <4>1, BaseFacts
      <3> QED BY <3>2, <3>3
    <2> QED BY <2>1, <2>2
  <1>3. ASSUME NEW h \in Handlers, handleICCN(h) PROVE sess'[s].state = "Closed"
    <2>1. CASE sess[handler[h].s].state = "WaitConnect"
      <3>1. sess' = [sess EXCEPT ![handler[h].s].state = "Established"] /\ s # handler[h].s
        BY <1>3, <2>1 DEF handleICCN
      <3> QED BY <3>1, BaseFacts
    <2>2. CASE sess[handler[h].s].state # "WaitConnect" BY <1>3, <2>2 DEF handleICCN
    <2> QED BY <2>1, <2>2
  <1>4. ASSUME NEW h \in Handlers, InitPPP(h) PROVE sess'[s].state = "Closed"
    <2>1. sess' = [sess EXCEPT ![handler[h].s].assignedIP = handler[h].ip] BY <1>4 DEF InitPPP
    <2> QED BY <2>1, BaseFacts DEF SessionObjects
  <1>5. ASSUME NEW h \in Handlers, SendCDN(h) \/ closeSession(h) PROVE sess'[s].state = "Closed"
    <2>1. \E S : sess' = closed(S) BY <1>5 DEF SendCDN, closeSession
    <2>2. PICK S : sess' = closed(S) BY <2>1
    <2> QED BY <2>2, ClosedFacts
  <1>6. ASSUME NEW h \in Handlers, HandleStopCCN(h) PROVE sess'[s].state = "Closed"
    <2>1. handler[h].at = "StopCCN" /\ TearDown({handler[h].t}) BY <1>6 DEF HandleStopCCN, At
    <2>2. {handler[h].t} \in SUBSET (1 .. ntunnels) BY <2>1, HandlerTunnel
    <2> QED BY <2>1, <2>2, TearDownFacts
  <1>7. CASE Close
    <2> DEFINE T == {tunnels[k] : k \in Keys} \ {0}
    <2>1. TearDown(T) BY <1>7 DEF Close
    <2>2. T \in SUBSET (1 .. ntunnels) BY BaseFacts
    <2> HIDE DEF T
    <2> QED BY <2>1, <2>2, TearDownFacts
  <1> QED BY <1>1, <1>2, <1>3, <1>4, <1>5, <1>6, <1>7 DEF Next, Step
-----------------------------------------------------------------------------
\* SessionsKept is kept, action by action.

\* A Run goroutine that has timed out stays at its deferred unlock until the process ends.
LEMMA TimedOutGrows ==
    ASSUME [Next]_vars
    PROVE  timedOut \subseteq timedOut'
  BY DEF Next, vars, Step, handleNewTunnel, handleControlMessage, registerTunnel, HandleSCCCN, HandleICRQ,
         HandleICCN, handleICCN, GetSession, allocateIP, InitPPP, SendCDN, HandleCDN, closeSession,
         HandleStopCCN, removeTunnel, onTimeout, deferredUnlock, runDone, Shutdown, Close

\* No session is created, and the maps of the tunnels only lose entries.
LEMMA KeptShrink ==
    ASSUME Base, SessionsKept, nsessions' = nsessions,
           \A t \in Tunnels : tun'[t].nextSessionID = tun[t].nextSessionID,
           \A t \in Tunnels, i \in IDs :
               /\ tun'[t].sessions[i] = tun[t].sessions[i] \/ tun'[t].sessions[i] = 0
               /\ TornDown(t)' => tun'[t].sessions[i] = 0,
           \A s \in Sessions : Open(s)' =>
               /\ Open(s) /\ sess'[s].tunnel = sess[s].tunnel
               /\ InMap(s) => InMap(s)' \/ Closing(s)'
               /\ Closing(s) => Closing(s)'
    PROVE  SessionsKept'
  <1>1. \A s \in Sessions : Open(s)' => sess'[s].tunnel \in Tunnels /\ (InMap(s)' \/ Closing(s)')
    BY DEF SessionsKept
  <1>2. FreeIDs' BY DEF SessionsKept, FreeIDs
  <1> QED BY <1>1, <1>2 DEF SessionsKept

\* A handler that is not closing a session keeps no session from being closed by another.
LEMMA ClosingStays ==
    ASSUME Base, NEW h \in Handlers, NEW rec, handler' = [handler EXCEPT ![h] = rec],
           NEW s, Closing(s), handler[h].at = "close" => handler[h].s # s
    PROVE  Closing(s)'
  <1>1. PICK g \in Handlers : handler[g].at = "close" /\ handler[g].s = s BY DEF Closing
  <1>2. handler'[g] = handler[g] BY <1>1, BaseFacts
  <1> QED BY <1>1, <1>2 DEF Closing

\* The maps of the tunnels stay as they are.
LEMMA KeptSame ==
    ASSUME Base, SessionsKept, nsessions' = nsessions,
           \A t \in Tunnels :
               /\ tun'[t].nextSessionID = tun[t].nextSessionID
               /\ tun'[t].sessions = tun[t].sessions
               /\ \A i \in IDs : TornDown(t)' => tun[t].sessions[i] = 0,
           \A s \in Sessions : Open(s)' => Open(s) /\ sess'[s].tunnel = sess[s].tunnel,
           \A s \in Sessions : Open(s)' /\ Closing(s) => Closing(s)'
    PROVE  SessionsKept'
  <1>1. \A s \in Sessions : Open(s)' /\ InMap(s) => InMap(s)'
    BY DEF InMap, SessionsKept
  <1>2. \A t \in Tunnels, i \in IDs :
               /\ tun'[t].sessions[i] = tun[t].sessions[i] \/ tun'[t].sessions[i] = 0
               /\ TornDown(t)' => tun'[t].sessions[i] = 0
    OBVIOUS
  <1> QED BY <1>1, <1>2, KeptShrink

\* Only a handler that is not closing goes on, and no session opens.
LEMMA KeptHandler ==
    ASSUME Base, SessionsKept, timedOut \subseteq timedOut', NEW h \in Handlers, NEW rec, handler' = [handler EXCEPT ![h] = rec],
           UNCHANGED <<nsessions, tun>>,
           \A s \in Sessions : Open(s)' =>
               /\ Open(s) /\ sess'[s].tunnel = sess[s].tunnel
               /\ handler[h].at = "close" => handler[h].s # s
    PROVE  SessionsKept'
  <1>1. ASSUME NEW s \in Sessions, Open(s)', Closing(s) PROVE Closing(s)'
    <2>1. handler[h].at = "close" => handler[h].s # s BY <1>1
    <2> QED BY <1>1, <2>1, ClosingStays
  <1>2. \A t \in Tunnels :
               /\ tun'[t].nextSessionID = tun[t].nextSessionID
               /\ tun'[t].sessions = tun[t].sessions
               /\ \A i \in IDs : TornDown(t)' => tun[t].sessions[i] = 0
    BY DEF SessionsKept, TornDown
  <1>3. \A s \in Sessions : Open(s)' => Open(s) /\ sess'[s].tunnel = sess[s].tunnel OBVIOUS
  <1>4. \A s \in Sessions : Open(s)' /\ Closing(s) => Closing(s)' BY <1>1
  <1> QED BY <1>2, <1>3, <1>4, KeptSame

\* ICRQ: the next ID of the tunnel is free, so the new session displaces none.
LEMMA KeptAddSession ==
    ASSUME Base, SessionsKept, timedOut \subseteq timedOut', MaxSessions < IdSpace, NEW t \in Tunnels, NEW remote \in RemoteIDs,
           AddSession(t, remote), tun[t].state = "Established",
           \A s \in Sessions : Closing(s) => Closing(s)'
    PROVE  SessionsKept'
  <1> DEFINE id == nextID(tun[t].nextSessionID)
  <1>1. /\ nsessions' = nsessions + 1 /\ nsessions' \in Sessions
        /\ \A s \in Sessions : s # nsessions' => sess'[s] = sess[s]
        /\ sess'[nsessions'].tunnel = t
        /\ tun' = [tun EXCEPT ![t] = tun'[t]]
        /\ tun'[t].nextSessionID = id /\ tun'[t].state = "Established"
        /\ tun'[t].sessions[id] = nsessions' /\ id \in IDs
        /\ \A i \in IDs : i # id => tun'[t].sessions[i] = tun[t].sessions[i]
    BY AddSessionFacts
  <1>2. /\ \A u \in Tunnels : u # t => tun'[u] = tun[u]
        /\ nsessions \in Nat /\ tun[t].nextSessionID \in IDs
    BY <1>1, BaseFacts DEF TunnelObjects
  <1>3. id = LocalID(tun[t].nextSessionID) BY <1>2, NextIDFacts
  <1>4. nsessions < MaxSessions BY DEF AddSession
  <1>5. /\ \A u \in Tunnels : /\ tun[u].nextSessionID <= nsessions + 1
                              /\ \A i \in IDs : i = 1 \/ i > tun[u].nextSessionID => tun[u].sessions[i] = 0
    BY <1>4 DEF SessionsKept, FreeIDs
  <1>6. tun[t].sessions[id] = 0
    <2>1. id = 1 \/ id > tun[t].nextSessionID BY <1>2, <1>3, Bounds DEF LocalID, IDs
    <2> QED BY <1>1, <1>5, <2>1
  <1> HIDE DEF id
  <1>7. \A s \in Sessions : Open(s)' => sess'[s].tunnel \in Tunnels /\ (InMap(s)' \/ Closing(s)')
    <2> SUFFICES ASSUME NEW s \in Sessions, Open(s)'
                 PROVE  sess'[s].tunnel \in Tunnels /\ (InMap(s)' \/ Closing(s)')
      OBVIOUS
    <2>1. CASE s = nsessions' BY <1>1, <2>1 DEF InMap
    <2>2. CASE s # nsessions'
      <3>1. sess'[s] = sess[s] /\ Open(s) BY <1>1, <2>2 DEF Open
      <3>2. sess[s].tunnel \in Tunnels /\ (InMap(s) \/ Closing(s)) BY <3>1 DEF SessionsKept
      <3>3. s # 0 BY Bounds DEF Sessions
      <3>4. ASSUME NEW i \in IDs, tun[sess[s].tunnel].sessions[i] = s
            PROVE  tun'[sess[s].tunnel].sessions[i] = s
        <4>1. CASE sess[s].tunnel = t /\ i = id BY <1>6, <3>3, <3>4, <4>1
        <4>2. CASE sess[s].tunnel = t /\ i # id BY <1>1, <3>4, <4>2
        <4>3. CASE sess[s].tunnel # t BY <1>2, <3>2, <3>4, <4>3
        <4> QED BY <4>1, <4>2, <4>3
      <3> QED BY <3>1, <3>2, <3>4 DEF InMap
    <2> QED BY <2>1, <2>2
  <1>8. \A u \in Tunnels, i \in IDs : TornDown(u)' => tun'[u].sessions[i] = 0
    <2>1. \A i \in IDs : tun'[t].state # "Dead" BY <1>1
    <2> QED BY <1>2, <2>1 DEF SessionsKept, TornDown
  <1>9. FreeIDs'
    <2> SUFFICES ASSUME nsessions' < MaxSessions, NEW u \in Tunnels
                 PROVE  /\ tun'[u].nextSessionID <= nsessions' + 1
                        /\ \A i \in IDs : i = 1 \/ i > tun'[u].nextSessionID => tun'[u].sessions[i] = 0
      BY DEF FreeIDs
    <2>1. CASE u # t
      <3>1. tun'[u] = tun[u] /\ tun[u].nextSessionID \in IDs BY <1>2, <2>1, BaseFacts DEF TunnelObjects
      <3>2. tun[u].nextSessionID <= nsessions' + 1 BY <1>1, <1>2, <1>5, <3>1, Bounds DEF IDs
      <3> QED BY <1>5, <3>1, <3>2
    <2>2. CASE u = t
      <3>1. id = tun[t].nextSessionID + 1 /\ id <= nsessions' + 1 /\ id # 1 /\ id > tun[t].nextSessionID
        <4>1. tun[t].nextSessionID <= nsessions' BY <1>1, <1>5
        <4>2. tun[t].nextSessionID + 1 # IdSpace BY <1>1, <1>2, <4>1, Bounds DEF IDs
        <4> QED BY <1>1, <1>2, <1>3, <4>1, <4>2, Bounds DEF LocalID, IDs
      <3>2. \A i \in IDs : i = 1 \/ i > id => i # id /\ (i = 1 \/ i > tun[t].nextSessionID)
        BY <1>1, <1>2, <3>1, Bounds DEF IDs
      <3> QED BY <1>1, <1>5, <2>2, <3>1, <3>2
    <2> QED BY <2>1, <2>2
  <1> QED BY <1>7, <1>8, <1>9 DEF SessionsKept

\* An entry leaves the map of a tunnel: its session is closed, or a handler closes it.
LEMMA KeptUnmapped ==
    ASSUME Base, SessionsKept, timedOut \subseteq timedOut', NEW t \in Tunnels, NEW i \in IDs,
           tun' = [tun EXCEPT ![t].sessions[i] = 0], nsessions' = nsessions,
           \A s \in Sessions : Open(s)' => Open(s) /\ sess'[s].tunnel = sess[s].tunnel,
           \A s \in Sessions : Open(s)' /\ s = tun[t].sessions[i] => Closing(s)',
           \A s \in Sessions : Open(s)' /\ Closing(s) => Closing(s)'
    PROVE  SessionsKept'
  <1>1. /\ \A u \in Tunnels : u # t => tun'[u] = tun[u]
        /\ \A u \in Tunnels : tun'[u].state = tun[u].state /\ tun'[u].nextSessionID = tun[u].nextSessionID
        /\ tun'[t].sessions[i] = 0
        /\ \A j \in IDs : j # i => tun'[t].sessions[j] = tun[t].sessions[j]
    BY Unmapped
  <1>2. \A u \in Tunnels, j \in IDs :
               tun'[u].sessions[j] = tun[u].sessions[j] \/ (u = t /\ j = i /\ tun'[u].sessions[j] = 0)
    BY <1>1
  <1>3. \A u \in Tunnels, j \in IDs :
               /\ tun'[u].sessions[j] = tun[u].sessions[j] \/ tun'[u].sessions[j] = 0
               /\ TornDown(u)' => tun'[u].sessions[j] = 0
    BY <1>1, <1>2 DEF SessionsKept, TornDown
  <1>4. ASSUME NEW s \in Sessions, Open(s)', InMap(s) PROVE InMap(s)' \/ Closing(s)'
    <2>1. Open(s) /\ sess'[s].tunnel = sess[s].tunnel BY <1>4
    <2>2. sess[s].tunnel \in Tunnels BY <2>1 DEF SessionsKept
    <2>3. PICK j \in IDs : tun[sess[s].tunnel].sessions[j] = s BY <1>4 DEF InMap
    <2>4. CASE tun'[sess[s].tunnel].sessions[j] = s BY <2>1, <2>4 DEF InMap
    <2>5. CASE sess[s].tunnel = t /\ j = i BY <1>4, <2>3, <2>5
    <2> QED BY <1>2, <2>2, <2>3, <2>4, <2>5
  <1>5. \A s \in Sessions : Open(s)' =>
               /\ Open(s) /\ sess'[s].tunnel = sess[s].tunnel
               /\ InMap(s) => InMap(s)' \/ Closing(s)'
               /\ Closing(s) => Closing(s)'
    BY <1>4
  <1>6. \A u \in Tunnels : tun'[u].nextSessionID = tun[u].nextSessionID BY <1>1
  <1> QED BY <1>3, <1>5, <1>6, KeptShrink

\* A tear-down closes every session in the maps it empties.
LEMMA KeptTearDown ==
    ASSUME Base, SessionsKept, timedOut \subseteq timedOut', NEW T \in SUBSET (1 .. ntunnels), TearDown(T), nsessions' = nsessions,
           \A s \in Sessions : Closing(s) => Closing(s)'
    PROVE  SessionsKept'
  <1>1. /\ T \subseteq Tunnels
        /\ \A t \in Tunnels : t \notin T => tun'[t] = tun[t]
        /\ \A t \in T : /\ tun'[t].nextSessionID = tun[t].nextSessionID
                        /\ \A i \in IDs : tun'[t].sessions[i] = 0
        /\ \A s \in Sessions :
              /\ sess'[s].tunnel = sess[s].tunnel
              /\ sess'[s] = sess[s] \/ sess'[s].state = "Closed"
              /\ \A t \in T, i \in IDs : tun[t].sessions[i] = s => sess'[s].state = "Closed"
    BY TearDownFacts
  <1>2. \A t \in Tunnels : tun'[t].nextSessionID = tun[t].nextSessionID BY <1>1
  <1>3. \A t \in Tunnels, i \in IDs :
               /\ tun'[t].sessions[i] = tun[t].sessions[i] \/ tun'[t].sessions[i] = 0
               /\ TornDown(t)' => tun'[t].sessions[i] = 0
    BY <1>1 DEF SessionsKept, TornDown
  <1>4. \A s \in Sessions : Open(s)' => Open(s) /\ sess'[s].tunnel = sess[s].tunnel
    BY <1>1 DEF Open
  <1>5. ASSUME NEW s \in Sessions, Open(s)', InMap(s) PROVE InMap(s)'
    <2>1. sess[s].tunnel \in Tunnels /\ sess'[s].tunnel = sess[s].tunnel /\ sess'[s].state # "Closed"
      BY <1>4, <1>5 DEF SessionsKept, Open
    <2>2. PICK j \in IDs : tun[sess[s].tunnel].sessions[j] = s BY <1>5 DEF InMap
    <2>3. sess[s].tunnel \notin T BY <1>1, <2>1, <2>2
    <2> QED BY <1>1, <2>1, <2>2, <2>3 DEF InMap
  <1>6. \A s \in Sessions : Open(s)' =>
               /\ Open(s) /\ sess'[s].tunnel = sess[s].tunnel
               /\ InMap(s) => InMap(s)' \/ Closing(s)'
               /\ Closing(s) => Closing(s)'
    BY <1>4, <1>5
  <1> QED BY <1>2, <1>3, <1>6, KeptShrink

\* Every step keeps the sessions of a live tunnel in its map.
LEMMA KeptStep ==
    ASSUME Base, SessionsKept, MaxSessions < IdSpace, [Next]_vars
    PROVE  SessionsKept'
  <1>0. timedOut \subseteq timedOut' BY TimedOutGrows
  <1>1. CASE \/ UNCHANGED vars
             \/ \E t \in Tunnels : deferredUnlock(t) \/ runDone(t)
             \/ Shutdown
    <2>1. UNCHANGED <<nsessions, tun, sess, timedOut, handler>>
      BY <1>1 DEF vars, deferredUnlock, runDone, Shutdown
    <2> QED BY <2>1 DEF SessionsKept, TornDown, Open, InMap, Closing, FreeIDs
  <1>2. ASSUME NEW h \in Handlers, NEW key \in Keys, NEW outcome \in {"WaitCtlConn", "Idle", "Dead"},
               handleNewTunnel(h, key, outcome)
        PROVE  SessionsKept'
    <2> DEFINE rec == [NoTunnel EXCEPT !.state = outcome, !.localTunnelID = nextTunnelID']
               hrec == [Idle EXCEPT !.at = "register", !.t = ntunnels', !.key = key]
    <2>1. /\ handler[h].at = "idle" /\ ntunnels < MaxTunnels /\ ntunnels' = ntunnels + 1
          /\ tun' = [tun EXCEPT ![ntunnels'] = rec] /\ nsessions' = nsessions /\ sess' = sess
          /\ handler' = [handler EXCEPT ![h] = hrec] \/ handler' = handler
      BY <1>2 DEF handleNewTunnel, Goto, At
    <2>2. rec.nextSessionID = NoTunnel.nextSessionID /\ rec.sessions = NoTunnel.sessions
      BY DEF NoTunnel
    <2> HIDE DEF rec, hrec
    <2>3. ntunnels' \in Tunnels /\ ntunnels' > ntunnels BY <2>1, BaseFacts, Bounds DEF Tunnels
    <2>4. tun[ntunnels'] = NoTunnel BY <2>3, BaseSame
    <2>5. \A t \in Tunnels : tun'[t] = IF t = ntunnels' THEN rec ELSE tun[t] BY <2>1, <2>3, BaseFacts
    <2>6. \A t \in Tunnels : tun'[t].nextSessionID = tun[t].nextSessionID /\ tun'[t].sessions = tun[t].sessions
      BY <2>2, <2>4, <2>5
    <2>7. \A t \in Tunnels, i \in IDs : TornDown(t)' => tun[t].sessions[i] = 0
      BY <1>0, <2>4, <2>5, BlankTypes DEF SessionsKept, TornDown
    <2>8. \A s \in Sessions : Open(s)' => Open(s) /\ sess'[s].tunnel = sess[s].tunnel BY <2>1 DEF Open
    <2>9. ASSUME NEW s \in Sessions, Closing(s) PROVE Closing(s)'
      <3>1. CASE handler' = handler BY <2>9, <3>1 DEF Closing
      <3>2. CASE handler' = [handler EXCEPT ![h] = hrec]
        <4>1. handler[h].at = "close" => handler[h].s # s BY <2>1
        <4> QED BY <2>9, <3>2, <4>1, ClosingStays
      <3> QED BY <2>1, <3>1, <3>2
    <2> QED BY <2>1, <2>6, <2>7, <2>8, <2>9, KeptSame
  <1>3. ASSUME NEW h \in Handlers,
               \/ \E id \in IDs, msg \in ControlMessages : \E sid \in SessionIDs(msg) :
                     handleControlMessage(h, id, msg, sid)
               \/ registerTunnel(h) \/ HandleICCN(h) \/ GetSession(h) \/ allocateIP(h) \/ removeTunnel(h)
        PROVE  SessionsKept'
    <2>1. /\ handler[h].at # "close" /\ UNCHANGED <<nsessions, tun, sess>>
          /\ \E rec : handler' = [handler EXCEPT ![h] = rec]
      BY <1>3 DEF handleControlMessage, registerTunnel, HandleICCN, GetSession, allocateIP, removeTunnel, At, Done, Goto
    <2>2. PICK rec : handler' = [handler EXCEPT ![h] = rec] BY <2>1
    <2>3. \A s \in Sessions : Open(s)' =>
               /\ Open(s) /\ sess'[s].tunnel = sess[s].tunnel
               /\ handler[h].at = "close" => handler[h].s # s
      BY <2>1 DEF Open
    <2> QED BY <1>0, <2>1, <2>2, <2>3, KeptHandler
  <1>4. ASSUME NEW h \in Handlers, HandleSCCCN(h) PROVE SessionsKept'
    <2> DEFINE t == handler[h].t
    <2>1. /\ handler[h].at = "SCCCN" /\ handler' = [handler EXCEPT ![h] = Idle]
          /\ tun' = tun \/ tun' = [tun EXCEPT ![t].state = "Established"]
          /\ nsessions' = nsessions /\ sess' = sess
      BY <1>4 DEF HandleSCCCN, At, Done, Goto
    <2>2. \A u \in Tunnels : /\ tun'[u].nextSessionID = tun[u].nextSessionID
                             /\ tun'[u].sessions = tun[u].sessions
                             /\ tun'[u].state = tun[u].state \/ tun'[u].state = "Established"
      <3>1. t \in Tunnels /\ tun \in [Tunnels -> TunnelObjects] BY <2>1, HandlerTunnel, BaseFacts
      <3>2. CASE tun' = tun BY <3>2
      <3>3. CASE tun' = [tun EXCEPT ![t].state = "Established"]
        <4>1. \A u \in Tunnels : u # t => tun'[u] = tun[u] BY <3>1, <3>3
        <4>2. /\ tun'[t].nextSessionID = tun[t].nextSessionID /\ tun'[t].sessions = tun[t].sessions
              /\ tun'[t].state = "Established"
          BY <3>1, <3>3 DEF TunnelObjects
        <4> QED BY <4>1, <4>2
      <3> QED BY <2>1, <3>2, <3>3
    <2>3. \A u \in Tunnels : /\ tun'[u].nextSessionID = tun[u].nextSessionID
                             /\ tun'[u].sessions = tun[u].sessions
                             /\ \A i \in IDs : TornDown(u)' => tun[u].sessions[i] = 0
      <3>1. \A u \in Tunnels : TornDown(u)' => TornDown(u) BY <1>0, <2>2 DEF TornDown
      <3>2. \A u \in Tunnels, i \in IDs : TornDown(u) => tun[u].sessions[i] = 0 BY DEF SessionsKept
      <3> QED BY <2>2, <3>1, <3>2
    <2>4. \A s \in Sessions : Open(s)' => Open(s) /\ sess'[s].tunnel = sess[s].tunnel BY <2>1 DEF Open
    <2>5. \A s \in Sessions : Closing(s) => Closing(s)' BY <2>1, ClosingStays
    <2> QED BY <2>1, <2>3, <2>4, <2>5, KeptSame
  <1>5. ASSUME NEW h \in Handlers, HandleICRQ(h) PROVE SessionsKept'
    <2>1. /\ handler[h].at = "ICRQ" /\ handler' = [handler EXCEPT ![h] = Idle]
          /\ \/ tun[handler[h].t].state = "Established" /\ AddSession(handler[h].t, handler[h].sid)
             \/ UNCHANGED <<nsessions, sess, tun>>
      BY <1>5 DEF HandleICRQ, At, Done, Goto
    <2>2. \A s \in Sessions : Closing(s) => Closing(s)' BY <2>1, ClosingStays
    <2>3. CASE tun[handler[h].t].state = "Established" /\ AddSession(handler[h].t, handler[h].sid)
      <3>1. handler[h].t \in Tunnels /\ handler[h].sid \in RemoteIDs
        BY <2>1, HandlerTunnel DEF HandlerOK
      <3> QED BY <1>0, <2>2, <2>3, <3>1, KeptAddSession
    <2>4. CASE UNCHANGED <<nsessions, sess, tun>>
      <3>1. \A s \in Sessions : Open(s)' =>
               /\ Open(s) /\ sess'[s].tunnel = sess[s].tunnel
               /\ handler[h].at = "close" => handler[h].s # s
        BY <2>1, <2>4 DEF Open
      <3> QED BY <1>0, <2>1, <2>4, <3>1, KeptHandler
    <2> QED BY <2>1, <2>3, <2>4
  <1>6. ASSUME NEW h \in Handlers, handleICCN(h) \/ InitPPP(h) PROVE SessionsKept'
    <2>1. /\ handler[h].at # "close" /\ UNCHANGED <<nsessions, tun>>
          /\ \E rec : handler' = [handler EXCEPT ![h] = rec]
          /\ \/ sess' = sess
             \/ /\ sess[handler[h].s].state = "WaitConnect"
                /\ sess' = [sess EXCEPT ![handler[h].s].state = "Established"]
             \/ sess' = [sess EXCEPT ![handler[h].s].assignedIP = handler[h].ip]
      BY <1>6 DEF handleICCN, InitPPP, At, Done, Goto
    <2>2. PICK rec : handler' = [handler EXCEPT ![h] = rec] BY <2>1
    <2>3. \A s \in Sessions : Open(s)' => Open(s) /\ sess'[s].tunnel = sess[s].tunnel
      BY <2>1, BaseFacts DEF Open, SessionObjects
    <2> QED BY <1>0, <2>1, <2>2, <2>3, KeptHandler
  <1>7. ASSUME NEW h \in Handlers, SendCDN(h) PROVE SessionsKept'
    <2> DEFINE t == handler[h].t
               i == handler[h].sid
    <2>1. /\ handler[h].at = "full" /\ sess' = closed({tun[t].sessions[i]})
          /\ tun' = [tun EXCEPT ![t].sessions[i] = 0]
          /\ handler' = [handler EXCEPT ![h] = Idle] /\ nsessions' = nsessions
      BY <1>7 DEF SendCDN, At, Done, Goto
    <2>2. t \in Tunnels /\ i \in IDs BY <2>1, HandlerTunnel DEF HandlerOK, LooksUp
    <2> HIDE DEF t, i
    <2>3. \A s \in Sessions : Open(s)' => /\ Open(s) /\ sess'[s].tunnel = sess[s].tunnel
                                          /\ s # tun[t].sessions[i]
      BY <2>1, ClosedFacts DEF Open
    <2>4. \A s \in Sessions : Closing(s) => Closing(s)' BY <2>1, ClosingStays
    <2> QED BY <1>0, <2>1, <2>2, <2>3, <2>4, KeptUnmapped
  <1>8. ASSUME NEW h \in Handlers, HandleCDN(h) PROVE SessionsKept'
    <2> DEFINE t == handler[h].t
               i == handler[h].sid
               rec == [handler[h] EXCEPT !.at = "close", !.s = tun[t].sessions[i]]
    <2>1. /\ handler[h].at = "CDN" /\ nsessions' = nsessions /\ sess' = sess
          /\ \/ tun' = [tun EXCEPT ![t].sessions[i] = 0] /\ handler' = [handler EXCEPT ![h] = rec]
             \/ tun' = tun /\ handler' = [handler EXCEPT ![h] = Idle]
      BY <1>8 DEF HandleCDN, At, Done, Goto
    <2>2. t \in Tunnels /\ i \in IDs BY <2>1, HandlerTunnel DEF HandlerOK, LooksUp
    <2>3. rec.at = "close" /\ rec.s = tun[t].sessions[i] BY BaseFacts DEF HandlerStates
    <2> HIDE DEF t, i, rec
    <2>4. \A s \in Sessions : Open(s)' => Open(s) /\ sess'[s].tunnel = sess[s].tunnel BY <2>1 DEF Open
    <2>5. CASE tun' = [tun EXCEPT ![t].sessions[i] = 0] /\ handler' = [handler EXCEPT ![h] = rec]
      <3>1. handler'[h] = rec BY <2>5, BaseFacts
      <3>2. \A s \in Sessions : s = tun[t].sessions[i] => Closing(s)' BY <2>3, <3>1 DEF Closing
      <3>3. \A s \in Sessions : Closing(s) => Closing(s)' BY <2>1, <2>5, ClosingStays
      <3> QED BY <1>0, <2>1, <2>2, <2>4, <2>5, <3>2, <3>3, KeptUnmapped
    <2>6. CASE tun' = tun /\ handler' = [handler EXCEPT ![h] = Idle]
      <3>1. \A s \in Sessions : Open(s)' =>
               /\ Open(s) /\ sess'[s].tunnel = sess[s].tunnel
               /\ handler[h].at = "close" => handler[h].s # s
        BY <2>1, <2>4
      <3> QED BY <1>0, <2>1, <2>6, <3>1, KeptHandler
    <2> QED BY <2>1, <2>5, <2>6
  <1>9. ASSUME NEW h \in Handlers, closeSession(h) PROVE SessionsKept'
    <2>1. /\ sess' = closed({handler[h].s}) /\ handler' = [handler EXCEPT ![h] = Idle]
          /\ UNCHANGED <<nsessions, tun>>
      BY <1>9 DEF closeSession, Done, Goto
    <2>2. \A s \in Sessions : Open(s)' =>
               /\ Open(s) /\ sess'[s].tunnel = sess[s].tunnel
               /\ handler[h].at = "close" => handler[h].s # s
      BY <2>1, ClosedFacts DEF Open
    <2> QED BY <1>0, <2>1, <2>2, KeptHandler
  <1>10. ASSUME NEW h \in Handlers, HandleStopCCN(h) PROVE SessionsKept'
    <2>1. /\ handler[h].at = "StopCCN" /\ TearDown({handler[h].t}) /\ nsessions' = nsessions
          /\ \E rec : handler' = [handler EXCEPT ![h] = rec]
      BY <1>10 DEF HandleStopCCN, At, Goto
    <2>2. {handler[h].t} \in SUBSET (1 .. ntunnels) BY <2>1, HandlerTunnel
    <2>3. PICK rec : handler' = [handler EXCEPT ![h] = rec] BY <2>1
    <2>4. \A s \in Sessions : Closing(s) => Closing(s)' BY <2>1, <2>3, ClosingStays
    <2> QED BY <1>0, <2>1, <2>2, <2>4, KeptTearDown
  <1>11. CASE Close
    <2> DEFINE T == {tunnels[k] : k \in Keys} \ {0}
    <2>1. TearDown(T) /\ handler' = handler /\ nsessions' = nsessions BY <1>11 DEF Close
    <2>2. T \in SUBSET (1 .. ntunnels) BY BaseFacts
    <2>3. \A s \in Sessions : Closing(s) => Closing(s)' BY <2>1 DEF Closing
    <2> HIDE DEF T
    <2> QED BY <1>0, <2>1, <2>2, <2>3, KeptTearDown
  <1>12. ASSUME NEW t \in Tunnels, onTimeout(t) PROVE SessionsKept'
    <2>1. timedOut' = timedOut \cup {t} /\ UNCHANGED <<nsessions, sess, handler>> BY <1>12 DEF onTimeout
    <2>2. \A u \in Tunnels : /\ tun'[u].nextSessionID = tun[u].nextSessionID
                             /\ tun'[u].sessions = tun[u].sessions
                             /\ u # t => tun'[u] = tun[u]
      BY <1>12, TimeoutFacts
    <2>3. \A u \in Tunnels : TornDown(u)' => TornDown(u) BY <2>1, <2>2 DEF TornDown
    <2>4. \A u \in Tunnels : /\ tun'[u].nextSessionID = tun[u].nextSessionID
                             /\ tun'[u].sessions = tun[u].sessions
                             /\ \A i \in IDs : TornDown(u)' => tun[u].sessions[i] = 0
      BY <2>2, <2>3 DEF SessionsKept
    <2>5. \A s \in Sessions : /\ Open(s)' => Open(s) /\ sess'[s].tunnel = sess[s].tunnel
                              /\ Closing(s) => Closing(s)'
      BY <2>1 DEF Open, Closing
    <2> QED BY <2>1, <2>4, <2>5, KeptSame
  <1> QED BY <1>1, <1>2, <1>3, <1>4, <1>5, <1>6, <1>7, <1>8, <1>9, <1>10, <1>11, <1>12 DEF Next, Step
-----------------------------------------------------------------------------
\* Registered is kept, action by action.

\* With fewer tunnels than IDs, no two tunnels have the same local ID.
LEMMA LocalIDs ==
    ASSUME MaxTunnels < IdSpace
    PROVE  /\ \A t, u \in Tunnels : t # u => LocalID(t) # LocalID(u)
           /\ \A t \in Tunnels : LocalID(t) \in IDs
           /\ LocalID(0) = 1
           /\ \A n \in Nat : n < MaxTunnels => nextID(LocalID(n)) = LocalID(n + 1)
  <1>1. \A t \in Tunnels : t \in Nat /\ t >= 1 /\ t < IdSpace BY Bounds DEF Tunnels
  <1>2. \A t, u \in Tunnels : t # u => LocalID(t) # LocalID(u) BY <1>1, Bounds DEF LocalID
  <1>3. \A t \in Tunnels : LocalID(t) \in IDs BY <1>1, Bounds DEF LocalID, IDs
  <1>4. LocalID(0) = 1 BY Bounds DEF LocalID
  <1>5. ASSUME NEW n \in Nat, n < MaxTunnels PROVE nextID(LocalID(n)) = LocalID(n + 1)
    <2>1. LocalID(n) = n + 1 /\ n + 1 \in IDs BY <1>5, Bounds DEF LocalID, IDs
    <2> QED BY <2>1, NextIDFacts
  <1> QED BY <1>2, <1>3, <1>4, <1>5

\* The tunnels keep their IDs and no more are created; the rest by its parts.
LEMMA RegisteredParts ==
    ASSUME Base, Registered, [Next]_vars,
           UNCHANGED <<ntunnels, nextTunnelID>>,
           \A t \in Tunnels : tun'[t].localTunnelID = tun[t].localTunnelID,
           running' \subseteq 1 .. ntunnels,
           \A h \in Handlers : handler'[h].at = "remove" /\ handler[h].at # "remove" =>
                                   tun'[handler'[h].t].state = "Dead",
           \A h \in Handlers : handler'[h].at = "remove" /\ handler[h].at = "remove" => handler'[h] = handler[h],
           TunnelReachable'
    PROVE  Registered'
  <1>1. 1 .. ntunnels \subseteq Tunnels BY BaseFacts, Bounds DEF Tunnels
  <1>2. \A t \in 1 .. ntunnels' : tun'[t].localTunnelID = LocalID(t) BY <1>1 DEF Registered
  <1>3. ASSUME NEW h \in Handlers, handler'[h].at = "remove" PROVE tun'[handler'[h].t].state = "Dead"
    <2>1. CASE handler[h].at = "remove"
      <3>1. handler'[h] = handler[h] /\ tun[handler[h].t].state = "Dead" /\ handler[h].t \in Tunnels
        BY <1>3, <2>1, HandlerTunnel DEF Registered
      <3> QED BY <3>1, TunnelsNotRevived
    <2> QED BY <1>3, <2>1
  <1> QED BY <1>2, <1>3 DEF Registered

\* The maps of tunnels and the set of running goroutines stay, or lose tunnels.
LEMMA ReachableSame ==
    ASSUME Base, Registered, phase' \in {"up", "stopping"} => phase \in {"up", "stopping"},
           UNCHANGED <<tunnels, byLocalID>>, running' \subseteq running,
           \A t \in Tunnels : tun'[t].localTunnelID = tun[t].localTunnelID,
           \A t \in Tunnels : tun[t].state = "Dead" => tun'[t].state = "Dead"
    PROVE  TunnelReachable'
  <1> SUFFICES ASSUME phase' \in {"up", "stopping"}
               PROVE  /\ \A t \in running' : tun'[t].state # "Dead" => byLocalID'[tun'[t].localTunnelID] = t
                      /\ \A k \in Keys : tunnels'[k] # 0 =>
                            byLocalID'[tun'[tunnels'[k]].localTunnelID] = tunnels'[k]
    BY DEF TunnelReachable
  <1>1. /\ \A t \in running : tun[t].state # "Dead" => byLocalID[tun[t].localTunnelID] = t
        /\ \A k \in Keys : tunnels[k] # 0 => byLocalID[tun[tunnels[k]].localTunnelID] = tunnels[k]
    BY DEF Registered, TunnelReachable
  <1>2. \A t \in running' : tun'[t].state # "Dead" => byLocalID'[tun'[t].localTunnelID] = t
    BY <1>1, BaseFacts
  <1>3. \A k \in Keys : tunnels[k] # 0 => tunnels[k] \in Tunnels
    BY BaseFacts, Bounds DEF Tunnels
  <1> QED BY <1>1, <1>2, <1>3

\* Everything but the maps, the creation of a tunnel and a tear-down.
LEMMA RegisteredQuiet ==
    ASSUME Base, Registered, [Next]_vars, phase' = phase, phase # "crashed",
           UNCHANGED <<ntunnels, nextTunnelID, tunnels, byLocalID, running>>,
           \A t \in Tunnels : tun'[t].localTunnelID = tun[t].localTunnelID,
           NEW h \in Handlers, NEW rec, handler' = [handler EXCEPT ![h] = rec], rec.at # "remove"
    PROVE  Registered'
  <1>1. \A t \in Tunnels : tun[t].state = "Dead" => tun'[t].state = "Dead" BY TunnelsNotRevived
  <1>2. TunnelReachable' BY <1>1, ReachableSame
  <1>3. running' \subseteq 1 .. ntunnels BY DEF Registered
  <1>4. \A g \in Handlers : handler'[g].at = "remove" => handler[g].at = "remove" /\ handler'[g] = handler[g]
    BY BaseFacts
  <1> QED BY <1>2, <1>3, <1>4, RegisteredParts

\* A new tunnel takes an ID that no tunnel of this process had.
LEMMA RegisteredNewTunnel ==
    ASSUME Base, Registered, MaxTunnels < IdSpace, NEW h \in Handlers, NEW key \in Keys,
           NEW outcome \in {"WaitCtlConn", "Idle", "Dead"}, handleNewTunnel(h, key, outcome)
    PROVE  Registered'
  <1> DEFINE rec == [NoTunnel EXCEPT !.state = outcome, !.localTunnelID = nextTunnelID']
             hrec == [Idle EXCEPT !.at = "register", !.t = ntunnels', !.key = key]
  <1>1. /\ ntunnels < MaxTunnels /\ ntunnels' = ntunnels + 1 /\ nextTunnelID' = nextID(nextTunnelID)
        /\ tun' = [tun EXCEPT ![ntunnels'] = rec]
        /\ handler' = [handler EXCEPT ![h] = hrec] \/ handler' = handler
        /\ UNCHANGED <<tunnels, byLocalID, running, phase>>
    BY DEF handleNewTunnel, Goto, mapsVars
  <1>2. rec.localTunnelID = nextTunnelID' /\ hrec.at # "remove" BY DEF NoTunnel, Idle
  <1> HIDE DEF rec, hrec
  <1>3. ntunnels \in Nat /\ tun \in [Tunnels -> TunnelObjects] /\ ntunnels' \in Tunnels
    BY <1>1, BaseFacts, Bounds DEF Tunnels
  <1>4. nextTunnelID' = LocalID(ntunnels') BY <1>1, <1>3, LocalIDs DEF Registered
  <1>5. \A t \in Tunnels : tun'[t] = IF t = ntunnels' THEN rec ELSE tun[t] BY <1>1, <1>3
  <1>6. 1 .. ntunnels \subseteq Tunnels \ {ntunnels'}
    BY <1>1, <1>3, BaseFacts, Bounds DEF Tunnels
  <1>7. ASSUME NEW t \in 1 .. ntunnels' PROVE tun'[t].localTunnelID = LocalID(t)
    <2>1. CASE t = ntunnels' BY <1>2, <1>3, <1>4, <1>5, <2>1
    <2>2. CASE t # ntunnels'
      <3>1. t \in 1 .. ntunnels BY <1>1, <1>3, <2>2
      <3> QED BY <1>5, <1>6, <3>1 DEF Registered
    <2> QED BY <2>1, <2>2
  <1>8. running' \subseteq 1 .. ntunnels' BY <1>1, <1>3 DEF Registered
  <1>9. ASSUME NEW g \in Handlers, handler'[g].at = "remove" PROVE tun'[handler'[g].t].state = "Dead"
    <2>1. handler'[g] = handler[g] BY <1>1, <1>2, <1>9, BaseFacts
    <2>2. handler[g].t \in 1 .. ntunnels /\ tun[handler[g].t].state = "Dead"
      BY <1>9, <2>1, HandlerTunnel DEF Registered
    <2> QED BY <1>5, <1>6, <2>1, <2>2
  <1>10. TunnelReachable'
    <2> SUFFICES ASSUME phase' \in {"up", "stopping"}
                 PROVE  /\ \A t \in running' : tun'[t].state # "Dead" => byLocalID'[tun'[t].localTunnelID] = t
                        /\ \A k \in Keys : tunnels'[k] # 0 =>
                              byLocalID'[tun'[tunnels'[k]].localTunnelID] = tunnels'[k]
      BY DEF TunnelReachable
    <2>1. /\ \A t \in running : tun[t].state # "Dead" => byLocalID[tun[t].localTunnelID] = t
          /\ \A k \in Keys : tunnels[k] # 0 => byLocalID[tun[tunnels[k]].localTunnelID] = tunnels[k]
      BY <1>1 DEF Registered, TunnelReachable
    <2>2. \A t \in running : tun'[t] = tun[t] BY <1>5, <1>6 DEF Registered
    <2>3. \A k \in Keys : tunnels[k] # 0 => tunnels[k] \in 1 .. ntunnels BY BaseFacts
    <2>4. \A k \in Keys : tunnels[k] # 0 => tun'[tunnels[k]] = tun[tunnels[k]] BY <1>5, <1>6, <2>3
    <2> QED BY <1>1, <2>1, <2>2, <2>4
  <1> QED BY <1>4, <1>7, <1>8, <1>9, <1>10 DEF Registered

\* registerTunnel: no other tunnel is under that ID.
LEMMA RegisteredRegister ==
    ASSUME Base, Registered, MaxTunnels < IdSpace, NEW h \in Handlers, registerTunnel(h)
    PROVE  Registered'
  <1> DEFINE t == handler[h].t
             id == tun[t].localTunnelID
  <1>1. /\ handler[h].at = "register" /\ phase # "crashed" /\ phase' = phase
        /\ tunnels' = [tunnels EXCEPT ![handler[h].key] = t]
        /\ byLocalID' = [byLocalID EXCEPT ![id] = t]
        /\ running' = running \cup {t}
        /\ handler' = [handler EXCEPT ![h] = Idle]
        /\ UNCHANGED <<ntunnels, nextTunnelID, tun>>
    BY DEF registerTunnel, At, Up, Done, Goto
  <1>2. t \in 1 .. ntunnels /\ t \in Tunnels BY <1>1, HandlerTunnel
  <1>3. 1 .. ntunnels \subseteq Tunnels BY BaseFacts, Bounds DEF Tunnels
  <1>4. id = LocalID(t) /\ id \in IDs BY <1>2, LocalIDs DEF Registered
  <1>5. \A u \in 1 .. ntunnels : u # t => tun[u].localTunnelID # id /\ tun[u].localTunnelID \in IDs
    BY <1>2, <1>3, <1>4, LocalIDs DEF Registered
  <1>6. byLocalID \in [IDs -> 0 .. ntunnels] /\ tunnels \in [Keys -> 0 .. ntunnels] /\ ntunnels \in Nat
    BY BaseFacts
  <1> HIDE DEF t, id
  <1>7. /\ byLocalID'[id] = t
        /\ \A u \in 1 .. ntunnels : u # t => byLocalID'[tun[u].localTunnelID] = byLocalID[tun[u].localTunnelID]
    BY <1>1, <1>4, <1>5, <1>6
  <1>8. TunnelReachable'
    <2> SUFFICES ASSUME phase' \in {"up", "stopping"}
                 PROVE  /\ \A u \in running' : tun[u].state # "Dead" => byLocalID'[tun[u].localTunnelID] = u
                        /\ \A k \in Keys : tunnels'[k] # 0 =>
                              byLocalID'[tun[tunnels'[k]].localTunnelID] = tunnels'[k]
      BY <1>1 DEF TunnelReachable
    <2>1. /\ \A u \in running : tun[u].state # "Dead" => byLocalID[tun[u].localTunnelID] = u
          /\ \A k \in Keys : tunnels[k] # 0 => byLocalID[tun[tunnels[k]].localTunnelID] = tunnels[k]
          /\ running \subseteq 1 .. ntunnels
      BY <1>1 DEF Registered, TunnelReachable
    <2>2. \A u \in running' : tun[u].state # "Dead" => byLocalID'[tun[u].localTunnelID] = u
      <3>1. byLocalID'[tun[t].localTunnelID] = t BY <1>7 DEF id
      <3> QED BY <1>1, <1>7, <2>1, <3>1
    <2>3. \A k \in Keys : tunnels'[k] # 0 => byLocalID'[tun[tunnels'[k]].localTunnelID] = tunnels'[k]
      <3>1. \A k \in Keys : tunnels'[k] = t \/ tunnels'[k] = tunnels[k] BY <1>1, <1>6
      <3>2. byLocalID'[tun[t].localTunnelID] = t BY <1>7 DEF id
      <3>3. \A k \in Keys : tunnels[k] # 0 => tunnels[k] \in 1 .. ntunnels BY <1>6
      <3> QED BY <1>7, <2>1, <3>1, <3>2, <3>3
    <2> QED BY <2>2, <2>3
  <1>9. \A g \in Handlers : handler'[g].at = "remove" => handler[g].at = "remove" /\ handler'[g] = handler[g]
    <2>1. Idle.at # "remove" BY DEF Idle
    <2> QED BY <1>1, <2>1, BaseFacts
  <1>10. running' \subseteq 1 .. ntunnels BY <1>1, <1>2 DEF Registered
  <1> QED BY <1>1, <1>8, <1>9, <1>10 DEF Registered

\* removeTunnel: the tunnel is dead, and no other is under that ID.
LEMMA RegisteredRemove ==
    ASSUME Base, Registered, MaxTunnels < IdSpace, NEW h \in Handlers, removeTunnel(h)
    PROVE  Registered'
  <1> DEFINE t == handler[h].t
             id == tun[t].localTunnelID
  <1>1. /\ handler[h].at = "remove" /\ phase # "crashed" /\ phase' = phase
        /\ byLocalID' = [byLocalID EXCEPT ![id] = 0]
        /\ tunnels' = [k \in Keys |-> IF tunnels[k] = t THEN 0 ELSE tunnels[k]]
        /\ handler' = [handler EXCEPT ![h] = Idle]
        /\ UNCHANGED <<ntunnels, nextTunnelID, tun, running>>
    BY DEF removeTunnel, At, Up, Done, Goto
  <1>2. t \in 1 .. ntunnels /\ t \in Tunnels /\ tun[t].state = "Dead" BY <1>1, HandlerTunnel DEF Registered
  <1>3. 1 .. ntunnels \subseteq Tunnels BY BaseFacts, Bounds DEF Tunnels
  <1>4. id = LocalID(t) /\ id \in IDs BY <1>2, LocalIDs DEF Registered
  <1>5. \A u \in 1 .. ntunnels : u # t => tun[u].localTunnelID # id /\ tun[u].localTunnelID \in IDs
    BY <1>2, <1>3, <1>4, LocalIDs DEF Registered
  <1>6. byLocalID \in [IDs -> 0 .. ntunnels] /\ tunnels \in [Keys -> 0 .. ntunnels] /\ ntunnels \in Nat
    BY BaseFacts
  <1> HIDE DEF t, id
  <1>7. \A u \in 1 .. ntunnels : u # t => byLocalID'[tun[u].localTunnelID] = byLocalID[tun[u].localTunnelID]
    BY <1>1, <1>5, <1>6
  <1>8. TunnelReachable'
    <2> SUFFICES ASSUME phase' \in {"up", "stopping"}
                 PROVE  /\ \A u \in running : tun[u].state # "Dead" => byLocalID'[tun[u].localTunnelID] = u
                        /\ \A k \in Keys : tunnels'[k] # 0 =>
                              byLocalID'[tun[tunnels'[k]].localTunnelID] = tunnels'[k]
      BY <1>1 DEF TunnelReachable
    <2>1. /\ \A u \in running : tun[u].state # "Dead" => byLocalID[tun[u].localTunnelID] = u
          /\ \A k \in Keys : tunnels[k] # 0 => byLocalID[tun[tunnels[k]].localTunnelID] = tunnels[k]
          /\ running \subseteq 1 .. ntunnels
      BY <1>1 DEF Registered, TunnelReachable
    <2>2. \A u \in running : tun[u].state # "Dead" => byLocalID'[tun[u].localTunnelID] = u
      BY <1>2, <1>7, <2>1
    <2>3. \A k \in Keys : tunnels'[k] # 0 => byLocalID'[tun[tunnels'[k]].localTunnelID] = tunnels'[k]
      <3>1. \A k \in Keys : tunnels'[k] # 0 => tunnels'[k] = tunnels[k] /\ tunnels[k] # t BY <1>1
      <3>2. \A k \in Keys : tunnels[k] # 0 => tunnels[k] \in 1 .. ntunnels BY <1>6
      <3> QED BY <1>7, <2>1, <3>1, <3>2
    <2> QED BY <2>2, <2>3
  <1>9. \A g \in Handlers : handler'[g].at = "remove" => handler[g].at = "remove" /\ handler'[g] = handler[g]
    <2>1. Idle.at # "remove" BY DEF Idle
    <2> QED BY <1>1, <2>1, BaseFacts
  <1> QED BY <1>1, <1>8, <1>9 DEF Registered

\* Once created, a tunnel has its local ID for good.
LEMMA LocalIDStays ==
    ASSUME Base, NEW h \in Handlers, Step(h), NEW t \in Tunnels
    PROVE  tun'[t].localTunnelID = tun[t].localTunnelID
  <1>1. CASE \/ registerTunnel(h) \/ HandleICCN(h) \/ handleICCN(h) \/ GetSession(h)
             \/ allocateIP(h) \/ InitPPP(h) \/ closeSession(h) \/ removeTunnel(h)
    <2>1. tun' = tun
      BY <1>1 DEF registerTunnel, HandleICCN, handleICCN, GetSession, allocateIP, InitPPP, closeSession,
                  removeTunnel
    <2> QED BY <2>1
  <1>2. CASE HandleSCCCN(h)
    <2>1. /\ handler[h].at = "SCCCN"
          /\ tun' = tun \/ tun' = [tun EXCEPT ![handler[h].t].state = "Established"]
      BY <1>2 DEF HandleSCCCN, At
    <2>2. tun \in [Tunnels -> TunnelObjects] BY BaseFacts
    <2>3. CASE tun' = [tun EXCEPT ![handler[h].t].state = "Established"]
      <3>1. CASE t = handler[h].t BY <2>2, <2>3, <3>1 DEF TunnelObjects
      <3>2. CASE t # handler[h].t BY <2>2, <2>3, <3>2
      <3> QED BY <3>1, <3>2
    <2> QED BY <2>1, <2>3
  <1>3. CASE HandleICRQ(h)
    <2>1. handler[h].at = "ICRQ" /\ (AddSession(handler[h].t, handler[h].sid) \/ tun' = tun)
      BY <1>3 DEF HandleICRQ, At
    <2>2. CASE AddSession(handler[h].t, handler[h].sid)
      <3>1. handler[h].t \in Tunnels /\ handler[h].sid \in RemoteIDs
        BY <2>1, HandlerTunnel DEF HandlerOK
      <3>2. /\ tun' = [tun EXCEPT ![handler[h].t] = tun'[handler[h].t]]
            /\ tun'[handler[h].t].localTunnelID = tun[handler[h].t].localTunnelID
        BY <2>2, <3>1, AddSessionFacts
      <3>3. t # handler[h].t => tun'[t] = tun[t] BY <3>2, BaseFacts
      <3> QED BY <3>2, <3>3
    <2> QED BY <2>1, <2>2
  <1>4. CASE SendCDN(h) \/ HandleCDN(h)
    <2>1. /\ handler[h].at \in {"full", "CDN"}
          /\ tun' = tun \/ tun' = [tun EXCEPT ![handler[h].t].sessions[handler[h].sid] = 0]
      BY <1>4 DEF SendCDN, HandleCDN, At
    <2>2. handler[h].t \in Tunnels /\ handler[h].sid \in IDs
      BY <2>1, HandlerTunnel DEF HandlerOK, LooksUp
    <2> QED BY <2>1, <2>2, Unmapped
  <1>5. CASE HandleStopCCN(h)
    <2>1. handler[h].at = "StopCCN" /\ TearDown({handler[h].t}) BY <1>5 DEF HandleStopCCN, At
    <2>2. {handler[h].t} \in SUBSET (1 .. ntunnels) BY <2>1, HandlerTunnel
    <2> QED BY <2>1, <2>2, TearDownFacts
  <1> QED BY <1>1, <1>2, <1>3, <1>4, <1>5 DEF Step

\* Every step keeps live tunnels in the map, or on their way into it.
LEMMA RegisteredStep ==
    ASSUME Base, Registered, MaxTunnels < IdSpace, [Next]_vars
    PROVE  Registered'
  <1>1. CASE UNCHANGED vars
    BY <1>1 DEF vars, Registered, TunnelReachable
  <1>2. ASSUME NEW h \in Handlers, NEW key \in Keys, NEW outcome \in {"WaitCtlConn", "Idle", "Dead"},
               handleNewTunnel(h, key, outcome)
        PROVE  Registered'
    BY <1>2, RegisteredNewTunnel
  <1>3. ASSUME NEW h \in Handlers, NEW id \in IDs, NEW msg \in ControlMessages, NEW sid \in SessionIDs(msg),
               handleControlMessage(h, id, msg, sid)
        PROVE  Registered'
    <2> DEFINE rec == [Idle EXCEPT !.at = msg, !.t = byLocalID[id], !.sid = sid]
    <2>1. /\ handler' = [handler EXCEPT ![h] = rec] /\ phase # "crashed" /\ tun' = tun
          /\ UNCHANGED <<ntunnels, nextTunnelID, tunnels, byLocalID, running, phase>>
      BY <1>3 DEF handleControlMessage, Goto, At, Up, mapsVars
    <2>2. rec.at # "remove" BY DEF Idle, ControlMessages
    <2> HIDE DEF rec
    <2> QED BY <2>1, <2>2, RegisteredQuiet
  <1>4. ASSUME NEW h \in Handlers, registerTunnel(h) PROVE Registered' BY <1>4, RegisteredRegister
  <1>5. ASSUME NEW h \in Handlers, removeTunnel(h) PROVE Registered' BY <1>5, RegisteredRemove
  <1>6. ASSUME NEW h \in Handlers,
               \/ HandleSCCCN(h) \/ HandleICRQ(h) \/ HandleICCN(h) \/ handleICCN(h) \/ GetSession(h)
               \/ allocateIP(h) \/ InitPPP(h) \/ SendCDN(h) \/ HandleCDN(h) \/ closeSession(h)
        PROVE  Registered'
    <2>1. Step(h) BY <1>6 DEF Step
    <2>2. \A t \in Tunnels : tun'[t].localTunnelID = tun[t].localTunnelID BY <2>1, LocalIDStays
    <2>3. /\ phase # "crashed"
          /\ UNCHANGED <<ntunnels, nextTunnelID, tunnels, byLocalID, running, phase>>
      BY <1>6 DEF HandleSCCCN, HandleICRQ, HandleICCN, handleICCN, GetSession, allocateIP, InitPPP, SendCDN,
                  HandleCDN, closeSession, At, Up, mapsVars
    <2>4. \E rec : handler' = [handler EXCEPT ![h] = rec] /\ rec.at # "remove"
      <3> DEFINE s == tun[handler[h].t].sessions[handler[h].sid]
      <3>1. Idle.at # "remove" BY DEF Idle
      <3>2. /\ [handler[h] EXCEPT !.at = "connect", !.s = s].at # "remove"
            /\ [handler[h] EXCEPT !.at = "close", !.s = s].at # "remove"
            /\ [handler[h] EXCEPT !.at = "established"].at # "remove"
            /\ [handler[h] EXCEPT !.at = "full"].at # "remove"
            /\ [handler[h] EXCEPT !.at = "allocate", !.s = s].at # "remove"
            /\ \A ip : [handler[h] EXCEPT !.at = "init", !.ip = ip].at # "remove"
        BY BaseFacts DEF HandlerStates
      <3>3. \/ handler' = [handler EXCEPT ![h] = Idle]
            \/ handler' = [handler EXCEPT ![h] = [handler[h] EXCEPT !.at = "connect", !.s = s]]
            \/ handler' = [handler EXCEPT ![h] = [handler[h] EXCEPT !.at = "close", !.s = s]]
            \/ handler' = [handler EXCEPT ![h] = [handler[h] EXCEPT !.at = "established"]]
            \/ handler' = [handler EXCEPT ![h] = [handler[h] EXCEPT !.at = "full"]]
            \/ handler' = [handler EXCEPT ![h] = [handler[h] EXCEPT !.at = "allocate", !.s = s]]
            \/ \E ip : handler' = [handler EXCEPT ![h] = [handler[h] EXCEPT !.at = "init", !.ip = ip]]
        BY <1>6, Zenon DEF HandleSCCCN, HandleICRQ, HandleICCN, handleICCN, GetSession, allocateIP, InitPPP,
                           SendCDN, HandleCDN, closeSession, Done, Goto
      <3> HIDE DEF s
      <3> QED BY <3>1, <3>2, <3>3, Zenon
    <2> QED BY <2>2, <2>3, <2>4, RegisteredQuiet
  <1>7. ASSUME NEW h \in Handlers, HandleStopCCN(h) PROVE Registered'
    <2> DEFINE rec == [handler[h] EXCEPT !.at = "remove"]
    <2>1. /\ handler[h].at = "StopCCN" /\ TearDown({handler[h].t}) /\ phase # "crashed"
          /\ handler' = [handler EXCEPT ![h] = rec]
          /\ UNCHANGED <<ntunnels, nextTunnelID, tunnels, byLocalID, running, phase>>
      BY <1>7 DEF HandleStopCCN, At, Up, Goto, mapsVars
    <2>2. handler[h].t \in 1 .. ntunnels /\ rec.t = handler[h].t
      BY <2>1, HandlerTunnel DEF HandlerStates
    <2>3. {handler[h].t} \in SUBSET (1 .. ntunnels) BY <2>2
    <2>4. tun'[handler[h].t].state = "Dead" BY <2>1, <2>3, TearDownFacts
    <2>5. \A t \in Tunnels : tun'[t].localTunnelID = tun[t].localTunnelID BY <1>7, LocalIDStays DEF Step
    <2>6. \A t \in Tunnels : tun[t].state = "Dead" => tun'[t].state = "Dead" BY <2>1, TunnelsNotRevived
    <2> HIDE DEF rec
    <2>7. TunnelReachable' BY <2>1, <2>5, <2>6, ReachableSame
    <2>8. handler'[h] = rec /\ \A g \in Handlers : g # h => handler'[g] = handler[g] BY <2>1, BaseFacts
    <2>9. \A g \in Handlers : handler'[g].at = "remove" /\ handler[g].at # "remove" =>
                                  tun'[handler'[g].t].state = "Dead"
      BY <2>2, <2>4, <2>8
    <2>10. \A g \in Handlers : handler'[g].at = "remove" /\ handler[g].at = "remove" => handler'[g] = handler[g]
      BY <2>1, <2>8
    <2>11. running' \subseteq 1 .. ntunnels BY <2>1 DEF Registered
    <2> QED BY <2>1, <2>5, <2>7, <2>9, <2>10, <2>11, RegisteredParts
  <1>8. CASE (\E t \in Tunnels : runDone(t)) \/ Shutdown
    <2>1. /\ phase \in {"up", "stopping", "closed"} /\ phase' # "crashed"
          /\ phase' \in {"up", "stopping"} => phase \in {"up", "stopping"}
          /\ running' \subseteq running
          /\ UNCHANGED <<ntunnels, nextTunnelID, tunnels, byLocalID, tun, handler>>
      BY <1>8 DEF runDone, Shutdown, mapsVars
    <2>2. TunnelReachable' BY <2>1, ReachableSame
    <2>3. running' \subseteq 1 .. ntunnels BY <2>1 DEF Registered
    <2> QED BY <2>1, <2>2, <2>3 DEF Registered
  <1>9. CASE Close
    <2> DEFINE T == {tunnels[k] : k \in Keys} \ {0}
    <2>1. /\ phase' = "closed" /\ TearDown(T) /\ running' \subseteq running
          /\ UNCHANGED <<ntunnels, nextTunnelID, handler>>
      BY <1>9 DEF Close
    <2>2. T \in SUBSET (1 .. ntunnels) BY BaseFacts
    <2> HIDE DEF T
    <2>3. \A t \in Tunnels : tun'[t].localTunnelID = tun[t].localTunnelID BY <2>1, <2>2, TearDownFacts
    <2>4. TunnelReachable' BY <2>1 DEF TunnelReachable
    <2>5. running' \subseteq 1 .. ntunnels BY <2>1 DEF Registered
    <2> QED BY <2>1, <2>3, <2>4, <2>5, RegisteredParts
  <1>10. ASSUME NEW t \in Tunnels, onTimeout(t) PROVE Registered'
    <2>1. /\ running' = running \ {t}
          /\ UNCHANGED <<ntunnels, nextTunnelID, tunnels, byLocalID, handler, phase>>
      BY <1>10 DEF onTimeout, mapsVars
    <2>2. \A u \in Tunnels : /\ tun'[u].localTunnelID = tun[u].localTunnelID
                             /\ tun[u].state = "Dead" => tun'[u].state = "Dead"
      BY <1>10, TimeoutFacts, TunnelsNotRevived
    <2>3. TunnelReachable' BY <2>1, <2>2, ReachableSame
    <2>4. running' \subseteq 1 .. ntunnels BY <2>1 DEF Registered
    <2> QED BY <2>1, <2>2, <2>3, <2>4, RegisteredParts
  <1>11. CASE \E t \in Tunnels : deferredUnlock(t)
    <2>1. /\ phase' = "crashed"
          /\ UNCHANGED <<ntunnels, nextTunnelID, tunnels, byLocalID, tun, running, handler>>
      BY <1>11 DEF deferredUnlock, mapsVars
    <2>2. TunnelReachable' BY <2>1 DEF TunnelReachable
    <2> QED BY <2>1, <2>2 DEF Registered
  <1> QED BY <1>1, <1>2, <1>3, <1>4, <1>5, <1>6, <1>7, <1>8, <1>9, <1>10, <1>11 DEF Next, Step
-----------------------------------------------------------------------------
\* At the start there is nothing to be wrong.
LEMMA InitParts ==
    ASSUME Init
    PROVE  Addresses /\ SessionsKept /\ (MaxTunnels < IdSpace => Registered)
  <1>1. /\ nsessions = 0 /\ ntunnels = 0 /\ nextTunnelID = 1 /\ running = {} /\ phase = "up"
        /\ tun = [t \in Tunnels |-> NoTunnel] /\ sess = [s \in Sessions |-> NoSession]
        /\ handler = [h \in Handlers |-> Idle] /\ tunnels = [k \in Keys |-> 0]
    BY DEF Init
  <1>2. /\ \A s \in Sessions : sess[s].assignedIP = NoIP /\ ~ Open(s)
        /\ \A h \in Handlers : handler[h].at = "idle"
        /\ \A t \in Tunnels : tun[t].nextSessionID = 1 /\ \A i \in IDs : tun[t].sessions[i] = 0
    BY <1>1, BlankTypes DEF NoSession, Open, Idle, NoTunnel
  <1>3. Addresses BY <1>2 DEF Addresses, Holder
  <1>4. SessionsKept BY <1>1, <1>2 DEF SessionsKept, FreeIDs
  <1>5. ASSUME MaxTunnels < IdSpace PROVE Registered
    <2>1. TunnelReachable BY <1>1 DEF TunnelReachable
    <2>2. 1 .. 0 = {} OBVIOUS
    <2> QED BY <1>1, <1>2, <1>5, <2>1, <2>2, LocalIDs DEF Registered
  <1> QED BY <1>3, <1>4, <1>5

(***************************************************************************)
(* The invariant of the server: what handlers and maps point at exists,    *)
(* and every address has one holder.                                       *)
(***************************************************************************)
THEOREM ServerInvariant == Spec => [](Base /\ Addresses)
  <1>1. Init => Base /\ Addresses BY BaseInit, InitParts
  <1>2. Base /\ Addresses /\ [Next]_vars => (Base /\ Addresses)' BY BaseStep, AddressesStep
  <1> QED BY <1>1, <1>2, PTL DEF Spec

(***************************************************************************)
(* TypeOK holds for any number of read loops, tunnels, sessions, keys and  *)
(* addresses.                                                              *)
(***************************************************************************)
THEOREM ServerTypes == Spec => []TypeOK
  <1>1. Base /\ Addresses => TypeOK BY DEF Base
  <1> QED BY <1>1, ServerInvariant, PTL

(***************************************************************************)
(* AddressExclusive: however the read loops, the goroutines of the tunnels *)
(* and Close interleave, and whatever ID wraps, no two open sessions have  *)
(* an address in common, nor does the pool give one out that is in use.    *)
(***************************************************************************)
THEOREM AddressesAreExclusive == Spec => []AddressExclusive
  <1>1. Base /\ Addresses => AddressExclusive
    <2> SUFFICES ASSUME Base, Addresses, NEW s \in Sessions, Open(s), sess[s].assignedIP # NoIP
                 PROVE  /\ sess[s].assignedIP \in leased \ InHand
                        /\ \A r \in Sessions \ {s} : Open(r) => sess[r].assignedIP # sess[s].assignedIP
      BY DEF AddressExclusive
    <2>1. \A r \in Sessions : Open(r) => sess[r].state # "Closed" BY DEF Open
    <2>2. Holder(s) BY <2>1 DEF Holder
    <2>3. sess[s].assignedIP \in leased BY <2>2 DEF Addresses
    <2>4. sess[s].assignedIP \notin InHand BY <2>2 DEF Addresses, InHand
    <2>5. ASSUME NEW r \in Sessions \ {s}, Open(r) PROVE sess[r].assignedIP # sess[s].assignedIP
      <3>1. CASE sess[r].assignedIP = NoIP BY <3>1
      <3>2. CASE sess[r].assignedIP # NoIP
        <4>1. Holder(r) BY <2>1, <2>5, <3>2 DEF Holder
        <4> QED BY <2>2, <4>1 DEF Addresses
      <3> QED BY <3>1, <3>2
    <2> QED BY <2>3, <2>4, <2>5
  <1> QED BY <1>1, ServerInvariant, PTL

(***************************************************************************)
(* NothingRevived: no step of a handler with an old pointer brings a dead  *)
(* tunnel or a closed session back.                                        *)
(***************************************************************************)
THEOREM DeadStaysDead == Spec => NothingRevived
  <1> DEFINE Step1 ==
        /\ \A t \in Tunnels : tun[t].state = "Dead" => tun'[t].state = "Dead"
        /\ \A s \in Sessions : sess[s].state = "Closed" => sess'[s].state = "Closed"
  <1>1. Base /\ [Next]_vars => [Step1]_vars
    BY TunnelsNotRevived, SessionsNotRevived
  <1>2. Base /\ Addresses => Base OBVIOUS
  <1> QED BY <1>1, <1>2, ServerInvariant, PTL DEF Spec, NothingRevived

(***************************************************************************)
(* DeadTunnelIsEmpty, as long as no session ID can be given twice: an open *)
(* session is in its tunnel's map, so whoever tears the tunnel down finds  *)
(* it, before and after a timeout of the tunnel.                           *)
(***************************************************************************)
THEOREM TearDownIsComplete ==
    ASSUME MaxSessions < IdSpace
    PROVE  Spec => []DeadTunnelIsEmpty
  <1>1. Init => Base /\ SessionsKept BY BaseInit, InitParts
  <1>2. Base /\ SessionsKept /\ [Next]_vars => (Base /\ SessionsKept)' BY BaseStep, KeptStep
  <1>3. Base /\ SessionsKept => DeadTunnelIsEmpty
    <2> SUFFICES ASSUME Base, SessionsKept, NEW s \in Sessions, Open(s), tun[sess[s].tunnel].state = "Dead"
                 PROVE  Closing(s) \/ (sess[s].tunnel \in timedOut /\ InMap(s))
      BY DEF DeadTunnelIsEmpty, Closing, InMap
    <2>1. sess[s].tunnel \in Tunnels /\ (InMap(s) \/ Closing(s)) BY DEF SessionsKept
    <2>2. s # 0 BY Bounds DEF Sessions
    <2>3. InMap(s) => sess[s].tunnel \in timedOut BY <2>1, <2>2 DEF InMap, SessionsKept, TornDown
    <2> QED BY <2>1, <2>3
  <1> QED BY <1>1, <1>2, <1>3, PTL DEF Spec

(***************************************************************************)
(* TunnelReachable, as long as no tunnel ID can be given twice: the two    *)
(* maps of tunnels agree about every tunnel that is alive.                 *)
(***************************************************************************)
THEOREM LiveTunnelsAreFound ==
    ASSUME MaxTunnels < IdSpace
    PROVE  Spec => []TunnelReachable
  <1>1. Init => Base /\ Registered BY BaseInit, InitParts
  <1>2. Base /\ Registered /\ [Next]_vars => (Base /\ Registered)' BY BaseStep, RegisteredStep
  <1>3. Base /\ Registered => TunnelReachable BY DEF Registered
  <1> QED BY <1>1, <1>2, <1>3, PTL DEF Spec

-----------------------------------------------------------------------------

(***************************************************************************)
(* The pool.  Types and LeasesDisjoint are needed together with            *)
(* BitmapIsLeases: a release clears the bit that the other holder of a     *)
(* shared address needs.                                                   *)
(***************************************************************************)
PoolInv == PoolTypeOK /\ BitmapIsLeases /\ LeasesDisjoint

\* The search of Allocate stays in the bitmap and visits every index.
LEMMA ProbeRange ==
    ASSUME PoolTypeOK, NEW i \in Nat
    PROVE  probe(i) \in Indices /\ (probe(i) + 1) % Size \in Indices
  <1>1. ASSUME NEW n \in Nat
        PROVE  n % Size \in Indices
    BY SizeAssumption DEF Indices
  <1>2. nextFree + i \in Nat
    BY SizeAssumption DEF PoolTypeOK, Indices
  <1>3. probe(i) \in Indices
    BY <1>1, <1>2 DEF probe
  <1>4. probe(i) + 1 \in Nat
    BY <1>3, SizeAssumption DEF Indices
  <1> QED BY <1>1, <1>3, <1>4

\* One turn of Allocate visits every index, wherever the hint is.
LEMMA ProbeOnto ==
    ASSUME PoolTypeOK, NEW k \in Indices
    PROVE  \E i \in Indices : probe(i) = k
  <1>1. nextFree \in Indices /\ Size \in Nat \ {0}
    BY SizeAssumption DEF PoolTypeOK
  <1>2. CASE k >= nextFree
    <2>1. k - nextFree \in Indices /\ (nextFree + (k - nextFree)) % Size = k
      BY <1>1, <1>2 DEF Indices
    <2> QED BY <2>1 DEF probe
  <1>3. CASE k < nextFree
    <2>1. k - nextFree + Size \in Indices
      BY <1>1, <1>3 DEF Indices
    <2>2. nextFree + (k - nextFree + Size) = k + Size
      BY <1>1, <1>3 DEF Indices
    <2>3. (k + Size) % Size = k
      BY <1>1 DEF Indices
    <2> QED BY <2>1, <2>2, <2>3 DEF probe
  <1> QED BY <1>1, <1>2, <1>3 DEF Indices

(***************************************************************************)
(* Taking a free index for a caller without a lease, and giving a lease    *)
(* back, keep the bitmap and the leases in agreement.                      *)
(***************************************************************************)
TakeFree(c, idx) ==
    /\ lease[c] = NoAddr
    /\ ~ bitmap[idx]
    /\ bitmap' = [bitmap EXCEPT ![idx] = TRUE]
    /\ nextFree' \in Indices
    /\ lease' = [lease EXCEPT ![c] = idx]
    /\ refused' = [refused EXCEPT ![c] = FALSE]

\* Setting the bit of a free index is a grant of the abstract pool.
LEMMA TakeFreeKeeps ==
    ASSUME PoolInv, NEW c \in Clients, NEW idx \in Indices, TakeFree(c, idx)
    PROVE  PoolInv' /\ Abstract!Grant(c)
  <1> USE DEF PoolInv
  <1>1. NoAddr \notin Indices
    BY ClientAssumption DEF Indices
  <1>2. PoolTypeOK'
    BY DEF TakeFree, PoolTypeOK
  <1>3. \A d \in Clients : lease[d] # idx
    BY DEF TakeFree, BitmapIsLeases
  <1>4. \A d \in Clients : lease'[d] = IF d = c THEN idx ELSE lease[d]
    BY DEF TakeFree, PoolTypeOK
  <1>5. \A i \in Indices : bitmap'[i] <=> i = idx \/ bitmap[i]
    BY DEF TakeFree, PoolTypeOK
  <1>6. BitmapIsLeases'
    <2> SUFFICES ASSUME NEW i \in Indices
                 PROVE  bitmap'[i] <=> \E d \in Clients : lease'[d] = i
      BY DEF BitmapIsLeases
    <2>1. bitmap[i] <=> \E d \in Clients : lease[d] = i
      BY DEF BitmapIsLeases
    <2>2. lease[c] # i
      BY <1>1 DEF TakeFree
    <2> QED BY <1>4, <1>5, <2>1, <2>2
  <1>7. LeasesDisjoint'
    BY <1>3, <1>4 DEF LeasesDisjoint
  <1>8. idx \in Indices \ Abstract!Leased
    BY <1>3 DEF Abstract!Leased
  <1>9. Abstract!Grant(c)
    BY <1>8 DEF TakeFree, Abstract!Grant
  <1> QED BY <1>2, <1>6, <1>7, <1>9

\* Allocate grants, or refuses when the pool is full.
LEMMA AllocateKeeps ==
    ASSUME PoolInv, NEW c \in Clients, Allocate(c)
    PROVE  PoolInv' /\ (Abstract!Grant(c) \/ Abstract!Refuse(c))
  <1> USE DEF PoolInv
  <1>1. CASE \E i \in Indices : ~ bitmap[probe(i)]
    <2>1. PICK i \in Indices :
             /\ ~ bitmap[probe(i)]
             /\ bitmap' = [bitmap EXCEPT ![probe(i)] = TRUE]
             /\ nextFree' = (probe(i) + 1) % Size
             /\ lease' = [lease EXCEPT ![c] = probe(i)]
             /\ refused' = [refused EXCEPT ![c] = FALSE]
      BY <1>1 DEF Allocate
    <2>2. i \in Nat
      BY SizeAssumption DEF Indices
    <2>3. probe(i) \in Indices /\ TakeFree(c, probe(i))
      BY <2>1, <2>2, ProbeRange DEF TakeFree, Allocate
    <2> QED BY <2>3, TakeFreeKeeps
  <1>2. CASE \A i \in Indices : bitmap[probe(i)]
    <2>1. refused' = [refused EXCEPT ![c] = TRUE] /\ UNCHANGED <<bitmap, nextFree, lease>>
      BY <1>2 DEF Allocate, poolVars
    <2>2. \A k \in Indices : bitmap[k]
      BY <1>2, ProbeOnto
    <2>3. Indices \subseteq Abstract!Leased
      <3>1. NoAddr \notin Indices
        BY ClientAssumption DEF Indices
      <3> QED BY <2>2, <3>1 DEF BitmapIsLeases, Abstract!Leased
    <2>4. PoolInv'
      BY <2>1 DEF PoolTypeOK, BitmapIsLeases, LeasesDisjoint
    <2> QED BY <2>1, <2>3, <2>4 DEF Allocate, Abstract!Refuse
  <1> QED BY <1>1, <1>2

\* AllocateSpecific grants the index asked for, or refuses when it is taken.
LEMMA AllocateSpecificKeeps ==
    ASSUME PoolInv, NEW c \in Clients, NEW idx \in Indices, AllocateSpecific(c, idx)
    PROVE  PoolInv' /\ Abstract!Grant(c)
  <1>1. TakeFree(c, idx)
    BY DEF AllocateSpecific, TakeFree, PoolInv, PoolTypeOK
  <1> QED BY <1>1, TakeFreeKeeps

\* Release clears the bit of the one lease that ends; a second release does nothing.
LEMMA ReleaseKeeps ==
    ASSUME PoolInv, NEW c \in Clients, NEW idx \in Indices, Release(c, idx)
    PROVE  PoolInv' /\ (Abstract!Return(c) \/ UNCHANGED <<lease, refused>>)
  <1> USE DEF PoolInv
  <1>1. NoAddr \notin Indices
    BY ClientAssumption DEF Indices
  <1>2. bitmap[idx] <=> lease[c] = idx
    BY DEF Release, BitmapIsLeases
  <1>3. CASE lease[c] = idx
    <2>1. /\ bitmap' = [bitmap EXCEPT ![idx] = FALSE] /\ lease' = [lease EXCEPT ![c] = NoAddr]
          /\ nextFree' = nextFree \/ nextFree' = idx
          /\ refused' = refused
      BY <1>2, <1>3 DEF Release
    <2>2. PoolTypeOK'
      BY <2>1 DEF PoolTypeOK
    <2>3. \A d \in Clients : lease[d] = idx => d = c
      BY <1>1, <1>3 DEF LeasesDisjoint
    <2>4. \A d \in Clients : lease'[d] = IF d = c THEN NoAddr ELSE lease[d]
      BY <2>1 DEF PoolTypeOK
    <2>5. \A i \in Indices : bitmap'[i] <=> i # idx /\ bitmap[i]
      BY <2>1 DEF PoolTypeOK
    <2>6. BitmapIsLeases'
      <3> SUFFICES ASSUME NEW i \in Indices
                   PROVE  bitmap'[i] <=> \E d \in Clients : lease'[d] = i
        BY DEF BitmapIsLeases
      <3>1. bitmap[i] <=> \E d \in Clients : lease[d] = i
        BY DEF BitmapIsLeases
      <3> QED BY <1>1, <1>3, <2>3, <2>4, <2>5, <3>1
    <2>7. LeasesDisjoint'
      BY <1>1, <2>4 DEF LeasesDisjoint
    <2>8. Abstract!Return(c)
      BY <1>1, <1>3, <2>1 DEF Abstract!Return
    <2> QED BY <2>2, <2>6, <2>7, <2>8
  <1>4. CASE lease[c] # idx
    <2>1. UNCHANGED <<bitmap, nextFree, lease, refused>>
      BY <1>2, <1>4 DEF Release, poolVars
    <2> QED BY <2>1 DEF PoolTypeOK, BitmapIsLeases, LeasesDisjoint
  <1> QED BY <1>3, <1>4

\* A new pool is an empty abstract pool.
LEMMA PoolInitKeeps == PoolInit => PoolInv /\ Abstract!Init
  <1> SUFFICES ASSUME PoolInit PROVE PoolInv /\ Abstract!Init
    OBVIOUS
  <1>1. NoAddr \notin Indices /\ 0 \in Indices
    BY ClientAssumption, SizeAssumption DEF Indices
  <1>2. PoolTypeOK
    BY <1>1 DEF PoolInit, NewPool, PoolTypeOK
  <1>3. BitmapIsLeases /\ LeasesDisjoint
    BY <1>1 DEF PoolInit, NewPool, BitmapIsLeases, LeasesDisjoint
  <1> QED BY <1>2, <1>3 DEF PoolInv, PoolInit, Abstract!Init

\* Every step of the bitmap is a step or a stutter of the abstract pool.
LEMMA PoolNextKeeps ==
    ASSUME PoolInv, [PoolNext]_ipamVars
    PROVE  PoolInv' /\ [Abstract!Next]_<<lease, refused>>
  <1>1. CASE UNCHANGED ipamVars
    BY <1>1 DEF ipamVars, PoolInv, PoolTypeOK, BitmapIsLeases, LeasesDisjoint
  <1>2. ASSUME NEW c \in Clients, Allocate(c)
        PROVE  PoolInv' /\ Abstract!Next
    BY <1>2, AllocateKeeps DEF Abstract!Next
  <1>3. ASSUME NEW c \in Clients, NEW idx \in Indices, AllocateSpecific(c, idx)
        PROVE  PoolInv' /\ Abstract!Next
    BY <1>3, AllocateSpecificKeeps DEF Abstract!Next
  <1>4. ASSUME NEW c \in Clients, NEW idx \in Indices, Release(c, idx)
        PROVE  PoolInv' /\ [Abstract!Next]_<<lease, refused>>
    BY <1>4, ReleaseKeeps DEF Abstract!Next
  <1> QED BY <1>1, <1>2, <1>3, <1>4 DEF PoolNext
-----------------------------------------------------------------------------
(***************************************************************************)
(* The bitmap of pool.go marks exactly the addresses in use, and no two    *)
(* callers of Allocate or AllocateSpecific hold one address.               *)
(***************************************************************************)
THEOREM PoolSafe == PoolSpec => [](PoolTypeOK /\ BitmapIsLeases /\ LeasesDisjoint)
  <1>1. PoolInv /\ [PoolNext]_ipamVars => PoolInv'
    BY PoolNextKeeps
  <1>2. PoolInit => PoolInv
    BY PoolInitKeeps
  <1>3. PoolSpec => []PoolInv
    BY <1>1, <1>2, PTL DEF PoolSpec
  <1> QED BY <1>3, PTL DEF PoolInv

(***************************************************************************)
(* PoolTypeOK: the search hint and every lease stay within the bitmap.     *)
(***************************************************************************)
THEOREM PoolTypes == PoolSpec => []PoolTypeOK
  BY PoolSafe, PTL

(***************************************************************************)
(* BitmapIsLeases: a bit of pool.go is set if and only if a caller has the *)
(* address, however Allocate, AllocateSpecific and Release are mixed.      *)
(***************************************************************************)
THEOREM BitmapIsExact == PoolSpec => []BitmapIsLeases
  BY PoolSafe, PTL

(***************************************************************************)
(* pool.go implements AddressPool: Allocate's circular search from the     *)
(* hint nextFree fails only when every address is taken.                   *)
(***************************************************************************)
THEOREM PoolRefines == PoolSpec => ImplementsAddressPool
  <1>1. PoolInit => Abstract!Init
    BY PoolInitKeeps
  <1>2. PoolInv /\ [PoolNext]_ipamVars => [Abstract!Next]_<<lease, refused>>
    BY PoolNextKeeps
  <1>3. PoolSpec => []PoolInv
    BY PoolSafe, PTL DEF PoolInv
  <1> QED BY <1>1, <1>2, <1>3, PTL DEF PoolSpec, ImplementsAddressPool, Abstract!Spec
=============================================================================
