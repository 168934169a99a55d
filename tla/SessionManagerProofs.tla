------------------------ MODULE SessionManagerProofs ------------------------
(***************************************************************************)
(* Proofs about SessionManager, for every set of sessions, identities,     *)
(* addresses, SPIs and installing goroutines.  None of the properties is   *)
(* inductive as it stands: that an eviction clears everything rests on     *)
(* what the tables may name at all (Owned), on what an installation in     *)
(* progress has in hand (InstallInv), and on the state of a session being  *)
(* in step with the session tables (StateInv).                             *)
(***************************************************************************)
EXTENDS SessionManager, TLAPS

\* A session is in its table exactly while it is active.
StateInv ==
    \A s \in Sessions :
        /\ s \in Registered <=> sess[s].state = "Active"
        /\ sess[s].known => sess[s].peerID /= ""
        /\ sess[s].state = "New" => sess[s].children = <<>> /\ ~sess[s].known

\* The child in hand is one of its session's.
InstallInv ==
    \A w \in Workers :
        install[w] /= Idle =>
            /\ install[w].spi \in Elements(sess[install[w].session].children)
            /\ install[w].step /= "inbound" => sess[install[w].session].ip /= None

\* The tables name a session only for what it has negotiated.
Owned ==
    /\ \A spi \in SPIs, s \in Sessions : bySPI[spi] = s => spi \in Elements(sess[s].children)
    /\ \A ip \in Addresses, s \in Sessions :
          assignedIPs[ip] = s => sess[s].ip = ip /\ Elements(sess[s].children) /= {}

\* A binding that nobody disturbs is of the route just installed.
WindowInv ==
    \A ip \in Addresses \ raced : \A w \in Window(ip) :
        Window(ip) = {w} /\ spd[ip] = install[w].session

IInv ==
    /\ TypeOK /\ StateInv /\ InstallInv /\ Owned /\ WindowInv
    /\ IdentityMapExact /\ EvictionComplete /\ RouteMatchesBinding

-----------------------------------------------------------------------------

\* No session is the value that stands for none.
LEMMA NoneFacts ==
    /\ None \notin Sessions /\ None \notin SPIs /\ None \notin Addresses
    /\ Sessions = Owners /\ StaticSA \notin Sessions
  BY NoneAssumption, SessionsAssumption DEF Sessions, None, StaticSA

\* SPILists are the sequences of SPIs that are not too long.
LEMMA SPIListsAreSequences ==
    ASSUME NEW c
    PROVE  c \in SPILists <=> (c \in Seq(SPIs) /\ Len(c) <= MaxChildren)
  <1>1. ASSUME c \in SPILists PROVE c \in Seq(SPIs) /\ Len(c) <= MaxChildren
    <2>1. PICK n \in 0 .. MaxChildren : c \in [1 .. n -> SPIs]
      BY <1>1 DEF SPILists
    <2> QED
      BY <2>1, MaxChildrenAssumption
  <1>2. ASSUME c \in Seq(SPIs), Len(c) <= MaxChildren PROVE c \in SPILists
    <2>1. Len(c) \in 0 .. MaxChildren /\ c \in [1 .. Len(c) -> SPIs]
      BY <1>2, MaxChildrenAssumption
    <2>2. [1 .. Len(c) -> SPIs] \in {[1 .. n -> SPIs] : n \in 0 .. MaxChildren}
      BY <2>1
    <2> QED
      BY <2>1, <2>2 DEF SPILists
  <1> QED
    BY <1>1, <1>2

\* What the type of a session says of its parts.
LEMMA SessionParts ==
    ASSUME TypeOK, NEW s \in Sessions
    PROVE  /\ sess[s] \in SessionObjects
           /\ sess[s].state \in {"New", "Active", "Deleting"}
           /\ sess[s].peerID \in Identities \cup {""}
           /\ sess[s].known \in BOOLEAN
           /\ sess[s].ip \in Addresses \cup {None}
           /\ sess[s].installed \in 0 .. MaxChildren
           /\ sess[s].children \in Seq(SPIs)
           /\ Len(sess[s].children) <= MaxChildren
  <1>1. sess[s] \in SessionObjects
    BY DEF TypeOK
  <1>2. sess[s].children \in SPILists
    BY <1>1 DEF SessionObjects
  <1>3. sess[s].children \in Seq(SPIs) /\ Len(sess[s].children) <= MaxChildren
    BY <1>2, SPIListsAreSequences
  <1> QED
    BY <1>1, <1>3 DEF SessionObjects

\* The elements of a sequence that grows.
LEMMA ElementsAppend ==
    ASSUME NEW S, NEW seq \in Seq(S), NEW e \in S
    PROVE  /\ Append(seq, e) \in Seq(S) /\ Append(seq, e) /= <<>>
           /\ Len(Append(seq, e)) = Len(seq) + 1
           /\ Elements(Append(seq, e)) = Elements(seq) \cup {e}
  <1> DEFINE new == Append(seq, e)
  <1>1. /\ new \in Seq(S) /\ new /= <<>> /\ Len(new) = Len(seq) + 1
        /\ DOMAIN new = 1 .. Len(seq) + 1 /\ DOMAIN seq = 1 .. Len(seq) /\ Len(seq) \in Nat
    OBVIOUS
  <1>2. new[Len(seq) + 1] = e /\ \A i \in 1 .. Len(seq) : new[i] = seq[i]
    OBVIOUS
  <1>3. ASSUME NEW x \in Elements(new) PROVE x \in Elements(seq) \cup {e}
    <2>1. PICK i \in DOMAIN new : x = new[i]
      BY <1>3 DEF Elements
    <2>2. i \in 1 .. Len(seq) \/ i = Len(seq) + 1
      BY <1>1, <2>1
    <2> QED
      BY <1>1, <1>2, <2>1, <2>2 DEF Elements
  <1>4. ASSUME NEW x \in Elements(seq) \cup {e} PROVE x \in Elements(new)
    <2>1. CASE x = e
      <3>1. Len(seq) + 1 \in DOMAIN new
        BY <1>1
      <3> QED
        BY <1>2, <2>1, <3>1 DEF Elements
    <2>2. CASE x \in Elements(seq)
      <3>1. PICK i \in DOMAIN seq : x = seq[i]
        BY <2>2 DEF Elements
      <3>2. i \in DOMAIN new /\ new[i] = x
        BY <1>1, <1>2, <3>1
      <3> QED
        BY <3>2 DEF Elements
    <2> QED
      BY <2>1, <2>2, <1>4
  <1>5. Elements(new) = Elements(seq) \cup {e}
    BY <1>3, <1>4
  <1> QED
    BY <1>1, <1>5

-----------------------------------------------------------------------------

\* A session that is not registered yet.
LEMMA NewSessionType ==
    [state |-> "New", peerID |-> "", known |-> FALSE, ip |-> None,
     installed |-> 0, children |-> <<>>] \in SessionObjects
  <1>1. <<>> \in Seq(SPIs) /\ Len(<<>>) <= MaxChildren
    BY MaxChildrenAssumption
  <1>2. <<>> \in SPILists
    BY <1>1, SPIListsAreSequences, Zenon
  <1> QED
    BY <1>2, MaxChildrenAssumption DEF SessionObjects

\* At start there is no session, no binding and no SA.
LEMMA InitIInv == Init => IInv
  <1> SUFFICES ASSUME Init PROVE IInv
    OBVIOUS
  <1> USE NoneFacts DEF Init
  <1>1. TypeOK
    <2>3. EspTypeOK
      BY DEF EspTypeOK, NewEngine, SAs, NoSA
    <2>6. sess \in [Sessions -> SessionObjects]
      BY NewSessionType
    <2>5. install \in [Workers -> Installations \cup {Idle}]
      OBVIOUS
    <2> QED
      BY <2>3, <2>5, <2>6 DEF TypeOK
  <1>2. StateInv /\ InstallInv
    BY DEF StateInv, InstallInv, Registered, Idle
  <1>3. Owned /\ IdentityMapExact /\ EvictionComplete
    BY DEF Owned, IdentityMapExact, EvictionComplete, Registered, NewEngine, NoSA
  <1>4. \A ip \in Addresses : Window(ip) = {}
    BY DEF Window, Idle
  <1>5. WindowInv /\ RouteMatchesBinding
    BY <1>4 DEF WindowInv, RouteMatchesBinding, NewEngine, NoSA
  <1> QED
    BY <1>1, <1>2, <1>3, <1>5 DEF IInv

-----------------------------------------------------------------------------

(***************************************************************************)
(* What evictSessionLocked leaves.  A session has one address, so the loop *)
(* that stops at the first one it finds has found them all.                *)
(***************************************************************************)
LEMMA Eviction ==
    ASSUME IInv, NEW gone \in Sessions \cup {None}, evictSessionLocked(gone)
    PROVE  /\ bySPI' = RemoveInboundSAs(childSPIs(gone))
           /\ assignedIPs' = [ip \in Addresses |-> IF ip \in boundTo(gone) THEN None
                                                  ELSE assignedIPs[ip]]
           /\ spd' = [ip \in Addresses |-> IF ip \in boundTo(gone) THEN None ELSE spd[ip]]
           /\ raced' = raced \cup {ip \in boundTo(gone) : Window(ip) /= {}}
           /\ UNCHANGED <<install, late, defaultOutSA, loop>>
  <1>1. \A ip1, ip2 \in boundTo(gone) : ip1 = ip2
    BY DEF IInv, Owned, boundTo
  <1>2. PICK unbound \in unbindings(gone) :
          /\ assignedIPs' = [ip \in Addresses |-> IF ip \in unbound THEN None ELSE assignedIPs[ip]]
          /\ spd' = RemoveOutboundSAs(unbound)
          /\ raced' = raced \cup {ip \in unbound : Window(ip) /= {}}
    BY DEF evictSessionLocked
  <1>3. unbound = boundTo(gone)
    BY <1>1, <1>2 DEF unbindings
  <1> QED
    BY <1>2, <1>3 DEF evictSessionLocked, RemoveOutboundSAs, NoSA

(***************************************************************************)
(* An eviction keeps every table true to the sessions, whatever else the   *)
(* step does to their states and identities.                               *)
(***************************************************************************)
LEMMA EvictionKeeps ==
    ASSUME IInv, NEW gone \in Sessions \cup {None}, evictSessionLocked(gone),
           StateInv',
           \A s \in Sessions :
               /\ sess'[s].children = sess[s].children /\ sess'[s].ip = sess[s].ip
               /\ sess'[s].state = "Deleting" =>
                     sess[s].state = "Deleting" \/ (s = gone /\ gone \in Registered)
    PROVE  /\ EspTypeOK' /\ install' = install /\ late' = late
           /\ raced' \subseteq Addresses /\ assignedIPs' \in [Addresses -> Sessions \cup {None}]
           /\ InstallInv' /\ Owned' /\ WindowInv' /\ EvictionComplete' /\ RouteMatchesBinding'
  <1> USE NoneFacts
  <1>1. /\ bySPI' = RemoveInboundSAs(childSPIs(gone))
        /\ assignedIPs' = [ip \in Addresses |-> IF ip \in boundTo(gone) THEN None
                                               ELSE assignedIPs[ip]]
        /\ spd' = [ip \in Addresses |-> IF ip \in boundTo(gone) THEN None ELSE spd[ip]]
        /\ raced' = raced \cup {ip \in boundTo(gone) : Window(ip) /= {}}
        /\ install' = install /\ late' = late /\ defaultOutSA' = defaultOutSA /\ loop' = loop
    BY Eviction
  <1>2. /\ TypeOK /\ InstallInv /\ Owned /\ WindowInv /\ EvictionComplete
        /\ RouteMatchesBinding /\ StateInv
    BY DEF IInv
  <1>3. /\ bySPI \in [SPIs -> Sessions \cup {None}] /\ spd \in [Addresses -> Sessions \cup {None}]
        /\ assignedIPs \in [Addresses -> Sessions \cup {None}] /\ raced \subseteq Addresses
        /\ install \in [Workers -> Installations \cup {Idle}]
    BY <1>2 DEF TypeOK, EspTypeOK, SAs, NoSA
  <1>4. bySPI' = [spi \in SPIs |-> IF spi \in childSPIs(gone) THEN None ELSE bySPI[spi]]
    BY <1>1 DEF RemoveInboundSAs, NoSA
  <1>5. EspTypeOK'
    BY <1>1, <1>2, <1>3, <1>4 DEF TypeOK, EspTypeOK, SAs, NoSA
  <1>6. boundTo(gone) \subseteq Addresses
    BY DEF boundTo
  <1>7. assignedIPs' \in [Addresses -> Sessions \cup {None}] /\ raced' \subseteq Addresses
    BY <1>1, <1>3, <1>6
  <1>8. \A w \in Workers : install[w] /= Idle => install[w].session \in Sessions
    BY <1>3 DEF Installations, Idle
  <1>9. InstallInv'
    BY <1>1, <1>2, <1>8 DEF InstallInv
  <1>10. Owned'
    BY <1>1, <1>2, <1>4 DEF Owned
  <1>11. \A ip \in Addresses : Window(ip)' = Window(ip)
    BY <1>1, <1>8 DEF Window, Idle
  <1>12. WindowInv'
    BY <1>1, <1>2, <1>11 DEF WindowInv
  <1>13. RouteMatchesBinding'
    BY <1>1, <1>2, <1>11 DEF RouteMatchesBinding
  <1>14. EvictionComplete'
    <2> SUFFICES ASSUME NEW s \in Sessions \ late, sess'[s].state = "Deleting"
                 PROVE  /\ s \notin Registered'
                        /\ \A spi \in SPIs : bySPI'[spi] /= s
                        /\ \A ip \in Addresses : assignedIPs'[ip] /= s
      BY <1>1 DEF EvictionComplete
    <2>1. s \notin Registered'
      BY DEF StateInv
    <2>2. CASE sess[s].state = "Deleting"
      BY <1>1, <1>2, <1>4, <2>1, <2>2 DEF EvictionComplete
    <2>3. CASE s = gone /\ gone \in Registered
      <3>1. \A spi \in SPIs : bySPI[spi] = s => spi \in childSPIs(gone)
        BY <1>2, <2>3 DEF Owned, childSPIs
      <3>2. \A ip \in Addresses : assignedIPs[ip] = s => ip \in boundTo(gone)
        BY <2>3 DEF boundTo
      <3> QED
        BY <1>1, <1>4, <2>1, <3>1, <3>2
    <2> QED
      BY <2>2, <2>3
  <1> QED
    BY <1>1, <1>5, <1>7, <1>9, <1>10, <1>12, <1>13, <1>14

-----------------------------------------------------------------------------

\* marked changes the state of the one session it evicts, and nothing else.
LEMMA MarkedType ==
    ASSUME TypeOK, NEW gone \in Sessions \cup {None}
    PROVE  /\ marked(gone) \in [Sessions -> SessionObjects]
           /\ \A s \in Sessions :
                 marked(gone)[s] = IF s = gone /\ gone \in Registered
                                   THEN [sess[s] EXCEPT !.state = "Deleting"] ELSE sess[s]
  <1>1. sess \in [Sessions -> SessionObjects] /\ Registered \subseteq Sessions
    BY DEF TypeOK, Registered, Sessions
  <1>2. ASSUME NEW s \in Sessions PROVE [sess[s] EXCEPT !.state = "Deleting"] \in SessionObjects
    BY <1>1 DEF SessionObjects
  <1> QED
    BY <1>1, <1>2 DEF marked

\* A registration, which may evict the session known under the same identity.
LEMMA RegisterKeeps ==
    ASSUME IInv, NEW s \in Sessions, NEW id \in Identities \cup {""},
           RegisterV2Session(s, id) \/ RegisterV1Session(s, id)
    PROVE  IInv'
  <1> USE NoneFacts
  <1> DEFINE gone == holderOf(id)
  <1>1. /\ TypeOK /\ StateInv /\ IdentityMapExact
        /\ v1Sessions \subseteq V1 /\ v2Sessions \subseteq V2
        /\ identityMap \in [Identities -> Sessions \cup {None}]
    BY DEF IInv, TypeOK
  <1>2. /\ register(s, id) /\ evictSessionLocked(gone) /\ sess[s].state = "New"
        /\ sess' = [marked(gone) EXCEPT ![s].state = "Active", ![s].peerID = id,
                                        ![s].known = (id /= "")]
        /\ identityMap' = IF id = "" THEN identityMap
                          ELSE [forgotten(gone) EXCEPT ![id] = s]
    BY DEF register, RegisterV1Session, RegisterV2Session
  <1>3. /\ v1Sessions' \subseteq V1 /\ v2Sessions' \subseteq V2
        /\ Registered' = (Registered \ {gone}) \cup {s}
    BY <1>1 DEF RegisterV1Session, RegisterV2Session, Registered
  <1>4. gone \in Sessions \cup {None}
    BY <1>1 DEF holderOf
  <1>5. s \notin Registered
    BY <1>1, <1>2 DEF StateInv
  <1>6. gone \in Sessions => gone \in Registered /\ sess[gone].known /\ sess[gone].peerID = id
    BY <1>1 DEF IdentityMapExact, holderOf
  <1>7. gone /= s
    BY <1>5, <1>6
  <1> DEFINE obj == marked(gone)
  <1>8. /\ obj \in [Sessions -> SessionObjects]
        /\ \A t \in Sessions : obj[t] = IF t = gone /\ gone \in Registered
                                         THEN [sess[t] EXCEPT !.state = "Deleting"] ELSE sess[t]
    BY <1>1, <1>4, MarkedType
  <1> HIDE DEF gone, obj
  <1>9. /\ sess' \in [Sessions -> SessionObjects]
        /\ \A t \in Sessions :
              sess'[t] = IF t = s THEN [sess[t] EXCEPT !.state = "Active", !.peerID = id,
                                                        !.known = (id /= "")]
                         ELSE IF t = gone THEN [sess[t] EXCEPT !.state = "Deleting"] ELSE sess[t]
    <2>1. sess' = [obj EXCEPT ![s] = [sess[s] EXCEPT !.state = "Active", !.peerID = id,
                                                      !.known = (id /= "")]]
      BY <1>2, <1>7, <1>8 DEF obj
    <2>2. (id /= "") \in BOOLEAN
      OBVIOUS
    <2>3. [sess[s] EXCEPT !.state = "Active", !.peerID = id, !.known = (id /= "")] \in SessionObjects
      <3>1. sess[s] \in SessionObjects
        BY <1>1, SessionParts
      <3> QED
        BY <2>2, <3>1 DEF SessionObjects
    <2> QED
      BY <1>6, <1>8, <2>1, <2>3, <1>4
  <1>10. \A t \in Sessions :
            /\ sess'[t].children = sess[t].children /\ sess'[t].ip = sess[t].ip
            /\ t /= s => sess'[t].peerID = sess[t].peerID /\ sess'[t].known = sess[t].known
            /\ sess'[t].state = IF t = s THEN "Active" ELSE IF t = gone THEN "Deleting"
                                ELSE sess[t].state
            /\ t = s => sess'[t].peerID = id /\ (sess'[t].known <=> id /= "")
    <2> SUFFICES ASSUME NEW t \in Sessions
                 PROVE  /\ sess'[t].children = sess[t].children /\ sess'[t].ip = sess[t].ip
                        /\ t /= s => sess'[t].peerID = sess[t].peerID /\ sess'[t].known = sess[t].known
                        /\ sess'[t].state = IF t = s THEN "Active" ELSE IF t = gone THEN "Deleting"
                                            ELSE sess[t].state
                        /\ t = s => sess'[t].peerID = id /\ (sess'[t].known <=> id /= "")
      OBVIOUS
    <2>1. sess[t] \in SessionObjects
      BY <1>1, SessionParts
    <2>2. CASE t = s
      <3> DEFINE isKnown == id /= ""
      <3>1. isKnown \in BOOLEAN
        OBVIOUS
      <3>2. sess'[t] = [sess[t] EXCEPT !.state = "Active", !.peerID = id, !.known = isKnown]
        BY <1>9, <2>2
      <3> HIDE DEF isKnown
      <3>3. /\ sess'[t].children = sess[t].children /\ sess'[t].ip = sess[t].ip
            /\ sess'[t].state = "Active" /\ sess'[t].peerID = id /\ sess'[t].known = isKnown
        BY <2>1, <3>1, <3>2 DEF SessionObjects
      <3> QED
        BY <2>2, <3>3 DEF isKnown
    <2>3. CASE t /= s /\ t = gone
      BY <1>9, <2>1, <2>3 DEF SessionObjects
    <2>4. CASE t /= s /\ t /= gone
      BY <1>9, <2>4
    <2> QED
      BY <2>2, <2>3, <2>4
  <1>11. StateInv'
    <2> SUFFICES ASSUME NEW t \in Sessions
                 PROVE  /\ t \in Registered' <=> sess'[t].state = "Active"
                        /\ sess'[t].known => sess'[t].peerID /= ""
                        /\ sess'[t].state = "New" => sess'[t].children = <<>> /\ ~sess'[t].known
      BY DEF StateInv
    <2>1. /\ t \in Registered <=> sess[t].state = "Active"
          /\ sess[t].known => sess[t].peerID /= ""
          /\ sess[t].state = "New" => sess[t].children = <<>> /\ ~sess[t].known
      BY <1>1 DEF StateInv
    <2>2. CASE t = s
      BY <1>3, <1>10, <2>2
    <2>3. CASE t /= s
      BY <1>3, <1>10, <2>1, <2>3
    <2> QED
      BY <2>2, <2>3
  <1>12. /\ EspTypeOK' /\ install' = install /\ late' = late
         /\ raced' \subseteq Addresses /\ assignedIPs' \in [Addresses -> Sessions \cup {None}]
         /\ InstallInv' /\ Owned' /\ WindowInv' /\ EvictionComplete' /\ RouteMatchesBinding'
    <2>1. \A t \in Sessions :
             /\ sess'[t].children = sess[t].children /\ sess'[t].ip = sess[t].ip
             /\ sess'[t].state = "Deleting" =>
                   sess[t].state = "Deleting" \/ (t = gone /\ gone \in Registered)
      BY <1>6, <1>10
    <2>2. evictSessionLocked(gone)
      BY <1>2 DEF gone
    <2> QED
      BY <1>4, <1>11, <2>1, <2>2, EvictionKeeps
  <1>13. \A i \in Identities :
            identityMap'[i] = IF i = id THEN s ELSE identityMap[i]
    <2>1. \A i \in Identities : i /= id => forgotten(gone)[i] = identityMap[i]
      BY <1>6, <1>4, <1>1 DEF forgotten, identitiesOf, TypeOK, Registered, Sessions
    <2> QED
      BY <1>2, <2>1, IdentitiesAssumption DEF forgotten, gone
  <1>14. IdentityMapExact'
    <2> SUFFICES ASSUME NEW t \in Sessions, NEW i \in Identities
                 PROVE  (identityMap'[i] = t) <=>
                            (t \in Registered' /\ sess'[t].known /\ sess'[t].peerID = i)
      BY DEF IdentityMapExact
    <2>1. CASE t = s
      <3>1. identityMap[i] /= s
        BY <1>1, <1>5 DEF IdentityMapExact
      <3> QED
        BY <1>3, <1>10, <1>13, <2>1, <3>1, IdentitiesAssumption
    <2>2. CASE t /= s
      <3>1. (identityMap[i] = t) <=> (t \in Registered /\ sess[t].known /\ sess[t].peerID = i)
        BY <1>1 DEF IdentityMapExact
      <3>2. i = id => (identityMap[i] = t <=> gone = t)
        BY IdentitiesAssumption DEF gone, holderOf
      <3>3. i /= id => (t = gone => identityMap[i] /= t)
        BY <1>6, <3>1
      <3> QED
        BY <1>3, <1>10, <1>13, <2>2, <3>1, <3>2, <3>3
    <2> QED
      BY <2>1, <2>2
  <1>15. identityMap' \in [Identities -> Sessions \cup {None}]
    <2>1. forgotten(gone) \in [Identities -> Sessions \cup {None}]
      BY <1>1 DEF forgotten
    <2> QED
      BY <1>1, <1>2, <2>1 DEF gone
  <1>16. TypeOK'
    BY <1>1, <1>3, <1>9, <1>12, <1>15 DEF TypeOK
  <1> QED
    BY <1>11, <1>12, <1>14, <1>16 DEF IInv

\* A deletion, by DELETE payload or dead peer, is an eviction and no more.
LEMMA DeleteKeeps ==
    ASSUME IInv, NEW s \in Sessions, DeleteSession(s)
    PROVE  IInv'
  <1> USE NoneFacts
  <1>1. /\ TypeOK /\ StateInv /\ IdentityMapExact
        /\ v1Sessions \subseteq V1 /\ v2Sessions \subseteq V2
        /\ identityMap \in [Identities -> Sessions \cup {None}]
    BY DEF IInv, TypeOK
  <1>2. /\ evictSessionLocked(s) /\ sess[s].state /= "New"
        /\ sess' = marked(s) /\ identityMap' = forgotten(s)
        /\ v1Sessions' \subseteq V1 /\ v2Sessions' \subseteq V2 /\ Registered' = Registered \ {s}
    BY <1>1 DEF DeleteSession, Registered
  <1>3. /\ sess' \in [Sessions -> SessionObjects]
        /\ \A t \in Sessions : sess'[t] = IF t = s /\ s \in Registered
                                          THEN [sess[t] EXCEPT !.state = "Deleting"] ELSE sess[t]
    BY <1>1, <1>2, MarkedType
  <1>4. \A t \in Sessions :
           /\ sess'[t].children = sess[t].children /\ sess'[t].ip = sess[t].ip
           /\ sess'[t].peerID = sess[t].peerID /\ sess'[t].known = sess[t].known
           /\ sess'[t].state = IF t = s /\ s \in Registered THEN "Deleting" ELSE sess[t].state
    <2> SUFFICES ASSUME NEW t \in Sessions
                 PROVE  /\ sess'[t].children = sess[t].children /\ sess'[t].ip = sess[t].ip
                        /\ sess'[t].peerID = sess[t].peerID /\ sess'[t].known = sess[t].known
                        /\ sess'[t].state = IF t = s /\ s \in Registered THEN "Deleting"
                                            ELSE sess[t].state
      OBVIOUS
    <2>1. sess[t] \in SessionObjects
      BY <1>1, SessionParts
    <2> QED
      BY <1>3, <2>1 DEF SessionObjects
  <1>5. StateInv'
    <2> SUFFICES ASSUME NEW t \in Sessions
                 PROVE  /\ t \in Registered' <=> sess'[t].state = "Active"
                        /\ sess'[t].known => sess'[t].peerID /= ""
                        /\ sess'[t].state = "New" => sess'[t].children = <<>> /\ ~sess'[t].known
      BY DEF StateInv
    <2>1. /\ t \in Registered <=> sess[t].state = "Active"
          /\ sess[t].known => sess[t].peerID /= ""
          /\ sess[t].state = "New" => sess[t].children = <<>> /\ ~sess[t].known
      BY <1>1 DEF StateInv
    <2> QED
      BY <1>2, <1>4, <2>1
  <1>6. /\ EspTypeOK' /\ install' = install /\ late' = late
        /\ raced' \subseteq Addresses /\ assignedIPs' \in [Addresses -> Sessions \cup {None}]
        /\ InstallInv' /\ Owned' /\ WindowInv' /\ EvictionComplete' /\ RouteMatchesBinding'
    BY <1>2, <1>4, <1>5, EvictionKeeps
  <1>7. IdentityMapExact'
    <2> SUFFICES ASSUME NEW t \in Sessions, NEW i \in Identities
                 PROVE  (identityMap'[i] = t) <=>
                            (t \in Registered' /\ sess'[t].known /\ sess'[t].peerID = i)
      BY DEF IdentityMapExact
    <2>1. /\ (identityMap[i] = t) <=> (t \in Registered /\ sess[t].known /\ sess[t].peerID = i)
          /\ (identityMap[i] = s) <=> (s \in Registered /\ sess[s].known /\ sess[s].peerID = i)
      BY <1>1 DEF IdentityMapExact
    <2>2. identityMap'[i] = IF s \in Registered /\ sess[s].peerID = i /\ identityMap[i] = s
                            THEN None ELSE identityMap[i]
      BY <1>2 DEF forgotten, identitiesOf
    <2> QED
      BY <1>2, <1>4, <2>1, <2>2
  <1>8. identityMap' \in [Identities -> Sessions \cup {None}]
    BY <1>1, <1>2 DEF forgotten
  <1>9. TypeOK'
    BY <1>1, <1>2, <1>3, <1>6, <1>8 DEF TypeOK
  <1> QED
    BY <1>5, <1>6, <1>7, <1>9 DEF IInv

-----------------------------------------------------------------------------

(***************************************************************************)
(* A step of a handshake changes one session object and no table, leaves   *)
(* the object's state alone, and lets children and address only grow.      *)
(***************************************************************************)
HandshakeStep(s, new) ==
    /\ sess' = [sess EXCEPT ![s] = new]
    /\ UNCHANGED <<v1Sessions, v2Sessions, identityMap, assignedIPs, install, late, raced, espVars>>
    /\ sess[s].state = "Active" /\ new.state = "Active"
    /\ new.known <=> sess[s].known
    /\ sess[s].peerID /= "" => new.peerID = sess[s].peerID
    /\ Elements(sess[s].children) \subseteq Elements(new.children)
    /\ Elements(sess[s].children) /= {} => new.ip = sess[s].ip

\* A handshake that changes one session object, but neither its state nor its
\* address once it has children, leaves every table of the manager in step.
LEMMA HandshakeKeeps ==
    ASSUME IInv, NEW s \in Sessions, NEW new \in SessionObjects, HandshakeStep(s, new)
    PROVE  IInv'
  <1> USE NoneFacts
  <1>1. /\ TypeOK /\ StateInv /\ InstallInv /\ Owned /\ WindowInv
        /\ IdentityMapExact /\ EvictionComplete /\ RouteMatchesBinding
    BY DEF IInv
  <1>2. /\ v1Sessions' = v1Sessions /\ v2Sessions' = v2Sessions /\ identityMap' = identityMap
        /\ assignedIPs' = assignedIPs /\ install' = install /\ late' = late /\ raced' = raced
        /\ bySPI' = bySPI /\ spd' = spd /\ defaultOutSA' = defaultOutSA /\ loop' = loop
        /\ Registered' = Registered
    BY DEF HandshakeStep, espVars, Registered
  <1>3. /\ sess \in [Sessions -> SessionObjects] /\ sess' \in [Sessions -> SessionObjects]
        /\ sess'[s] = new /\ \A t \in Sessions : t /= s => sess'[t] = sess[t]
        /\ install \in [Workers -> Installations \cup {Idle}]
        /\ sess[s].state = "Active" /\ new.state = "Active"
        /\ new.known <=> sess[s].known
        /\ sess[s].peerID /= "" => new.peerID = sess[s].peerID
        /\ Elements(sess[s].children) \subseteq Elements(new.children)
        /\ Elements(sess[s].children) /= {} => new.ip = sess[s].ip
    BY <1>1 DEF TypeOK, HandshakeStep
  <1>4. TypeOK'
    BY <1>1, <1>2, <1>3 DEF TypeOK, EspTypeOK
  <1>5. StateInv'
    BY <1>1, <1>2, <1>3 DEF StateInv
  <1>6. \A w \in Workers : install[w] /= Idle =>
           /\ install[w].session \in Sessions
           /\ install[w].spi \in Elements(sess[install[w].session].children)
           /\ install[w].step /= "inbound" => sess[install[w].session].ip /= None
    BY <1>1, <1>3 DEF InstallInv, Installations
  <1>7. \A w \in Workers : install[w] /= Idle =>
           /\ sess'[install[w].session].ip = sess[install[w].session].ip
           /\ install[w].spi \in Elements(sess'[install[w].session].children)
    BY <1>3, <1>6
  <1>8. InstallInv'
    BY <1>2, <1>6, <1>7 DEF InstallInv
  <1>9. \A spi \in SPIs, t \in Sessions : bySPI[spi] = t => spi \in Elements(sess'[t].children)
    BY <1>1, <1>3 DEF Owned
  <1>10. \A ip \in Addresses, t \in Sessions :
            assignedIPs[ip] = t => sess'[t].ip = ip /\ Elements(sess'[t].children) /= {}
    <2> SUFFICES ASSUME NEW ip \in Addresses, NEW t \in Sessions, assignedIPs[ip] = t
                 PROVE  sess'[t].ip = ip /\ Elements(sess'[t].children) /= {}
      OBVIOUS
    <2>1. sess[t].ip = ip /\ Elements(sess[t].children) /= {}
      BY <1>1 DEF Owned
    <2>2. CASE t = s
      <3>1. new.ip = ip
        BY <1>3, <2>1, <2>2
      <3>2. Elements(new.children) /= {}
        BY <1>3, <2>1, <2>2, Zenon
      <3> QED
        BY <1>3, <2>2, <3>1, <3>2
    <2>3. CASE t /= s
      BY <1>3, <2>1, <2>3
    <2> QED
      BY <2>2, <2>3
  <1>11. Owned'
    BY <1>2, <1>9, <1>10 DEF Owned
  <1>12. \A ip \in Addresses : Window(ip)' = Window(ip)
    BY <1>2, <1>7 DEF Window, Idle
  <1>13. WindowInv' /\ RouteMatchesBinding'
    BY <1>1, <1>2, <1>12 DEF WindowInv, RouteMatchesBinding
  <1>14. EvictionComplete'
    BY <1>1, <1>2, <1>3 DEF EvictionComplete
  <1>15. IdentityMapExact'
    <2> SUFFICES ASSUME NEW t \in Sessions, NEW i \in Identities
                 PROVE  (identityMap[i] = t) <=>
                            (t \in Registered /\ sess'[t].known /\ sess'[t].peerID = i)
      BY <1>2 DEF IdentityMapExact
    <2>1. /\ (identityMap[i] = t) <=> (t \in Registered /\ sess[t].known /\ sess[t].peerID = i)
          /\ sess[t].known => sess[t].peerID /= ""
      BY <1>1 DEF IdentityMapExact, StateInv
    <2>2. CASE t = s
      BY <1>3, <2>1, <2>2
    <2>3. CASE t /= s
      BY <1>3, <2>1, <2>3
    <2> QED
      BY <2>2, <2>3
  <1> QED
    BY <1>4, <1>5, <1>8, <1>11, <1>13, <1>14, <1>15 DEF IInv

\* An identity learnt after registration enters no table.
LEMMA LearnKeeps ==
    ASSUME IInv, NEW s \in Sessions, NEW id \in Identities, LearnPeerID(s, id)
    PROVE  IInv'
  <1> DEFINE new == [sess[s] EXCEPT !.peerID = id]
  <1>1. TypeOK /\ sess \in [Sessions -> SessionObjects] /\ sess[s] \in SessionObjects
    BY SessionParts DEF IInv, TypeOK
  <1>2. new \in SessionObjects
    BY <1>1 DEF SessionObjects
  <1>3. /\ new.state = sess[s].state /\ new.known = sess[s].known /\ new.ip = sess[s].ip
        /\ new.children = sess[s].children
    BY <1>1 DEF SessionObjects
  <1>4. sess' = [sess EXCEPT ![s] = new] /\ sess[s].state = "Active" /\ sess[s].peerID = ""
    BY DEF LearnPeerID
  <1>5. UNCHANGED <<v1Sessions, v2Sessions, identityMap, assignedIPs, install, late, raced, espVars>>
    BY DEF LearnPeerID
  <1> HIDE DEF new
  <1>6. HandshakeStep(s, new)
    BY <1>3, <1>4, <1>5 DEF HandshakeStep
  <1> QED
    BY <1>2, <1>6, HandshakeKeeps

\* A new child SA has an SPI that no session has.
LEMMA NewChildKeeps ==
    ASSUME IInv, NEW s \in Sessions, NEW spi \in SPIs, NEW ip \in Addresses \cup {None},
           NewChild(s, spi, ip)
    PROVE  IInv'
  <1> DEFINE new == [sess[s] EXCEPT !.children = Append(@, spi), !.ip = ip]
  <1>1. /\ TypeOK /\ sess \in [Sessions -> SessionObjects] /\ sess[s] \in SessionObjects
        /\ sess[s].children \in Seq(SPIs)
    BY SessionParts DEF IInv, TypeOK
  <1>2. /\ sess' = [sess EXCEPT ![s] = new] /\ sess[s].state = "Active"
        /\ Len(sess[s].children) < MaxChildren
    BY DEF NewChild
  <1>3. sess[s].children /= <<>> => ip = sess[s].ip
    BY DEF NewChild
  <1>4. UNCHANGED <<v1Sessions, v2Sessions, identityMap, assignedIPs, install, late, raced, espVars>>
    BY DEF NewChild
  <1>5. /\ Append(sess[s].children, spi) \in Seq(SPIs)
        /\ Len(Append(sess[s].children, spi)) = Len(sess[s].children) + 1
        /\ Elements(Append(sess[s].children, spi)) = Elements(sess[s].children) \cup {spi}
    BY <1>1, ElementsAppend
  <1>6. Len(Append(sess[s].children, spi)) <= MaxChildren
    BY <1>1, <1>2, <1>5, MaxChildrenAssumption
  <1>7. Append(sess[s].children, spi) \in SPILists
    BY <1>5, <1>6, SPIListsAreSequences, Zenon
  <1>8. new \in SessionObjects
    BY <1>1, <1>7 DEF SessionObjects
  <1>9. /\ new.state = sess[s].state /\ new.known = sess[s].known /\ new.ip = ip
        /\ new.peerID = sess[s].peerID /\ new.children = Append(sess[s].children, spi)
    BY <1>1 DEF SessionObjects
  <1>10. Elements(sess[s].children) /= {} => ip = sess[s].ip
    <2>1. Elements(<<>>) = {}
      BY DEF Elements
    <2> QED
      BY <1>3, <2>1, Zenon
  <1> HIDE DEF new
  <1>11. Elements(sess[s].children) \subseteq Elements(new.children)
    BY <1>5, <1>9
  <1>12. HandshakeStep(s, new)
    BY <1>2, <1>4, <1>9, <1>10, <1>11 DEF HandshakeStep
  <1> QED
    BY <1>8, <1>12, HandshakeKeeps

-----------------------------------------------------------------------------

\* What the type says of a worker that is installing.
LEMMA InstallParts ==
    ASSUME IInv, NEW w \in Workers, install[w].step /= "idle"
    PROVE  /\ install[w] /= Idle /\ install[w] \in Installations
           /\ install[w].session \in Sessions /\ install[w].spi \in SPIs
           /\ install[w].spi \in Elements(sess[install[w].session].children)
           /\ install[w].step /= "inbound" => sess[install[w].session].ip \in Addresses
  <1>1. install[w] \in Installations \cup {Idle} /\ TypeOK
    BY DEF IInv, TypeOK
  <1>2. install[w] /= Idle
    BY DEF Idle
  <1>3. install[w].session \in Sessions /\ install[w].spi \in SPIs
    BY <1>1, <1>2 DEF Installations
  <1>4. sess[install[w].session].ip \in Addresses \cup {None}
    BY <1>1, <1>3, SessionParts
  <1> QED
    BY <1>1, <1>2, <1>3, <1>4 DEF IInv, InstallInv

\* A worker takes the next child SA of a session, which nobody else installs.
LEMMA InstallChildKeeps ==
    ASSUME IInv, NEW w \in Workers, NEW s \in Sessions, InstallChildSA(w, s)
    PROVE  IInv'
  <1> USE NoneFacts
  <1> DEFINE job == [step |-> "inbound", session |-> s,
                     spi |-> sess[s].children[sess[s].installed + 1]]
  <1>1. /\ TypeOK /\ StateInv /\ InstallInv /\ Owned /\ WindowInv
        /\ IdentityMapExact /\ EvictionComplete /\ RouteMatchesBinding
    BY DEF IInv
  <1>2. /\ v1Sessions' = v1Sessions /\ v2Sessions' = v2Sessions /\ identityMap' = identityMap
        /\ assignedIPs' = assignedIPs /\ late' = late /\ raced' = raced
        /\ bySPI' = bySPI /\ spd' = spd /\ defaultOutSA' = defaultOutSA /\ loop' = loop
        /\ Registered' = Registered
    BY DEF InstallChildSA, espVars, Registered
  <1>3. /\ install[w] = Idle /\ sess[s].installed < Len(sess[s].children)
        /\ sess' = [sess EXCEPT ![s].installed = @ + 1]
        /\ install' = [install EXCEPT ![w] = job]
    BY DEF InstallChildSA
  <1>4. /\ sess[s].children \in Seq(SPIs) /\ Len(sess[s].children) <= MaxChildren
        /\ sess[s].installed \in 0 .. MaxChildren
        /\ sess \in [Sessions -> SessionObjects] /\ sess[s] \in SessionObjects
        /\ install \in [Workers -> Installations \cup {Idle}]
    BY <1>1, SessionParts DEF TypeOK
  <1>5. /\ sess[s].installed + 1 \in DOMAIN sess[s].children
        /\ sess[s].installed + 1 \in 0 .. MaxChildren
    BY <1>3, <1>4, MaxChildrenAssumption
  <1>6. /\ sess[s].children[sess[s].installed + 1] \in SPIs
        /\ sess[s].children[sess[s].installed + 1] \in Elements(sess[s].children)
    BY <1>4, <1>5 DEF Elements
  <1>7. job \in Installations /\ job.step = "inbound" /\ job.session = s
        /\ job.spi \in Elements(sess[s].children)
    BY <1>6 DEF Installations
  <1>8. sess' \in [Sessions -> SessionObjects]
    <2>1. [sess[s] EXCEPT !.installed = @ + 1] \in SessionObjects
      BY <1>4, <1>5 DEF SessionObjects
    <2> QED
      BY <1>3, <1>4, <2>1
  <1>9. \A t \in Sessions :
           /\ sess'[t].state = sess[t].state /\ sess'[t].peerID = sess[t].peerID
           /\ sess'[t].known = sess[t].known /\ sess'[t].ip = sess[t].ip
           /\ sess'[t].children = sess[t].children
    <2> SUFFICES ASSUME NEW t \in Sessions
                 PROVE  /\ sess'[t].state = sess[t].state /\ sess'[t].peerID = sess[t].peerID
                        /\ sess'[t].known = sess[t].known /\ sess'[t].ip = sess[t].ip
                        /\ sess'[t].children = sess[t].children
      OBVIOUS
    <2> QED
      BY <1>3, <1>4 DEF SessionObjects
  <1> HIDE DEF job
  <1>10. /\ install' \in [Workers -> Installations \cup {Idle}] /\ install'[w] = job
         /\ \A v \in Workers : v /= w => install'[v] = install[v]
    BY <1>3, <1>4, <1>7
  <1>11. TypeOK'
    BY <1>1, <1>2, <1>8, <1>10 DEF TypeOK, EspTypeOK
  <1>12. StateInv' /\ IdentityMapExact'
    <2>1. StateInv'
      <3> SUFFICES ASSUME NEW t \in Sessions
                   PROVE  /\ t \in Registered' <=> sess'[t].state = "Active"
                          /\ sess'[t].known => sess'[t].peerID /= ""
                          /\ sess'[t].state = "New" => sess'[t].children = <<>> /\ ~sess'[t].known
        BY DEF StateInv
      <3>1. /\ t \in Registered <=> sess[t].state = "Active"
            /\ sess[t].known => sess[t].peerID /= ""
            /\ sess[t].state = "New" => sess[t].children = <<>> /\ ~sess[t].known
        BY <1>1 DEF StateInv
      <3>2. /\ sess'[t].state = sess[t].state /\ sess'[t].peerID = sess[t].peerID
            /\ sess'[t].known = sess[t].known /\ sess'[t].children = sess[t].children
        BY <1>9
      <3> QED
        BY <1>2, <3>1, <3>2
    <2>2. IdentityMapExact'
      BY <1>1, <1>2, <1>9 DEF IdentityMapExact
    <2> QED
      BY <2>1, <2>2
  <1>13. InstallInv'
    <2> SUFFICES ASSUME NEW v \in Workers, install'[v] /= Idle
                 PROVE  /\ install'[v].spi \in Elements(sess'[install'[v].session].children)
                        /\ install'[v].step /= "inbound" => sess'[install'[v].session].ip /= None
      BY DEF InstallInv
    <2>1. CASE v = w
      BY <1>7, <1>9, <1>10, <2>1
    <2>2. CASE v /= w
      <3>1. install[v].session \in Sessions
        BY <1>4, <1>10, <2>2 DEF Installations
      <3> QED
        BY <1>1, <1>9, <1>10, <2>2, <3>1 DEF InstallInv
    <2> QED
      BY <2>1, <2>2
  <1>14. Owned' /\ EvictionComplete'
    BY <1>1, <1>2, <1>9 DEF Owned, EvictionComplete
  <1>15. \A ip \in Addresses : Window(ip)' = Window(ip)
    <2> SUFFICES ASSUME NEW ip \in Addresses, NEW v \in Workers
                 PROVE  (install'[v].step = "bind" /\ sess'[install'[v].session].ip = ip) <=>
                        (install[v].step = "bind" /\ sess[install[v].session].ip = ip)
      BY DEF Window
    <2>1. CASE v = w
      BY <1>3, <1>7, <1>10, <2>1 DEF Idle
    <2>2. CASE v /= w
      <3>1. install[v].step = "bind" => install[v].session \in Sessions
        BY InstallParts
      <3> QED
        BY <1>9, <1>10, <2>2, <3>1
    <2> QED
      BY <2>1, <2>2
  <1>16. \A ip \in Addresses : \A v \in Window(ip) : install'[v] = install[v]
    BY <1>3, <1>10 DEF Window, Idle
  <1>17. WindowInv' /\ RouteMatchesBinding'
    BY <1>1, <1>2, <1>15, <1>16 DEF WindowInv, RouteMatchesBinding
  <1> QED
    BY <1>11, <1>12, <1>13, <1>14, <1>17 DEF IInv

(***************************************************************************)
(* The three steps of an installation and the engine's own steps leave the *)
(* session objects and the session and identity tables alone.              *)
(***************************************************************************)
LEMMA SessionsKept ==
    ASSUME IInv, UNCHANGED <<v1Sessions, v2Sessions, sess, identityMap>>
    PROVE  Registered' = Registered /\ StateInv' /\ IdentityMapExact'
  <1>1. /\ v1Sessions' = v1Sessions /\ v2Sessions' = v2Sessions /\ sess' = sess
        /\ identityMap' = identityMap /\ StateInv /\ IdentityMapExact
    BY DEF IInv
  <1>2. Registered' = Registered
    BY <1>1 DEF Registered
  <1>3. StateInv'
    BY <1>1, <1>2, Zenon DEF StateInv
  <1>4. IdentityMapExact'
    BY <1>1, <1>2 DEF IdentityMapExact
  <1> QED
    BY <1>2, <1>3, <1>4

\* The first critical section of an installation: the inbound SA.
LEMMA InboundKeeps ==
    ASSUME IInv, NEW w \in Workers, installInbound(w)
    PROVE  IInv'
  <1> USE NoneFacts
  <1> DEFINE s == install[w].session
             spi == install[w].spi
  <1>1. /\ TypeOK /\ StateInv /\ InstallInv /\ Owned /\ WindowInv
        /\ IdentityMapExact /\ EvictionComplete /\ RouteMatchesBinding
    BY DEF IInv
  <1>2. /\ v1Sessions' = v1Sessions /\ v2Sessions' = v2Sessions /\ identityMap' = identityMap
        /\ sess' = sess /\ assignedIPs' = assignedIPs /\ raced' = raced
        /\ spd' = spd /\ defaultOutSA' = defaultOutSA /\ loop' = loop
    BY DEF installInbound, smVars
  <1>3. Registered' = Registered /\ StateInv' /\ IdentityMapExact'
    BY <1>2, SessionsKept
  <1>4. /\ install[w].step = "inbound" /\ bySPI' = AddInboundSA(spi, s)
        /\ install' = [install EXCEPT ![w] = IF sess[s].ip = None THEN Idle
                                             ELSE [install[w] EXCEPT !.step = "outbound"]]
        /\ late' = lateIf(s)
    BY DEF installInbound
  <1>5. /\ install[w] \in Installations /\ s \in Sessions /\ spi \in SPIs
        /\ spi \in Elements(sess[s].children)
    BY <1>4, InstallParts
  <1>6. /\ bySPI \in [SPIs -> Sessions \cup {None}]
        /\ install \in [Workers -> Installations \cup {Idle}] /\ late \subseteq Sessions
    BY <1>1 DEF TypeOK, EspTypeOK, SAs, NoSA
  <1>7. /\ [install[w] EXCEPT !.step = "outbound"] \in Installations
        /\ [install[w] EXCEPT !.step = "outbound"].spi = spi
        /\ [install[w] EXCEPT !.step = "outbound"].session = s
        /\ [install[w] EXCEPT !.step = "outbound"].step = "outbound"
    BY <1>5 DEF Installations
  <1>8. PICK job \in Installations \cup {Idle} :
          /\ install' = [install EXCEPT ![w] = job]
          /\ job /= Idle => job.spi = spi /\ job.session = s /\ sess[s].ip /= None
          /\ job.step /= "bind"
    <2>1. CASE sess[s].ip = None
      <3>1. install' = [install EXCEPT ![w] = Idle]
        BY <1>4, <2>1
      <3>2. Idle.step /= "bind"
        BY DEF Idle
      <3> QED
        BY <3>1, <3>2
    <2>2. CASE sess[s].ip /= None
      <3> DEFINE job == [install[w] EXCEPT !.step = "outbound"]
      <3>1. install' = [install EXCEPT ![w] = job]
        BY <1>4, <2>2
      <3>2. job \in Installations /\ job.spi = spi /\ job.session = s /\ job.step = "outbound"
        BY <1>7
      <3> HIDE DEF job
      <3> QED
        BY <2>2, <3>1, <3>2
    <2> QED
      BY <2>1, <2>2
  <1>9. /\ bySPI' \in [SPIs -> Sessions \cup {None}]
        /\ \A x \in SPIs : bySPI'[x] = bySPI[x] \/ (x = spi /\ bySPI'[x] = s)
    BY <1>4, <1>5, <1>6 DEF AddInboundSA
  <1> HIDE DEF s, spi
  <1>10. /\ install' \in [Workers -> Installations \cup {Idle}] /\ install'[w] = job
         /\ \A v \in Workers : v /= w => install'[v] = install[v]
    BY <1>6, <1>8
  <1>11. late' \subseteq Sessions /\ late \subseteq late' /\ (sess[s].state = "Deleting" => s \in late')
    BY <1>4, <1>5, <1>6 DEF lateIf
  <1>12. TypeOK'
    BY <1>1, <1>2, <1>9, <1>10, <1>11 DEF TypeOK, EspTypeOK, SAs, NoSA
  <1>13. InstallInv'
    BY <1>1, <1>2, <1>5, <1>8, <1>10 DEF InstallInv
  <1>14. Owned'
    BY <1>1, <1>2, <1>5, <1>9 DEF Owned
  <1>15. EvictionComplete'
    BY <1>1, <1>2, <1>3, <1>9, <1>11 DEF EvictionComplete
  <1>16. \A ip \in Addresses : Window(ip)' = Window(ip)
    BY <1>2, <1>4, <1>8, <1>10 DEF Window
  <1>17. \A ip \in Addresses : \A v \in Window(ip) : install'[v] = install[v]
    BY <1>4, <1>10 DEF Window
  <1>18. WindowInv' /\ RouteMatchesBinding'
    BY <1>1, <1>2, <1>16, <1>17 DEF WindowInv, RouteMatchesBinding
  <1> QED
    BY <1>3, <1>12, <1>13, <1>14, <1>15, <1>18 DEF IInv

\* The second: the route, from which the address is between the two mutexes.
LEMMA OutboundKeeps ==
    ASSUME IInv, NEW w \in Workers, installOutbound(w)
    PROVE  IInv'
  <1> USE NoneFacts
  <1>0. PICK s \in Sessions, ip \in Addresses : s = install[w].session /\ ip = sess[s].ip
    BY InstallParts DEF installOutbound
  <1> DEFINE job == [install[w] EXCEPT !.step = "bind"]
  <1>1. /\ TypeOK /\ StateInv /\ InstallInv /\ Owned /\ WindowInv
        /\ IdentityMapExact /\ EvictionComplete /\ RouteMatchesBinding
    BY DEF IInv
  <1>2. /\ v1Sessions' = v1Sessions /\ v2Sessions' = v2Sessions /\ identityMap' = identityMap
        /\ sess' = sess /\ assignedIPs' = assignedIPs
        /\ bySPI' = bySPI /\ defaultOutSA' = defaultOutSA /\ loop' = loop
    BY DEF installOutbound, smVars
  <1>3. Registered' = Registered /\ StateInv' /\ IdentityMapExact'
    BY <1>2, SessionsKept
  <1>4. /\ install[w].step = "outbound" /\ spd' = [spd EXCEPT ![ip] = s]
        /\ install' = [install EXCEPT ![w] = job]
        /\ raced' = IF Window(ip) = {} THEN raced \ {ip} ELSE raced \cup {ip}
        /\ late' = lateIf(s)
    BY <1>0 DEF installOutbound, AddOutboundSA
  <1>5. /\ install[w] \in Installations /\ s \in Sessions /\ ip \in Addresses
        /\ install[w].spi \in Elements(sess[s].children)
    BY <1>0, <1>4, InstallParts
  <1>6. /\ spd \in [Addresses -> Sessions \cup {None}] /\ raced \subseteq Addresses
        /\ install \in [Workers -> Installations \cup {Idle}] /\ late \subseteq Sessions
    BY <1>1 DEF TypeOK, EspTypeOK, SAs, NoSA
  <1>7. /\ job \in Installations /\ job.spi = install[w].spi /\ job.session = s
        /\ job.step = "bind"
    BY <1>0, <1>5 DEF Installations
  <1>8. /\ install' \in [Workers -> Installations \cup {Idle}] /\ install'[w] = job
        /\ \A v \in Workers : v /= w => install'[v] = install[v]
    BY <1>4, <1>6, <1>7
  <1> HIDE DEF job
  <1>9. /\ spd' \in [Addresses -> Sessions \cup {None}] /\ raced' \subseteq Addresses
        /\ spd'[ip] = s /\ \A x \in Addresses : x /= ip => spd'[x] = spd[x]
    BY <1>4, <1>5, <1>6
  <1>10. late' \subseteq Sessions /\ late \subseteq late'
    BY <1>4, <1>5, <1>6 DEF lateIf
  <1>11. TypeOK'
    BY <1>1, <1>2, <1>8, <1>9, <1>10 DEF TypeOK, EspTypeOK, SAs, NoSA
  <1>12. InstallInv'
    BY <1>0, <1>1, <1>2, <1>5, <1>7, <1>8 DEF InstallInv
  <1>13. Owned' /\ EvictionComplete'
    BY <1>1, <1>2, <1>3, <1>10 DEF Owned, EvictionComplete
  <1>14. /\ Window(ip)' = Window(ip) \cup {w} /\ w \notin Window(ip)
         /\ \A x \in Addresses : x /= ip => Window(x)' = Window(x) /\ w \notin Window(x)
    <2>1. w \in Window(ip)' /\ \A x \in Addresses : w \notin Window(x)
      BY <1>0, <1>2, <1>4, <1>7, <1>8 DEF Window
    <2>2. \A x \in Addresses : x /= ip => w \notin Window(x)'
      BY <1>0, <1>2, <1>7, <1>8 DEF Window
    <2>3. ASSUME NEW x \in Addresses, NEW v \in Workers, v /= w
          PROVE  v \in Window(x)' <=> v \in Window(x)
      BY <1>2, <1>8, <2>3 DEF Window
    <2>4. \A x \in Addresses : Window(x) \subseteq Workers /\ Window(x)' \subseteq Workers
      BY DEF Window
    <2>5. Window(ip)' = Window(ip) \cup {w}
      BY <2>1, <2>3, <2>4
    <2>6. ASSUME NEW x \in Addresses, x /= ip PROVE Window(x)' = Window(x)
      BY <2>1, <2>2, <2>3, <2>4, <2>6
    <2> QED
      BY <2>1, <2>5, <2>6
  <1>15. ip \notin raced' => Window(ip) = {}
    BY <1>4
  <1>16. \A x \in Addresses : x /= ip => (x \in raced' <=> x \in raced)
    BY <1>4
  <1>17. \A x \in Addresses : \A v \in Window(x) : install'[v] = install[v]
    BY <1>4, <1>8 DEF Window
  <1>18. WindowInv'
    <2> SUFFICES ASSUME NEW x \in Addresses \ raced', NEW v \in Window(x)'
                 PROVE  Window(x)' = {v} /\ spd'[x] = install'[v].session
      BY DEF WindowInv
    <2>1. CASE x = ip
      BY <1>7, <1>8, <1>9, <1>14, <1>15, <2>1
    <2>2. CASE x /= ip
      BY <1>1, <1>9, <1>14, <1>16, <1>17, <2>2 DEF WindowInv
    <2> QED
      BY <2>1, <2>2
  <1>19. RouteMatchesBinding'
    <2> SUFFICES ASSUME NEW x \in Addresses \ raced', Window(x)' = {}
                 PROVE  spd'[x] = assignedIPs[x]
      BY <1>2 DEF RouteMatchesBinding
    <2>1. x /= ip
      BY <1>14
    <2> QED
      BY <1>1, <1>9, <1>14, <1>16, <2>1 DEF RouteMatchesBinding
  <1> QED
    BY <1>3, <1>11, <1>12, <1>13, <1>18, <1>19 DEF IInv

\* The third: the address is bound and, if undisturbed, agrees with the route.
LEMMA BindKeeps ==
    ASSUME IInv, NEW w \in Workers, installBind(w)
    PROVE  IInv'
  <1> USE NoneFacts
  <1>0. PICK s \in Sessions, ip \in Addresses : s = install[w].session /\ ip = sess[s].ip
    BY InstallParts DEF installBind
  <1>1. /\ TypeOK /\ StateInv /\ InstallInv /\ Owned /\ WindowInv
        /\ IdentityMapExact /\ EvictionComplete /\ RouteMatchesBinding
    BY DEF IInv
  <1>2. /\ v1Sessions' = v1Sessions /\ v2Sessions' = v2Sessions /\ identityMap' = identityMap
        /\ sess' = sess /\ raced' = raced
        /\ bySPI' = bySPI /\ spd' = spd /\ defaultOutSA' = defaultOutSA /\ loop' = loop
    BY DEF installBind, espVars
  <1>3. Registered' = Registered /\ StateInv' /\ IdentityMapExact'
    BY <1>2, SessionsKept
  <1>4. /\ install[w].step = "bind" /\ assignedIPs' = [assignedIPs EXCEPT ![ip] = s]
        /\ install' = [install EXCEPT ![w] = Idle] /\ late' = lateIf(s)
    BY <1>0 DEF installBind
  <1>5. /\ s \in Sessions /\ ip \in Addresses /\ install[w].spi \in Elements(sess[s].children)
    BY <1>0, <1>4, InstallParts
  <1>6. /\ assignedIPs \in [Addresses -> Sessions \cup {None}]
        /\ install \in [Workers -> Installations \cup {Idle}] /\ late \subseteq Sessions
    BY <1>1 DEF TypeOK
  <1>7. /\ install' \in [Workers -> Installations \cup {Idle}] /\ install'[w] = Idle
        /\ \A v \in Workers : v /= w => install'[v] = install[v]
    BY <1>4, <1>6
  <1>8. /\ assignedIPs' \in [Addresses -> Sessions \cup {None}]
        /\ assignedIPs'[ip] = s /\ \A x \in Addresses : x /= ip => assignedIPs'[x] = assignedIPs[x]
    BY <1>4, <1>5, <1>6
  <1>9. late' \subseteq Sessions /\ late \subseteq late' /\ (sess[s].state = "Deleting" => s \in late')
    BY <1>4, <1>5, <1>6 DEF lateIf
  <1>10. TypeOK'
    BY <1>1, <1>2, <1>7, <1>8, <1>9 DEF TypeOK, EspTypeOK
  <1>11. InstallInv'
    BY <1>1, <1>2, <1>7 DEF InstallInv
  <1>12. Owned'
    <2>1. \A x \in SPIs, t \in Sessions : bySPI'[x] = t => x \in Elements(sess'[t].children)
      BY <1>1, <1>2 DEF Owned
    <2>2. ASSUME NEW x \in Addresses, NEW t \in Sessions, assignedIPs'[x] = t
          PROVE  sess'[t].ip = x /\ Elements(sess'[t].children) /= {}
      <3>1. CASE x = ip
        BY <1>0, <1>2, <1>5, <1>8, <2>2, <3>1
      <3>2. CASE x /= ip
        BY <1>1, <1>2, <1>8, <2>2, <3>2 DEF Owned
      <3> QED
        BY <3>1, <3>2
    <2> QED
      BY <2>1, <2>2 DEF Owned
  <1>13. EvictionComplete'
    BY <1>1, <1>2, <1>3, <1>8, <1>9 DEF EvictionComplete
  <1>14. Idle.step /= "bind"
    BY DEF Idle
  <1>15. /\ w \in Window(ip) /\ Window(ip)' = Window(ip) \ {w}
         /\ \A x \in Addresses : x /= ip => Window(x)' = Window(x)
    <2>1. w \in Window(ip)
      BY <1>0, <1>4 DEF Window
    <2>2. ASSUME NEW x \in Addresses, NEW v \in Workers
          PROVE  v \in Window(x)' <=> (v \in Window(x) /\ v /= w)
      BY <1>2, <1>7, <1>14 DEF Window
    <2>3. \A x \in Addresses : x /= ip => w \notin Window(x)
      BY <1>0 DEF Window
    <2>4. \A x \in Addresses : Window(x) \subseteq Workers /\ Window(x)' \subseteq Workers
      BY DEF Window
    <2>5. Window(ip)' = Window(ip) \ {w}
      BY <1>5, <2>2, <2>4
    <2>6. ASSUME NEW x \in Addresses, x /= ip PROVE Window(x)' = Window(x)
      BY <2>2, <2>3, <2>4, <2>6
    <2> QED
      BY <2>1, <2>5, <2>6
  <1>16. \A x \in Addresses : \A v \in Window(x)' : v \in Window(x) /\ install'[v] = install[v]
    <2>1. \A x \in Addresses : Window(x)' \subseteq Workers \ {w}
      BY <1>7, <1>14 DEF Window
    <2> QED
      BY <1>7, <1>15, <2>1
  <1>17. WindowInv'
    <2> SUFFICES ASSUME NEW x \in Addresses \ raced, NEW v \in Window(x)'
                 PROVE  Window(x)' = {v} /\ spd[x] = install'[v].session
      BY <1>2 DEF WindowInv
    <2>1. v \in Window(x) /\ Window(x) = {v} /\ spd[x] = install[v].session
      BY <1>1, <1>16 DEF WindowInv
    <2>2. x /= ip
      BY <1>15, <2>1
    <2> QED
      BY <1>15, <1>16, <2>1, <2>2
  <1>18. RouteMatchesBinding'
    <2> SUFFICES ASSUME NEW x \in Addresses \ raced, Window(x)' = {}
                 PROVE  spd[x] = assignedIPs'[x]
      BY <1>2 DEF RouteMatchesBinding
    <2>1. CASE x = ip
      <3>1. spd[ip] = install[w].session
        BY <1>1, <1>15, <2>1 DEF WindowInv
      <3> QED
        BY <1>0, <1>8, <2>1, <3>1
    <2>2. CASE x /= ip
      BY <1>1, <1>8, <1>15, <2>2 DEF RouteMatchesBinding
    <2> QED
      BY <2>1, <2>2
  <1> QED
    BY <1>3, <1>10, <1>11, <1>12, <1>13, <1>17, <1>18 DEF IInv

\* DeleteESP and the engine's own steps: no table of the manager changes.
LEMMA EngineKeeps ==
    ASSUME IInv, UNCHANGED <<smVars, install, late, raced, spd>>, EspTypeOK',
           \A spi \in SPIs : bySPI'[spi] \in {bySPI[spi], None}
    PROVE  IInv'
  <1> USE NoneFacts
  <1>1. /\ TypeOK /\ StateInv /\ InstallInv /\ Owned /\ WindowInv
        /\ IdentityMapExact /\ EvictionComplete /\ RouteMatchesBinding
    BY DEF IInv
  <1>2. /\ v1Sessions' = v1Sessions /\ v2Sessions' = v2Sessions /\ identityMap' = identityMap
        /\ sess' = sess /\ assignedIPs' = assignedIPs /\ install' = install /\ late' = late
        /\ raced' = raced /\ spd' = spd
    BY DEF smVars
  <1>3. Registered' = Registered /\ StateInv' /\ IdentityMapExact'
    BY <1>2, SessionsKept
  <1>4. TypeOK'
    BY <1>1, <1>2 DEF TypeOK
  <1>5. InstallInv'
    BY <1>1, <1>2 DEF InstallInv
  <1>6. Owned' /\ EvictionComplete'
    BY <1>1, <1>2, <1>3 DEF Owned, EvictionComplete
  <1>7. \A ip \in Addresses : Window(ip)' = Window(ip)
    BY <1>2 DEF Window
  <1>8. WindowInv' /\ RouteMatchesBinding'
    BY <1>1, <1>2, <1>7 DEF WindowInv, RouteMatchesBinding
  <1> QED
    BY <1>3, <1>4, <1>5, <1>6, <1>8 DEF IInv

\* A DELETE payload for ESP takes an inbound SA away and adds none.
LEMMA DeleteESPKeeps ==
    ASSUME IInv, NEW spi \in SPIs, DeleteESP(spi)
    PROVE  IInv'
  <1>1. EspTypeOK
    BY DEF IInv, TypeOK
  <1>2. bySPI' = [x \in SPIs |-> IF x \in {spi} THEN None ELSE bySPI[x]]
    BY DEF DeleteESP, RemoveInboundSAs, NoSA
  <1>3. UNCHANGED <<smVars, install, late, raced, spd>> /\ UNCHANGED <<defaultOutSA, loop>>
    BY DEF DeleteESP
  <1>4. EspTypeOK'
    BY <1>1, <1>2, <1>3 DEF EspTypeOK, NoSA
  <1>5. \A x \in SPIs : bySPI'[x] \in {bySPI[x], None}
    BY <1>2
  <1> QED
    BY <1>3, <1>4, <1>5, EngineKeeps

\* The default SA and the outbound loop are read by no table.
LEMMA EngineStepKeeps ==
    ASSUME IInv, Engine
    PROVE  IInv'
  <1>1. EspTypeOK
    BY DEF IInv, TypeOK
  <1>2. UNCHANGED <<smVars, install, late, raced>> /\ spd' = spd /\ bySPI' = bySPI
    BY DEF Engine, SetDefaultOutboundSA, outboundLookup, outboundSend
  <1>3. EspTypeOK'
    BY <1>1 DEF EspTypeOK, Engine, SetDefaultOutboundSA, outboundLookup, outboundSend
  <1> QED
    BY <1>2, <1>3, EngineKeeps

-----------------------------------------------------------------------------

\* Every step keeps the invariant.
LEMMA NextIInv == IInv /\ [Next]_vars => IInv'
  <1> SUFFICES ASSUME IInv, [Next]_vars PROVE IInv'
    OBVIOUS
  <1>1. ASSUME NEW s \in Sessions, NEW id \in Identities \cup {""},
               RegisterV2Session(s, id) \/ RegisterV1Session(s, id)
        PROVE  IInv'
    BY <1>1, RegisterKeeps
  <1>2. ASSUME NEW s \in Sessions, DeleteSession(s) PROVE IInv'
    BY <1>2, DeleteKeeps
  <1>3. ASSUME NEW s \in Sessions, NEW id \in Identities, LearnPeerID(s, id) PROVE IInv'
    BY <1>3, LearnKeeps
  <1>4. ASSUME NEW s \in Sessions, NEW spi \in SPIs, NEW ip \in Addresses \cup {None},
               NewChild(s, spi, ip)
        PROVE  IInv'
    BY <1>4, NewChildKeeps
  <1>5. ASSUME NEW w \in Workers, NEW s \in Sessions, InstallChildSA(w, s) PROVE IInv'
    BY <1>5, InstallChildKeeps
  <1>6. ASSUME NEW w \in Workers, installInbound(w) PROVE IInv'
    BY <1>6, InboundKeeps
  <1>7. ASSUME NEW w \in Workers, installOutbound(w) PROVE IInv'
    BY <1>7, OutboundKeeps
  <1>8. ASSUME NEW w \in Workers, installBind(w) PROVE IInv'
    BY <1>8, BindKeeps
  <1>9. ASSUME NEW spi \in SPIs, DeleteESP(spi) PROVE IInv'
    BY <1>9, DeleteESPKeeps
  <1>10. CASE Engine
    BY <1>10, EngineStepKeeps
  <1>11. CASE UNCHANGED vars
    <2>1. UNCHANGED <<smVars, install, late, raced, spd>> /\ bySPI' = bySPI
      BY <1>11 DEF vars, espVars
    <2>2. EspTypeOK'
      BY <1>11 DEF IInv, TypeOK, EspTypeOK, vars, espVars
    <2> QED
      BY <2>1, <2>2, EngineKeeps
  <1> QED
    BY <1>1, <1>2, <1>3, <1>4, <1>5, <1>6, <1>7, <1>8, <1>9, <1>10, <1>11 DEF Next

(***************************************************************************)
(* The inductive invariant of the manager and the tables it works on holds *)
(* in every reachable state.                                               *)
(***************************************************************************)
THEOREM ManagerInvariant == Spec => []IInv
  BY InitIInv, NextIInv, PTL DEF Spec

(***************************************************************************)
(* TypeOK: the tables of the manager and of the ESP engine name sessions   *)
(* and SAs that exist.                                                     *)
(***************************************************************************)
THEOREM ManagerTypes == Spec => []TypeOK
  <1>1. IInv => TypeOK
    BY DEF IInv
  <1> QED
    BY <1>1, ManagerInvariant, PTL

(***************************************************************************)
(* The identity table of RegisterV1Session, RegisterV2Session and          *)
(* evictSessionLocked is exact: it names every registered session that was *)
(* registered under an identity, and no other.                             *)
(***************************************************************************)
THEOREM IdentitiesExact == Spec => []IdentityMapExact
  <1>1. IInv => IdentityMapExact
    BY DEF IInv
  <1> QED
    BY <1>1, ManagerInvariant, PTL

(***************************************************************************)
(* evictSessionLocked clears all that a session has in the ESP engine and  *)
(* among the addresses, unless it was installed after its eviction.        *)
(***************************************************************************)
THEOREM EvictionIsComplete == Spec => []EvictionComplete
  <1>1. IInv => EvictionComplete
    BY DEF IInv
  <1> QED
    BY <1>1, ManagerInvariant, PTL

(***************************************************************************)
(* The routes of the ESP engine and the addresses that the manager has     *)
(* bound agree, whatever is installed, rebound and evicted, but for an     *)
(* address whose binding is in progress or was disturbed.                  *)
(***************************************************************************)
THEOREM RoutesFollowBindings == Spec => []RouteMatchesBinding
  <1>1. IInv => RouteMatchesBinding
    BY DEF IInv
  <1> QED
    BY <1>1, ManagerInvariant, PTL

(***************************************************************************)
(* The outbound loop takes no packet for a session that was evicted, since *)
(* the route it finds would have to be a binding of that session.          *)
(***************************************************************************)
THEOREM QuietOnceEvicted == Spec => QuietAfterEviction
  <1> DEFINE Quiet == \A s \in Sessions \ late :
                 (sess[s].state = "Deleting" /\ loop = NoSA /\ loop' = s)
                     => \E ip \in Addresses : spd[ip] = s /\ (ip \in raced \/ Window(ip) /= {})
  <1>1. ASSUME IInv, [Next]_vars PROVE [Quiet]_vars
    <2> USE NoneFacts
    <2> SUFFICES ASSUME Next, NEW s \in Sessions \ late,
                        sess[s].state = "Deleting", loop = NoSA, loop' = s
                 PROVE  \E ip \in Addresses : spd[ip] = s /\ (ip \in raced \/ Window(ip) /= {})
      BY <1>1
    <2>1. PICK dst \in Addresses \cup {None} : outboundLookup(dst)
      BY DEF Next, RegisterV1Session, RegisterV2Session, register, DeleteSession,
             evictSessionLocked, LearnPeerID, NewChild, InstallChildSA, installInbound,
             installOutbound, installBind, DeleteESP, Engine, SetDefaultOutboundSA,
             outboundSend, espVars, NoSA
    <2>2. defaultOutSA /= s
      BY <1>1 DEF IInv, TypeOK, EspTypeOK, NoSA
    <2>3. dst \in Addresses /\ spd[dst] = s
      BY <2>1, <2>2 DEF outboundLookup
    <2>4. assignedIPs[dst] /= s
      BY <1>1, <2>3 DEF IInv, EvictionComplete
    <2>5. dst \in raced \/ Window(dst) /= {}
      BY <1>1, <2>3, <2>4 DEF IInv, RouteMatchesBinding
    <2> QED
      BY <2>3, <2>5
  <1> QED
    BY <1>1, ManagerInvariant, PTL DEF Spec, QuietAfterEviction
=============================================================================
