--------------------------- MODULE PppLinkProofs ----------------------------
(***************************************************************************)
(* Authentication of a PPP session, for every user database, size of the   *)
(* identifiers and peer, with or without rules.                            *)
(*                                                                         *)
(* DataAuthenticated is not inductive: that a Response which verifies was  *)
(* computed on this session's challenge rests on the challenge having been *)
(* sent before the CHAP phase, and that a user name is never replaced on   *)
(* its being empty until that phase ends.                                  *)
(***************************************************************************)
EXTENDS PppLink, TLAPS

PhaseInv ==
    /\ pppPhase = "CHAP" => chap.challenge = "ours"
    /\ pppPhase \in {"LCP", "CHAP"} => username = ""

IInv == TypeOK /\ PhaseInv /\ DataAuthenticated

-----------------------------------------------------------------------------

\* The order of the phases.
LEMMA RankOf ==
    Rank("LCP") = 1 /\ Rank("CHAP") = 2 /\ Rank("IPCP") = 3 /\ Rank("Data") = 4
  BY DEF Rank, Phases

\* The four phases of a session.
LEMMA PhaseSet == {Phases[i] : i \in 1 .. 4} = {"LCP", "CHAP", "IPCP", "Data"}
  BY DEF Phases

\* An identifier stays one when it is counted on.
LEMMA NextIDType == \A id \in IDs : nextID(id) \in IDs
  BY IdSpaceAssumption, Z3 DEF IDs, nextID

\* Every change of the LCP handler's state is one of these.
LcpStates ==
    [state : {"Initial", "ReqSent", "Opened", "Closed"}, nextID : IDs,
     ourConfigAcked : BOOLEAN, peerConfigAcked : BOOLEAN]

\* The helpers of lcp.go return LCP states.
LEMMA LcpTypes ==
    ASSUME NEW l \in LcpStates
    PROVE  /\ Requested(l) \in LcpStates
           /\ checkOpened(l) \in LcpStates
           /\ checkOpened([l EXCEPT !.ourConfigAcked = TRUE]) \in LcpStates
           /\ checkOpened([l EXCEPT !.peerConfigAcked = TRUE]) \in LcpStates
           /\ [l EXCEPT !.state = "Closed"] \in LcpStates
           /\ [l EXCEPT !.nextID = nextID(@)] \in LcpStates
  BY NextIDType DEF LcpStates, Requested, checkOpened

-----------------------------------------------------------------------------

\* What a step may never do to the user and the phase of a session.
Settled ==
    /\ username # "" => username' = username
    /\ Rank(pppPhase') >= Rank(pppPhase)

\* The types do not depend on the replies.
LEMMA SameTypes ==
    ASSUME TypeOK, state' = state, ready' = ready, lcp' = lcp, chap' = chap, ipcp' = ipcp,
           pppPhase' = pppPhase, username' = username, proved' = proved
    PROVE  TypeOK'
  <1> USE DEF TypeOK
  <1>1. (state \in {"WaitConnect", "Established", "Closed"})' /\ (ready \in BOOLEAN)'
    OBVIOUS
  <1>2. (lcp \in [state : {"Initial", "ReqSent", "Opened", "Closed"}, nextID : IDs,
                   ourConfigAcked : BOOLEAN, peerConfigAcked : BOOLEAN])'
    OBVIOUS
  <1>3. (chap \in [challenge : {"none", "ours"}, authenticated : BOOLEAN])'
    OBVIOUS
  <1>4. (ipcp \in [nextID : IDs, ourConfigAcked : BOOLEAN, peerConfigAcked : BOOLEAN,
                    opened : BOOLEAN])'
    OBVIOUS
  <1>5. (pppPhase \in {Phases[i] : i \in 1 .. 4})'
    OBVIOUS
  <1> QED
    BY <1>1, <1>2, <1>3, <1>4, <1>5

\* A step that leaves phase, user and challenge alone settles nothing anew.
LEMMA SamePhase ==
    ASSUME IInv, TypeOK', UNCHANGED <<chap, pppPhase, username, proved>>
    PROVE  IInv' /\ Settled
  <1>1. pppPhase \in {"LCP", "CHAP", "IPCP", "Data"}
    BY PhaseSet DEF IInv, TypeOK
  <1>2. Rank(pppPhase) \in Nat
    BY <1>1, RankOf
  <1>3. Rank(pppPhase') >= Rank(pppPhase)
    BY <1>2
  <1> QED
    BY <1>3 DEF IInv, PhaseInv, DataAuthenticated, Settled

\* The end of every LCP frame, which may begin the CHAP phase.
LEMMA AfterLCPKeeps ==
    ASSUME IInv, NEW l \in LcpStates, NEW answer, AfterLCP(l, answer)
    PROVE  IInv' /\ Settled
  <1>1. TypeOK'
    BY PhaseSet DEF IInv, TypeOK, AfterLCP, LcpStates
  <1>2. CASE l.state = "Opened" /\ pppPhase = "LCP"
    <2>1. /\ pppPhase' = "CHAP" /\ chap'.challenge = "ours"
          /\ username' = username /\ proved' = proved
      BY <1>2 DEF AfterLCP, IInv, TypeOK
    <2>2. IInv'
      BY <1>1, <1>2, <2>1 DEF IInv, PhaseInv, DataAuthenticated
    <2>3. Rank(pppPhase) = 1 /\ Rank(pppPhase') = 2
      BY <1>2, <2>1, RankOf
    <2> QED
      BY <2>1, <2>2, <2>3 DEF Settled
  <1>3. CASE ~ (l.state = "Opened" /\ pppPhase = "LCP")
    BY <1>1, <1>3, SamePhase DEF AfterLCP
  <1> QED
    BY <1>2, <1>3

\* An LCP frame moves the session at most from LCP to CHAP.
LEMMA LCPKeeps ==
    ASSUME IInv, NEW f, handleLCP(f)
    PROVE  IInv' /\ Settled
  <1>1. lcp \in LcpStates
    BY DEF IInv, TypeOK, LcpStates
  <1>2. \E l \in LcpStates, answer \in {<<>>, <<Answer("LCP", f)>>,
                <<Frame("LCP", "TermReq", lcp.nextID, "")>>, <<lcpRequest(Requested(lcp))>>,
                <<Frame("LCP", "TermAck", f.id, "")>>, <<Frame("LCP", "EchoReply", f.id, "")>>} :
            AfterLCP(l, answer)
    BY <1>1, LcpTypes DEF handleLCP, lcpAck, lcpAskAgain, lcpAuthRejected
  <1> QED
    BY <1>2, AfterLCPKeeps

\* Success names the user who proved the password; Failure changes nothing.
LEMMA CHAPKeeps ==
    ASSUME IInv, NEW f, handleCHAP(f)
    PROVE  IInv' /\ Settled
  <1>1. CASE verifies(f)
    <2>1. /\ pppPhase = "CHAP" /\ pppPhase' = "IPCP"
          /\ f.user \in Users /\ f.chal = "ours"
          /\ username' = f.user /\ proved' = f.user
          /\ chap' = [chap EXCEPT !.authenticated = TRUE]
          /\ ipcp' = [ipcp EXCEPT !.nextID = nextID(@)]
          /\ state' = state /\ ready' = ready /\ lcp' = lcp
      BY <1>1 DEF handleCHAP, verifies, IInv, PhaseInv
    <2>2. f.user # ""
      BY <2>1, NamesAssumption
    <2>3. TypeOK'
      <3>1. ipcp' \in [nextID : IDs, ourConfigAcked : BOOLEAN, peerConfigAcked : BOOLEAN,
                       opened : BOOLEAN]
        BY <2>1, NextIDType DEF IInv, TypeOK
      <3>2. chap' \in [challenge : {"none", "ours"}, authenticated : BOOLEAN]
        BY <2>1 DEF IInv, TypeOK
      <3> QED
        BY <2>1, <3>1, <3>2, PhaseSet DEF IInv, TypeOK
    <2>4. IInv'
      BY <2>1, <2>2, <2>3 DEF IInv, PhaseInv, DataAuthenticated
    <2>5. Rank(pppPhase) = 2 /\ Rank(pppPhase') = 3
      BY <2>1, RankOf
    <2>6. username = ""
      BY <2>1 DEF IInv, PhaseInv
    <2>7. Rank(pppPhase') >= Rank(pppPhase)
      BY <2>5
    <2> QED
      BY <2>4, <2>6, <2>7 DEF Settled
  <1>2. CASE ~ verifies(f)
    <2>1. UNCHANGED <<state, ready, lcp, ipcp, chap, pppPhase, username, proved>>
      BY <1>2 DEF handleCHAP
    <2>2. TypeOK'
      BY <2>1, SameTypes DEF IInv
    <2> QED
      BY <2>1, <2>2, SamePhase
  <1> QED
    BY <1>1, <1>2

\* An IPCP frame moves the session at most from IPCP to Data.
LEMMA IPCPKeeps ==
    ASSUME IInv, NEW f, handleIPCP(f)
    PROVE  IInv' /\ Settled
  <1>1. ipcpHandled(f) \in [nextID : IDs, ourConfigAcked : BOOLEAN, peerConfigAcked : BOOLEAN,
                            opened : BOOLEAN]
    BY NextIDType DEF ipcpHandled, ipcpChecked, IInv, TypeOK
  <1>2. TypeOK'
    <2>1. pppPhase' \in {Phases[i] : i \in 1 .. 4}
      BY PhaseSet DEF handleIPCP
    <2>2. /\ ipcp' = ipcpHandled(f) /\ state' = state /\ ready' = ready /\ lcp' = lcp
          /\ chap' = chap /\ username' = username /\ proved' = proved
      BY DEF handleIPCP
    <2>3. TypeOK
      BY DEF IInv
    <2>4. (state \in {"WaitConnect", "Established", "Closed"} /\ ready \in BOOLEAN)'
      BY <2>2, <2>3 DEF TypeOK
    <2>5. (lcp \in LcpStates)'
      BY <2>2, <2>3 DEF TypeOK, LcpStates
    <2>6. (chap \in [challenge : {"none", "ours"}, authenticated : BOOLEAN])'
      BY <2>2, <2>3 DEF TypeOK
    <2>7. (username \in Users \cup {""} /\ proved \in Users \cup {""})'
      BY <2>2, <2>3 DEF TypeOK
    <2> QED
      BY <1>1, <2>1, <2>2, <2>4, <2>5, <2>6, <2>7 DEF TypeOK, LcpStates
  <1>3. /\ pppPhase = "IPCP" /\ pppPhase' \in {"IPCP", "Data"}
        /\ username' = username /\ proved' = proved
    BY DEF handleIPCP
  <1>4. IInv'
    BY <1>2, <1>3 DEF IInv, PhaseInv, DataAuthenticated
  <1>5. Rank(pppPhase) = 3 /\ Rank(pppPhase') \in {3, 4}
    BY <1>3, RankOf
  <1> QED
    BY <1>3, <1>4, <1>5 DEF Settled

\* Any frame at all, well formed or not.
LEMMA HandleDataKeeps ==
    ASSUME IInv, NEW f, HandleData(f)
    PROVE  IInv' /\ Settled
  <1>1. CASE drop(f) \/ handleIPv4
    BY <1>1, SamePhase DEF drop, handleIPv4, IInv, TypeOK
  <1>2. CASE protocolReject
    <2>0. lcp \in LcpStates
      BY DEF IInv, TypeOK, LcpStates
    <2>1. lcp' \in LcpStates
      BY <1>2, <2>0, LcpTypes DEF protocolReject
    <2>2. TypeOK'
      BY <1>2, <2>1 DEF protocolReject, IInv, TypeOK, LcpStates
    <2> QED
      BY <1>2, <2>2, SamePhase DEF protocolReject
  <1> QED
    BY <1>1, <1>2, LCPKeeps, CHAPKeeps, IPCPKeeps DEF HandleData

\* Opening and closing a session authenticate nobody.
LEMMA StartKeeps ==
    ASSUME IInv, handleICCN \/ InitPPP \/ close
    PROVE  IInv' /\ Settled
  <1>0. lcp \in LcpStates
    BY DEF IInv, TypeOK, LcpStates
  <1>1. lcp' \in LcpStates
    BY <1>0, LcpTypes DEF handleICCN, InitPPP, close
  <1>2. TypeOK' /\ UNCHANGED <<chap, pppPhase, username, proved>>
    BY <1>1 DEF handleICCN, InitPPP, close, IInv, TypeOK, LcpStates
  <1> QED
    BY <1>2, SamePhase

\* Whatever the peer is, the server takes a step of its own or none.
LEMMA LinkStep ==
    ASSUME IInv, [LinkNext]_allVars
    PROVE  IInv' /\ [Settled]_vars
  <1>1. CASE UNCHANGED vars
    <2>1. TypeOK' /\ UNCHANGED <<chap, pppPhase, username, proved>>
      BY <1>1, SameTypes DEF vars, IInv
    <2> QED
      BY <1>1, <2>1, SamePhase
  <1>2. CASE Next
    BY <1>2, HandleDataKeeps, StartKeeps DEF Next
  <1>3. CASE ServerStarts
    BY <1>3, StartKeeps DEF ServerStarts
  <1>4. CASE ServerReceives
    BY <1>4, HandleDataKeeps DEF ServerReceives
  <1>5. CASE PeerBegins \/ PeerSendsCCP \/ PeerReceives \/ PeerSendsIP
    BY <1>5, <1>1 DEF PeerBegins, PeerSendsCCP, PeerReceives, PeerSendsIP
  <1> QED
    BY <1>1, <1>2, <1>3, <1>4, <1>5 DEF LinkNext, RuledStep, AnyFrame, allVars

\* A new session is in LCP with nobody authenticated.
LEMMA InitIInv == LinkInit => IInv
  <1> SUFFICES ASSUME LinkInit PROVE IInv
    OBVIOUS
  <1>1. 0 \in IDs
    BY IdSpaceAssumption DEF IDs
  <1>2. TypeOK
    BY <1>1, PhaseSet DEF LinkInit, Init, TypeOK
  <1> QED
    BY <1>2 DEF LinkInit, Init, IInv, PhaseInv, DataAuthenticated

-----------------------------------------------------------------------------

(***************************************************************************)
(* The inductive invariant holds with every peer.                          *)
(***************************************************************************)
THEOREM SessionInvariant == LinkSpec => []IInv
  BY InitIInv, LinkStep, PTL DEF LinkSpec

(***************************************************************************)
(* The types of the session, with every peer and for frames of every form. *)
(***************************************************************************)
THEOREM SessionTypes == LinkSpec => []TypeOK
  <1>1. IInv => TypeOK
    BY DEF IInv
  <1> QED
    BY <1>1, SessionInvariant, PTL

(***************************************************************************)
(* No address is negotiated and nothing forwarded (handleIPCP, handleIPv4) *)
(* before the peer has proved, on this session's challenge, to know the    *)
(* password of the user the session is taken for.                          *)
(***************************************************************************)
THEOREM DataIsAuthenticated == LinkSpec => []DataAuthenticated
  <1>1. IInv => DataAuthenticated
    BY DEF IInv
  <1> QED
    BY <1>1, SessionInvariant, PTL

(***************************************************************************)
(* No frame changes the user of a session once it has one, or takes the    *)
(* session back to an earlier phase (handleCHAP, handleLCP).               *)
(***************************************************************************)
THEOREM IdentityIsSettled == LinkSpec => IdentitySettled
  <1>1. IInv /\ [LinkNext]_allVars
        => [/\ username # "" => username' = username
            /\ Rank(pppPhase') >= Rank(pppPhase)]_vars
    BY LinkStep DEF Settled
  <1> QED
    BY <1>1, SessionInvariant, PTL DEF LinkSpec, IdentitySettled
=============================================================================
