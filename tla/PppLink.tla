------------------------------ MODULE PppLink ------------------------------
(***************************************************************************)
(* A session of the server (PppSession) and its peer.  A peer that does    *)
(* not follow the rules sends any frame at any time.  One that follows RFC *)
(* 1661, 1994 and 1332 does so over a link that keeps the order and loses  *)
(* nothing; it is external, modelled from what the server's code expects   *)
(* of it.  It knows the password, may begin with options the server        *)
(* refuses, asks for other values of ours (Configure-Nak) up to            *)
(* MaxRefusals times, and repeats a request of its own that is not         *)
(* answered.  An option of ours that it does not know, it rejects in every *)
(* request (RFC 1661, 5.4).  CCP starts once it is authenticated; one CCP  *)
(* request may also come before, as the server has to expect.              *)
(***************************************************************************)
EXTENDS PppSession

CONSTANT
    MaxRefusals     \* assumed: how often the peer asks for another value of an option

ASSUME MaxRefusalsAssumption == MaxRefusals \in Nat

VARIABLES
    follows,            \* whether the peer follows the rules
    toServer, toPeer,   \* frames on the way
    refusals,           \* Configure-Naks the peer has left
    rejects,            \* how it rejects an option it does not know: {} or {frame}
    early,              \* a CCP request before authentication may still come
    request,            \* the peer's request that waits for an Ack: {} or {frame}
    stage,              \* of the peer: "start", "lcp", "ncp" (authenticated)
    crossed             \* history: our last LCP request was crossed by a CCP request

peerVars == <<refusals, rejects, early, request, stage>>
linkVars == <<follows, toServer, toPeer, peerVars, crossed>>
allVars  == <<vars, linkVars>>

Rejections ==
    {Frame("LCP", "ConfRej", 0, "auth"), Frame("LCP", "ConfRej", 0, "other"),
     Frame("IPCP", "ConfRej", 0, "")}

LinkInit ==
    /\ Init
    /\ follows \in BOOLEAN
    /\ toServer = <<>> /\ toPeer = <<>>
    /\ refusals = MaxRefusals
    /\ rejects \in {{}} \cup {{f} : f \in Rejections}
    /\ early = TRUE
    /\ request = {}
    /\ stage = "start"
    /\ crossed = FALSE

\* The server calls SendData for what a step of the session returns.
Sent == toPeer' = toPeer \o replies'

ServerStarts ==
    /\ handleICCN \/ InitPPP
    /\ Sent
    /\ UNCHANGED <<follows, toServer, peerVars, crossed>>

(***************************************************************************)
(* Protocol-Reject takes the identifier behind that of a request whose Ack *)
(* has not arrived: until another request is sent, that Ack is ignored.    *)
(***************************************************************************)
crosses(f) == f.proto = "CCP" /\ ready /\ ~ lcp.ourConfigAcked
asksAgain  == \E i \in DOMAIN replies' : replies'[i] = lcpRequest(lcp')

ServerReceives ==
    /\ toServer # <<>>
    /\ HandleData(Head(toServer))
    /\ toServer' = Tail(toServer)
    /\ Sent
    /\ crossed' = (crosses(Head(toServer)) \/ (crossed /\ ~ asksAgain))
    /\ UNCHANGED <<follows, peerVars>>

PeerSends(f) ==
    /\ toServer' = Append(toServer, f)
    /\ request' = {f}

\* The peer begins with LCP, or repeats a request when the link has gone quiet.
PeerBegins ==
    /\ state = "Established" /\ toServer = <<>> /\ toPeer = <<>>
    /\ \/ stage = "start" /\ stage' = "lcp"
          /\ \E arg \in {"ok", "nak", "rej"} : PeerSends(Frame("LCP", "ConfReq", 0, arg))
       \/ (\E f \in request : PeerSends(f)) /\ UNCHANGED stage
    /\ UNCHANGED <<vars, follows, toPeer, refusals, rejects, early, crossed>>

\* The CCP request that does not wait for the authentication.
PeerSendsCCP ==
    /\ state = "Established" /\ stage # "ncp" /\ early
    /\ early' = FALSE
    /\ toServer' = Append(toServer, Frame("CCP", "ConfReq", 0, ""))
    /\ UNCHANGED <<vars, follows, toPeer, refusals, rejects, request, stage, crossed>>

\* The peer answers our Configure-Request: Reject before Nak before Ack.
PeerAnswers(f) ==
    /\ f.code = "ConfReq"
    /\ \/ \E r \in rejects : r.proto = f.proto /\ toServer' = Append(toServer, r)
             /\ UNCHANGED refusals
       \/ /\ \A r \in rejects : r.proto # f.proto
          /\ \/ /\ refusals > 0
                /\ refusals' = refusals - 1
                /\ toServer' = Append(toServer, Frame(f.proto, "ConfNak", 0, ""))
             \/ /\ toServer' = Append(toServer, Frame(f.proto, "ConfAck", f.id, ""))
                /\ UNCHANGED refusals
    /\ UNCHANGED <<request, stage>>

\* Our answer to the peer's request: done, or a request the server will accept.
PeerAnswered(f) ==
    /\ f.proto \in {"LCP", "IPCP"}
    /\ \/ f.code = "ConfAck" /\ request' = {} /\ UNCHANGED toServer
       \/ f.code \in {"ConfNak", "ConfRej"} /\ PeerSends(Frame(f.proto, "ConfReq", 0, "ok"))
    /\ UNCHANGED <<refusals, stage>>

PeerAuthenticates(f) ==
    /\ f.proto = "CHAP" /\ f.code = "Challenge"
    /\ \E user \in Users : toServer' = Append(toServer, Response(f.id, user, "good", "ours"))
    /\ UNCHANGED <<refusals, request, stage>>

\* Success: the network protocols start, CCP with them.
PeerStartsNCP(f) ==
    /\ f.proto = "CHAP" /\ f.code = "Success"
    /\ \E arg \in {"ok", "nak", "rej"} :
          LET req == Frame("IPCP", "ConfReq", 0, arg) IN
          /\ request' = {req}
          /\ toServer' = toServer \o <<Frame("CCP", "ConfReq", 0, ""), req>>
    /\ stage' = "ncp"
    /\ UNCHANGED refusals

PeerIgnores(f) ==
    /\ f.code \in {"ProtRej", "EchoReply", "TermReq"}
    /\ UNCHANGED <<toServer, refusals, request, stage>>

PeerReceives ==
    /\ toPeer # <<>>
    /\ toPeer' = Tail(toPeer)
    /\ LET f == Head(toPeer) IN
          \/ PeerAnswers(f) \/ PeerAnswered(f) \/ PeerAuthenticates(f)
          \/ PeerStartsNCP(f) \/ PeerIgnores(f)
    /\ UNCHANGED <<vars, follows, rejects, early, crossed>>

\* Once IPCP is open the peer sends IP packets.
PeerSendsIP ==
    /\ stage = "ncp" /\ request = {} /\ toServer = <<>> /\ toPeer = <<>>
    /\ toServer' = <<Frame("IPv4", "packet", 0, "")>>
    /\ UNCHANGED <<vars, follows, toPeer, peerVars, crossed>>

\* With a peer that follows no rules any step of the session may come next.
AnyFrame == Next /\ UNCHANGED linkVars

RuledStep ==
    \/ ServerStarts \/ ServerReceives
    \/ PeerBegins \/ PeerSendsCCP \/ PeerReceives \/ PeerSendsIP

LinkNext ==
    \/ ~ follows /\ AnyFrame
    \/ follows /\ RuledStep

(***************************************************************************)
(* The read loop handles what arrives, routeControlMessage calls InitPPP   *)
(* after the ICCN, and the peer is alive.                                  *)
(***************************************************************************)
LinkSpec ==
    /\ LinkInit /\ [][LinkNext]_allVars
    /\ WF_allVars(follows /\ ServerStarts) /\ WF_allVars(follows /\ ServerReceives)
    /\ WF_allVars(follows /\ PeerBegins) /\ WF_allVars(follows /\ PeerReceives)
-----------------------------------------------------------------------------
(***************************************************************************)
(* With a peer that plays by the rules PPP comes up: whatever values are   *)
(* asked for on either side and in whatever order the two directions       *)
(* complete, the session reaches the data phase (HandleData and the three  *)
(* handlers), with exactly two exceptions.  The peer does not know an      *)
(* option of ours: LCP sends it again for ever (handleConfigureReject), or *)
(* ends for want of authentication, and IPCP drops the rejection.  Or a    *)
(* CCP request arrives while our last LCP request is unanswered: its Ack   *)
(* is then taken for an old one (BuildProtocolReject) and nothing follows. *)
(***************************************************************************)
LinkComesUp ==
    follows => /\ rejects = {} => <>(pppPhase = "Data") \/ <>[]crossed
               /\ rejects # {} \/ <>[]crossed => [](pppPhase # "Data")
=============================================================================
