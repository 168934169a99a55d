----------------------------- MODULE PppSession -----------------------------
(***************************************************************************)
(* The PPP side of one L2TP session, from InitPPP to the forwarding of IP  *)
(* packets (internal/l2tp/session.go HandleData and its handlers, lcp.go,  *)
(* chap.go, ipcp.go).                                                      *)
(*                                                                         *)
(* HandleData holds the session's mutex for a whole frame: an incoming     *)
(* frame is one step.  The options of a Configure-Request are reduced to   *)
(* what decides the answer: "rej" if one is unknown or too short, else     *)
(* "nak" if one has an unacceptable value, else "ok" (no option at all is  *)
(* "ok").  A CHAP Response is reduced to the user it names, whether it was *)
(* computed from that user's password ("good") and the challenge it        *)
(* answers; MD5 is taken to be free of collisions.                         *)
(***************************************************************************)
EXTENDS Integers, Sequences

CONSTANTS
    Users,       \* names in the user database
    Strangers,   \* names that are not
    IdSpace      \* size of a PPP identifier: 256

ASSUME IdSpaceAssumption == IdSpace \in Nat /\ IdSpace > 1
ASSUME NamesAssumption == Users \cap Strangers = {} /\ "" \notin Users \cup Strangers

VARIABLES
    state,      \* s.state
    ready,      \* InitPPP has made the three handlers
    lcp,        \* s.lcpHandler: state, nextID, ourConfigAcked, peerConfigAcked
    chap,       \* s.chapHandler: challenge, authenticated
    ipcp,       \* s.ipcpHandler: nextID, ourConfigAcked, peerConfigAcked, opened
    pppPhase,   \* s.pppPhase
    username,   \* s.username
    replies,    \* the frames that the last step sent to the peer
    proved      \* history: the user whose password the peer has proved to know

vars == <<state, ready, lcp, chap, ipcp, pppPhase, username, replies, proved>>

IDs    == 0 .. IdSpace - 1
Phases == <<"LCP", "CHAP", "IPCP", "Data">>
Rank(phase) == CHOOSE i \in 1 .. 4 : Phases[i] = phase

(***************************************************************************)
(* chal of a CHAP frame: "ours" for the challenge of this session, "old"   *)
(* for one the peer has seen elsewhere.                                    *)
(***************************************************************************)
Frame(proto, code, id, arg) ==
    [proto |-> proto, code |-> code, id |-> id, arg |-> arg, user |-> "", chal |-> "none"]
Response(id, user, secret, chal) ==
    [proto |-> "CHAP", code |-> "Response", id |-> id, arg |-> secret,
     user |-> user, chal |-> chal]

\* Every frame the handlers tell apart.
Frames ==
    {Frame(proto, "ConfReq", 0, arg) : proto \in {"LCP", "IPCP"}, arg \in {"ok", "nak", "rej"}}
    \cup {Frame(proto, "ConfAck", id, "") : proto \in {"LCP", "IPCP"}, id \in IDs}
    \cup {Frame(proto, "ConfNak", 0, "") : proto \in {"LCP", "IPCP"}}
    \cup {Frame("LCP", "ConfRej", 0, arg) : arg \in {"auth", "other"}}
    \cup {Frame("IPCP", "ConfRej", 0, "")}
    \cup {Frame("LCP", "TermReq", 0, ""), Frame("LCP", "EchoReq", 0, "")}
    \cup {Response(0, user, secret, chal) : user \in Users \cup Strangers,
                secret \in {"good", "bad"}, chal \in {"ours", "old"}}
    \cup {Frame("CCP", "ConfReq", 0, ""), Frame("IPv4", "packet", 0, "")}

TypeOK ==
    /\ state \in {"WaitConnect", "Established", "Closed"}
    /\ ready \in BOOLEAN
    /\ lcp \in [state : {"Initial", "ReqSent", "Opened", "Closed"}, nextID : IDs,
                ourConfigAcked : BOOLEAN, peerConfigAcked : BOOLEAN]
    /\ chap \in [challenge : {"none", "ours"}, authenticated : BOOLEAN]
    /\ ipcp \in [nextID : IDs, ourConfigAcked : BOOLEAN, peerConfigAcked : BOOLEAN,
                 opened : BOOLEAN]
    /\ pppPhase \in {Phases[i] : i \in 1 .. 4}
    /\ username \in Users \cup {""}
    /\ proved \in Users \cup {""}

Init ==
    /\ state = "WaitConnect"
    /\ ready = FALSE
    /\ lcp = [state |-> "Initial", nextID |-> 0,
              ourConfigAcked |-> FALSE, peerConfigAcked |-> FALSE]
    /\ chap = [challenge |-> "none", authenticated |-> FALSE]
    /\ ipcp = [nextID |-> 0, ourConfigAcked |-> FALSE, peerConfigAcked |-> FALSE,
               opened |-> FALSE]
    /\ pppPhase = "LCP"
    /\ username = ""
    /\ replies = <<>>
    /\ proved = ""
-----------------------------------------------------------------------------
\* Mutant of nextID: the identifier is not cut to a byte.
nextIDWide(id) == id + 1

nextID(id) == (id + 1) % IdSpace

\* Answer to a Configure-Request: reject before nak before ack.
Answer(proto, f) ==
    Frame(proto, [ok |-> "ConfAck", nak |-> "ConfNak", rej |-> "ConfRej"][f.arg], f.id, "")

\* LCP's BuildConfigureRequest: a new identifier, and Initial becomes ReqSent.
Requested(l) ==
    [l EXCEPT !.nextID = nextID(@),
              !.state = IF @ = "Initial" THEN "ReqSent" ELSE @]

lcpRequest(l) == Frame("LCP", "ConfReq", l.nextID, "")

\* checkOpened: both directions acknowledged, whatever the state was before.
checkOpened(l) ==
    IF l.ourConfigAcked /\ l.peerConfigAcked THEN [l EXCEPT !.state = "Opened"] ELSE l
-----------------------------------------------------------------------------
handleICCN ==
    /\ state = "WaitConnect"
    /\ state' = "Established"
    /\ replies' = <<>>
    /\ UNCHANGED <<ready, lcp, chap, ipcp, pppPhase, username, proved>>

\* InitPPP is called once, after the ICCN; it does not look at the state.
InitPPP ==
    /\ state # "WaitConnect" /\ ~ ready
    /\ ready' = TRUE
    /\ lcp' = Requested(lcp)
    /\ replies' = <<lcpRequest(lcp')>>
    /\ UNCHANGED <<state, chap, ipcp, pppPhase, username, proved>>

(***************************************************************************)
(* handleLCP: once LCP is open for the first time, the CHAP Challenge goes *)
(* out behind the answer.  It is given the handler's new state and its     *)
(* answer (a sequence of at most one frame).                               *)
(***************************************************************************)
AfterLCP(l, answer) ==
    /\ lcp' = l
    /\ IF l.state = "Opened" /\ pppPhase = "LCP"
       THEN /\ pppPhase' = "CHAP"
            /\ chap' = [chap EXCEPT !.challenge = "ours"]
            /\ replies' = Append(answer, Frame("CHAP", "Challenge", 1, ""))
       ELSE /\ UNCHANGED <<pppPhase, chap>>
            /\ replies' = answer
    /\ UNCHANGED <<state, ready, ipcp, username, proved>>

\* handleConfigureAck: ignored unless it has the last identifier used.
lcpAck(f) ==
    AfterLCP(IF f.id # lcp.nextID THEN lcp
             ELSE checkOpened([lcp EXCEPT !.ourConfigAcked = TRUE]), <<>>)

\* handleConfigureReject when the peer refuses to authenticate: Terminate-Request.
lcpAuthRejected ==
    AfterLCP([lcp EXCEPT !.state = "Closed"],
             <<Frame("LCP", "TermReq", lcp.nextID, "")>>)

\* Mutant of lcpAskAgain: the new Configure-Request is not sent.
lcpAskAgainSilent == AfterLCP(Requested(lcp), <<>>)

\* handleConfigureNak and the rest of handleConfigureReject: ask again, for the same options.
lcpAskAgain == AfterLCP(Requested(lcp), <<lcpRequest(Requested(lcp))>>)

handleLCP(f) ==
    /\ ready
    /\ \/ /\ f.code = "ConfReq"
          /\ AfterLCP(IF f.arg # "ok" THEN lcp
                      ELSE checkOpened([lcp EXCEPT !.peerConfigAcked = TRUE]),
                      <<Answer("LCP", f)>>)
       \/ f.code = "ConfAck" /\ lcpAck(f)
       \/ f.code = "ConfNak" /\ lcpAskAgain
       \/ f.code = "ConfRej" /\ f.arg = "other" /\ lcpAskAgain
       \/ f.code = "ConfRej" /\ f.arg = "auth" /\ lcpAuthRejected
       \/ /\ f.code = "TermReq"
          /\ AfterLCP([lcp EXCEPT !.state = "Closed"],
                      <<Frame("LCP", "TermAck", f.id, "")>>)
       \/ f.code = "EchoReq" /\ AfterLCP(lcp, <<Frame("LCP", "EchoReply", f.id, "")>>)

\* Mutant of verifies: the challenge is not part of what is compared.
verifiesAnyChallenge(f) == f.user \in Users /\ f.arg = "good"

\* handleResponse: a known user, MD5(id, password, challenge); the id is the frame's own.
verifies(f) == f.user \in Users /\ f.arg = "good" /\ f.chal = chap.challenge

\* Mutant of handleCHAP: a Response is taken in every phase.
handleCHAPAnyPhase(f) ==
    /\ ready
    /\ IF verifies(f)
       THEN /\ chap' = [chap EXCEPT !.authenticated = TRUE]
            /\ username' = f.user
            /\ pppPhase' = "IPCP"
            /\ ipcp' = [ipcp EXCEPT !.nextID = nextID(@)]
            /\ replies' = <<Frame("CHAP", "Success", f.id, ""),
                            Frame("IPCP", "ConfReq", ipcp'.nextID, "")>>
            /\ proved' = f.user
       ELSE /\ replies' = <<Frame("CHAP", "Failure", f.id, "")>>
            /\ UNCHANGED <<chap, username, pppPhase, ipcp, proved>>
    /\ UNCHANGED <<state, ready, lcp>>

(***************************************************************************)
(* handleCHAP: a Success moves on to IPCP and sends our Configure-Request, *)
(* a Failure is sent and nothing else changes.                             *)
(***************************************************************************)
handleCHAP(f) ==
    /\ ready
    /\ pppPhase = "CHAP"
    /\ IF verifies(f)
       THEN /\ chap' = [chap EXCEPT !.authenticated = TRUE]
            /\ username' = f.user
            /\ pppPhase' = "IPCP"
            /\ ipcp' = [ipcp EXCEPT !.nextID = nextID(@)]
            /\ replies' = <<Frame("CHAP", "Success", f.id, ""),
                            Frame("IPCP", "ConfReq", ipcp'.nextID, "")>>
            /\ proved' = IF f.chal = "ours" THEN f.user ELSE proved
       ELSE /\ replies' = <<Frame("CHAP", "Failure", f.id, "")>>
            /\ UNCHANGED <<chap, username, pppPhase, ipcp, proved>>
    /\ UNCHANGED <<state, ready, lcp>>

\* Both directions acknowledged: IPCP is open.
ipcpChecked(i) == [i EXCEPT !.opened = @ \/ (i.ourConfigAcked /\ i.peerConfigAcked)]

\* What IPCP's Handle makes of its state, and its answer.
ipcpHandled(f) ==
    CASE f.code = "ConfReq" /\ f.arg = "ok" ->
            ipcpChecked([ipcp EXCEPT !.peerConfigAcked = TRUE])
      [] f.code = "ConfAck" /\ f.id = ipcp.nextID ->
            ipcpChecked([ipcp EXCEPT !.ourConfigAcked = TRUE])
      [] f.code = "ConfNak" -> [ipcp EXCEPT !.nextID = nextID(@)]
      [] OTHER -> ipcp

ipcpAnswer(f) ==
    CASE f.code = "ConfReq" -> <<Answer("IPCP", f)>>
      [] f.code = "ConfNak" -> <<Frame("IPCP", "ConfReq", nextID(ipcp.nextID), "")>>
      [] OTHER -> <<>>

handleIPCP(f) ==
    /\ ready
    /\ pppPhase = "IPCP"
    /\ ipcp' = ipcpHandled(f)
    /\ pppPhase' = IF ipcp'.opened THEN "Data" ELSE pppPhase
    /\ replies' = ipcpAnswer(f)
    /\ UNCHANGED <<state, ready, lcp, chap, username, proved>>

\* handleIPv4: forwarded to the TUN device in the data phase only.
handleIPv4 ==
    /\ pppPhase = "Data"
    /\ replies' = <<>>
    /\ UNCHANGED <<state, ready, lcp, chap, ipcp, pppPhase, username, proved>>

\* BuildProtocolReject for PAP, CCP, IPv6CP and what is unknown: it takes an LCP identifier.
protocolReject ==
    /\ ready
    /\ lcp' = [lcp EXCEPT !.nextID = nextID(@)]
    /\ replies' = <<Frame("LCP", "ProtRej", lcp'.nextID, "")>>
    /\ UNCHANGED <<state, ready, chap, ipcp, pppPhase, username, proved>>

\* A frame before InitPPP, or in a phase that has no use for it, is dropped.
drop(f) ==
    /\ \/ ~ ready
       \/ f.proto = "CHAP" /\ pppPhase # "CHAP"
       \/ f.proto = "IPCP" /\ pppPhase # "IPCP"
       \/ f.proto = "IPv4" /\ pppPhase # "Data"
    /\ replies' = <<>>
    /\ UNCHANGED <<state, ready, lcp, chap, ipcp, pppPhase, username, proved>>

HandleData(f) ==
    /\ state = "Established"
    /\ \/ drop(f)
       \/ f.proto = "LCP" /\ handleLCP(f)
       \/ f.proto = "CHAP" /\ handleCHAP(f)
       \/ f.proto = "IPCP" /\ handleIPCP(f)
       \/ f.proto = "IPv4" /\ handleIPv4
       \/ f.proto = "CCP" /\ protocolReject

\* The tunnel or the session goes down.
close ==
    /\ state # "Closed"
    /\ state' = "Closed"
    /\ replies' = <<>>
    /\ UNCHANGED <<ready, lcp, chap, ipcp, pppPhase, username, proved>>

Next == handleICCN \/ InitPPP \/ (\E f \in Frames : HandleData(f)) \/ close

Spec == Init /\ [][Next]_vars
-----------------------------------------------------------------------------
(***************************************************************************)
(* Nothing is forwarded for a peer, and no address negotiated with it,     *)
(* before it has proved in this session, on this session's challenge, that *)
(* it knows the password of the user it is taken for: whatever the order   *)
(* in which LCP, CHAP and IPCP frames arrive (handleCHAP, handleIPCP).     *)
(***************************************************************************)
DataAuthenticated ==
    pppPhase \in {"IPCP", "Data"} => username # "" /\ username = proved

(***************************************************************************)
(* The identity and the phase are settled once: no later frame, not even   *)
(* LCP starting over, changes the user of a session or takes it back to an *)
(* earlier phase (handleCHAP, handleLCP).                                  *)
(***************************************************************************)
IdentitySettled ==
    [][/\ username # "" => username' = username
       /\ Rank(pppPhase') >= Rank(pppPhase)]_vars
=============================================================================
