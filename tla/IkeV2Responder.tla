--------------------------- MODULE IkeV2Responder ---------------------------
(***************************************************************************)
(* The IKEv2 responder (internal/ike: server.go, ikev2_init.go,            *)
(* ikev2_auth.go, ikev2_eap_auth.go) as the messages of one client drive   *)
(* it.  The two read loops (UDP 500 and 4500) handle packets at the same   *)
(* time: a loop parses the packet, looks the session up and reads its      *)
(* state without the session's mutex to choose a handler; the handler then *)
(* runs under the mutex, in a step of its own.                             *)
(*                                                                         *)
(* Sessions are numbered in the order they are made, and the number stands *)
(* for the SPI pair, the nonces and the keys of the session: a message     *)
(* sealed for session n can be opened by its two ends only.  An attempt of *)
(* the client is its SPI, nonce and key exchange value.                    *)
(***************************************************************************)
EXTENDS IkeProposal, FiniteSets

CONSTANTS
    Loops,      \* the read loops
    PSKs,       \* the identities getConnPSK knows, with their keys
    Passwords,  \* the users getEAPCredentials knows, with their passwords
    Configs,    \* [cookieMode, eap]: what NewIKEv2Handler is given
    SAPayloads  \* the SA payloads that clients send

ASSUME SAPayloadsAssumption ==
    \A sa \in SAPayloads : Len(sa) \in Nat /\ DOMAIN sa = 1 .. Len(sa)

VARIABLES
    config,     \* the configuration of this behaviour
    sessions,   \* the session objects, in the order they were made
    v2Sessions, \* the session manager's table
    epoch,      \* how often the daemon was started: the cookie secret
    loops,      \* what each read loop has in hand
    net,        \* requests in flight
    replies     \* responses in flight

serverVars == <<config, sessions, v2Sessions, epoch, loops>>

(***************************************************************************)
(* A secret is a pre-shared key or the MSK that MSCHAPv2 derives from a    *)
(* password and the challenge it answers.  AUTH data is a proof of one,    *)
(* bound to the session and to the identity of the peer.                   *)
(***************************************************************************)
Secret(kind, key, chal) == [kind |-> kind, key |-> key, chal |-> chal]
NoSecret == Secret("none", "", 0)
Auth(method, secret, n, id) == [method |-> method, secret |-> secret, n |-> n, id |-> id]
NoAuth == Auth("none", NoSecret, 0, "")

NoEAP == [type |-> "none", user |-> "", key |-> "", chal |-> 0]
NoCookie == [epoch |-> 0, attempt |-> 0]

IKEv2States == {"InitRecv", "EAPInProgress", "EAPDone", "Established"}

\* The IKEv2Session that HandleSAInit makes.
IKEv2Session(attempt, suite) ==
    [state |-> "InitRecv", attempt |-> attempt, suite |-> suite, peerID |-> "",
     psk |-> NoSecret, pending |-> <<>>, eapState |-> NoEAP, nt |-> FALSE,
     msk |-> NoSecret, children |-> <<>>]

\* A response; the fields that its kind has no use for keep their default.
Reply(kind, attempt, n, mid) ==
    [kind |-> kind, attempt |-> attempt, n |-> n, mid |-> mid, group |-> "",
     cookie |-> NoCookie, chal |-> 0, secret |-> NoSecret, suite |-> <<>>]
Silent == Reply("silent", 0, 0, 0)

-----------------------------------------------------------------------------

(***************************************************************************)
(* ParsePayloadChain follows the next-payload fields to the end of the     *)
(* datagram.  That of an encrypted payload names the first payload inside  *)
(* it, so the chain of an encrypted message framed by the RFC ("rfc") is   *)
(* found truncated.  The handlers then start the inner chain with the type *)
(* in the header, which is SK, so that the first payload inside is passed  *)
(* over.  "own" is the framing that gets through both: the field left at   *)
(* zero, and a payload nobody needs before the others.                     *)
(***************************************************************************)
ParseMessage(msg) == msg.exchange = "SA_INIT" \/ msg.framing = "own"

(***************************************************************************)
(* What an SA payload leads to: the transforms selected, none if there is  *)
(* no proposal to choose.                                                  *)
(***************************************************************************)
negotiate(ours, theirs) ==
    LET choice == SelectProposal(ours, theirs)
    IN  IF choice = NoChoice THEN <<>> ELSE selected(ours[choice.ours], theirs[choice.theirs])
ikeSuite == [sa \in SAPayloads |-> negotiate(DefaultIKEProposals, sa)]
espSuite == [sa \in SAPayloads \cup {<<>>} |-> negotiate(DefaultESPProposals, sa)]

(***************************************************************************)
(* HandleSAInit: the response and the session made, if any.                *)
(***************************************************************************)
VerifySAInitCookie(msg) == msg.cookie = [epoch |-> epoch, attempt |-> msg.attempt]

buildSAInitErrorEcho(msg, kind, group) ==
    [Reply(kind, msg.attempt, 0, 0) EXCEPT
        !.group = IF kind = "INVALID_KE_PAYLOAD" THEN msg.group ELSE ""]
buildSAInitError(msg, kind, group) == [Reply(kind, msg.attempt, 0, 0) EXCEPT !.group = group]
buildCookieResponse(msg) ==
    [Reply("COOKIE", msg.attempt, 0, 0) EXCEPT !.cookie = [epoch |-> epoch, attempt |-> msg.attempt]]

HandleSAInit(msg) ==
    LET suite == ikeSuite[msg.sa]
        n     == Len(sessions) + 1
        refuse(reply) == [made |-> <<>>, reply |-> reply]
    IN  IF ~msg.complete
        THEN refuse(buildSAInitError(msg, "INVALID_SYNTAX", ""))
        ELSE IF config.cookieMode = "busy" /\ msg.cookie = NoCookie
        THEN refuse(buildCookieResponse(msg))
        ELSE IF msg.cookie /= NoCookie /\ ~VerifySAInitCookie(msg)
        THEN refuse(buildSAInitError(msg, "INVALID_SYNTAX", ""))
        ELSE IF suite = <<>>
        THEN refuse(buildSAInitError(msg, "NO_PROPOSAL_CHOSEN", ""))
        ELSE IF msg.group /= suite["DH"].id
        THEN refuse(buildSAInitError(msg, "INVALID_KE_PAYLOAD", suite["DH"].id))
        ELSE [made  |-> <<IKEv2Session(msg.attempt, suite)>>,
              reply |-> [Reply("SA_INIT", msg.attempt, n, 0) EXCEPT !.suite = suite]]

-----------------------------------------------------------------------------

(***************************************************************************)
(* The IKE_AUTH handlers: s is the session, n its number.  Each gives the  *)
(* session it leaves and its response.  buildAuthError always answers with *)
(* message ID 1.                                                           *)
(***************************************************************************)
Outcome(s, reply) == [s |-> s, reply |-> reply]
drop(s) == Outcome(s, Silent)
buildAuthError(s, n, kind) == Outcome(s, Reply(kind, s.attempt, n, 1))
sendEAPPayload(s, n, mid, kind, chal) ==
    Outcome(s, [Reply(kind, s.attempt, n, mid) EXCEPT !.chal = chal])
sendEAPFailure(s, n, mid) == sendEAPPayload(s, n, mid, "EAP_Failure", 0)

\* Certificate methods are let through here: their check is left to the caller.
verifyAuth(s, n, auth) ==
    \/ auth.method = "psk" /\ auth = Auth("psk", s.psk, n, s.peerID)
    \/ auth.method = "cert"

(***************************************************************************)
(* The end of both handlers: the child SA with the first of our proposals  *)
(* the peer accepts.  Its outbound SPI is that of the peer's first         *)
(* proposal, whichever was chosen.                                         *)
(***************************************************************************)
establishKeep(s, n, sa, mid) ==
    LET child == [suite |-> espSuite[sa], outSPI |-> sa[1].spi]
    IN  IF espSuite[sa] = <<>> THEN buildAuthError(s, n, "NO_PROPOSAL_CHOSEN")
        ELSE Outcome([s EXCEPT !.children = Append(@, child), !.state = "Established"],
                     [Reply("AUTH", s.attempt, n, mid) EXCEPT !.secret = s.psk, !.suite = child.suite])
establishShift(s, n, sa, mid) ==
    LET child == [suite |-> espSuite[sa], outSPI |-> sa[1].spi]
    IN  IF espSuite[sa] = <<>> THEN buildAuthError(s, n, "NO_PROPOSAL_CHOSEN")
        ELSE Outcome([s EXCEPT !.children = Append(@, child), !.state = "Established",
                               !.pending = <<>>],
                     [Reply("AUTH", s.attempt, n, mid + 1) EXCEPT !.secret = s.psk, !.suite = child.suite])
establish(s, n, sa, mid) ==
    LET child == [suite |-> espSuite[sa], outSPI |-> sa[1].spi]
    IN  IF espSuite[sa] = <<>> THEN buildAuthError(s, n, "NO_PROPOSAL_CHOSEN")
        ELSE Outcome([s EXCEPT !.children = Append(@, child), !.state = "Established",
                               !.pending = <<>>],
                     [Reply("AUTH", s.attempt, n, mid) EXCEPT !.secret = s.psk, !.suite = child.suite])

startEAPExchange(s, n, sa) ==
    sendEAPPayload([s EXCEPT !.pending = sa, !.state = "EAPInProgress"], n, 1, "EAP_Identity", 0)

HandleAuth(s, n, msg) ==
    LET known == [s EXCEPT !.peerID = msg.id]
        keyed == [known EXCEPT !.psk = Secret("psk", PSKs[msg.id], 0)]
    IN  IF s.state /= "InitRecv" \/ msg.id = "" THEN drop(s)
        ELSE IF msg.auth = NoAuth
        THEN IF config.eap THEN startEAPExchange(known, n, msg.sa) ELSE drop(known)
        ELSE IF msg.id \notin DOMAIN PSKs THEN drop(known)
        ELSE IF ~verifyAuth(keyed, n, msg.auth)
        THEN buildAuthError(keyed, n, "AUTHENTICATION_FAILED")
        ELSE establish(keyed, n, msg.sa, 1)

(***************************************************************************)
(* EAP: an identity starts MSCHAPv2 with a fresh challenge (challenges are *)
(* numbered within a session), a response is verified against it, and      *)
(* the client's acknowledgement of that derives the MSK.  An EAP failure   *)
(* leaves the session as it is.                                            *)
(***************************************************************************)
handleEAPIdentity(s, n, msg) ==
    LET fresh == s.eapState.chal + 1
        state == [type |-> "MSCHAPv2", user |-> msg.eap.user, key |-> "", chal |-> fresh]
    IN  IF msg.eap.user \notin DOMAIN Passwords
        THEN sendEAPFailure(s, n, msg.mid)
        ELSE sendEAPPayload([s EXCEPT !.eapState = state, !.nt = FALSE],
                            n, msg.mid, "EAP_Challenge", fresh)

VerifyMSCHAPv2Response(s, eap) ==
    eap.chal = s.eapState.chal /\ eap.user = s.eapState.user /\ eap.key = Passwords[eap.user]

handleMSCHAPv2Response(s, n, msg) ==
    IF VerifyMSCHAPv2Response(s, msg.eap)
    THEN sendEAPPayload([s EXCEPT !.nt = TRUE], n, msg.mid, "EAP_MSCHAPv2_Success", 0)
    ELSE sendEAPPayload(s, n, msg.mid, "EAP_MSCHAPv2_Failure", 0)

handleMSCHAPv2SuccessAck(s, n, msg) ==
    LET derived == Secret("msk", Passwords[s.eapState.user], s.eapState.chal)
    IN  sendEAPPayload([s EXCEPT !.msk = IF s.nt THEN derived ELSE @, !.state = "EAPDone"],
                       n, msg.mid, "EAP_Success", 0)

\* EAP-TLS is never set up (initEAPTLS has no caller), so its messages find no state.
processEAPResponse(s, n, msg) ==
    CASE msg.eap.type = "Identity" -> handleEAPIdentity(s, n, msg)
      [] msg.eap.type \in {"Response", "SuccessAck"} /\ s.eapState = NoEAP -> drop(s)
      [] msg.eap.type = "Response" /\ s.eapState /= NoEAP -> handleMSCHAPv2Response(s, n, msg)
      [] msg.eap.type = "SuccessAck" /\ s.eapState /= NoEAP -> handleMSCHAPv2SuccessAck(s, n, msg)
      [] msg.eap.type \in {"TLS", "none"} -> drop(s)
      [] msg.eap.type = "NAK" -> sendEAPFailure(s, n, msg.mid)

handleFinalEAPAuth(s, n, msg) ==
    LET keyed == [s EXCEPT !.psk = IF s.msk /= NoSecret THEN s.msk ELSE @]
    IN  IF msg.auth = NoAuth THEN drop(s)
        ELSE IF ~verifyAuth(keyed, n, msg.auth)
        THEN buildAuthError(keyed, n, "AUTHENTICATION_FAILED")
        ELSE establish(keyed, n, s.pending, msg.mid)

\* The state is that of the moment, whatever the read loop saw before the mutex.
HandleAuthEAP(s, n, msg) ==
    IF s.state = "EAPDone" THEN handleFinalEAPAuth(s, n, msg)
    ELSE processEAPResponse(s, n, msg)

-----------------------------------------------------------------------------

Idle == [route |-> "idle"]

(***************************************************************************)
(* handleIKEv2, up to the handler: a packet that does not parse, or that   *)
(* names no session, is dropped.  copy: the network keeps another one.     *)
(***************************************************************************)
routeOf(msg) ==
    IF msg.exchange = "SA_INIT" THEN "init"
    ELSE IF sessions[msg.n].state \in {"EAPInProgress", "EAPDone"} THEN "eap"
    ELSE "auth"

Take(l, msg, copy) ==
    /\ loops[l] = Idle
    /\ msg \in net
    /\ net' = IF copy THEN net ELSE net \ {msg}
    /\ loops' = IF ParseMessage(msg) /\ (msg.exchange = "IKE_AUTH" => msg.n \in v2Sessions)
                THEN [loops EXCEPT ![l] = [route |-> routeOf(msg), msg |-> msg]]
                ELSE loops
    /\ UNCHANGED <<config, sessions, v2Sessions, epoch, replies>>

send(reply) == replies' = IF reply.kind = "silent" THEN replies ELSE replies \cup {reply}

\* HandleSAInit, RegisterV2Session and the response.
HandleInit(l) ==
    /\ loops[l].route = "init"
    /\ \E out \in {HandleSAInit(loops[l].msg)} :
          /\ sessions' = sessions \o out.made
          /\ v2Sessions' = v2Sessions \cup {Len(sessions) + i : i \in DOMAIN out.made}
          /\ send(out.reply)
    /\ loops' = [loops EXCEPT ![l] = Idle]
    /\ UNCHANGED <<config, epoch, net>>

Handle(l) ==
    LET msg == loops[l].msg  s == sessions[msg.n] IN
    /\ loops[l].route \in {"eap", "auth"}
    /\ \E out \in {IF loops[l].route = "eap" THEN HandleAuthEAP(s, msg.n, msg)
                   ELSE HandleAuth(s, msg.n, msg)} :
          /\ sessions' = [sessions EXCEPT ![msg.n] = out.s]
          /\ send(out.reply)
    /\ loops' = [loops EXCEPT ![l] = Idle]
    /\ UNCHANGED <<config, v2Sessions, epoch, net>>

\* The daemon ends and is started again: every session and the cookie secret are gone.
Restart ==
    /\ v2Sessions' = {}
    /\ epoch' = epoch + 1
    /\ loops' = [l \in Loops |-> Idle]
    /\ UNCHANGED <<config, sessions, net, replies>>

ServerInit ==
    /\ config \in Configs
    /\ sessions = <<>> /\ v2Sessions = {}
    /\ epoch = 1
    /\ loops = [l \in Loops |-> Idle]
=============================================================================
