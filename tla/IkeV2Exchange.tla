--------------------------- MODULE IkeV2Exchange ----------------------------
(***************************************************************************)
(* The IKEv2 responder with a client and a network.  The client is not     *)
(* part of the repository: it is the initiator of docs/WORKFLOW_IKEV2.md,  *)
(* lock-step, one request at a time, which repeats a request once when no  *)
(* answer comes and then connects again from the start.  The network       *)
(* loses, repeats and reorders packets and the daemon may be restarted;    *)
(* each such fault is taken from one budget.                               *)
(***************************************************************************)
EXTENDS IkeV2Responder

CONSTANTS
    Profiles,  \* the clients: what they offer and which credentials they have
    MaxFaults  \* bound: lost and repeated packets, and restarts

ASSUME MaxFaultsAssumption == MaxFaults \in Nat
ASSUME ProfilesAssumption ==
    \A p \in Profiles :
        /\ {p.ike, p.esp} \subseteq SAPayloads
        /\ p.method \in {"psk", "cert", "eap"}
        /\ p.eapType \in {"Response", "NAK", "TLS"}

VARIABLES
    profile,   \* the client of this behaviour
    client,    \* where it is in its exchange
    faults     \* faults so far

vars == <<serverVars, net, replies, profile, client, faults>>

Phases == <<"init", "auth", "identity", "response", "ack", "final">>
MidOf(phase) == (CHOOSE i \in DOMAIN Phases : Phases[i] = phase) - 1

NewAttempt(k) ==
    [phase |-> "init", attempt |-> k, n |-> 0, group |-> profile.group, cookie |-> NoCookie,
     chal |-> 0, repeated |-> FALSE, ikeSuite |-> <<>>, suite |-> <<>>]

ClientSecret(c) ==
    IF profile.method = "eap" THEN Secret("msk", profile.key, c.chal)
    ELSE Secret("psk", profile.key, 0)

\* The request a client sends on entering a phase.
Request(c) ==
    LET proof == Auth(IF profile.method = "cert" THEN "cert" ELSE "psk",
                      ClientSecret(c), c.n, profile.id)
        first == c.phase = "auth"
    IN  [exchange |-> IF c.phase = "init" THEN "SA_INIT" ELSE "IKE_AUTH",
         framing  |-> profile.framing, complete |-> profile.complete,
         attempt  |-> c.attempt, n |-> c.n, mid |-> MidOf(c.phase),
         group    |-> c.group, cookie |-> c.cookie,
         id       |-> IF first THEN profile.id ELSE "",
         sa       |-> IF c.phase = "init" THEN profile.ike ELSE IF first THEN profile.esp ELSE <<>>,
         auth     |-> IF c.phase = "final" \/ (first /\ profile.method /= "eap") THEN proof ELSE NoAuth,
         eap      |-> CASE c.phase = "identity" -> [NoEAP EXCEPT !.type = "Identity", !.user = profile.user]
                        [] c.phase = "response" -> [type |-> profile.eapType, user |-> profile.user,
                                                    key |-> profile.key, chal |-> c.chal]
                        [] c.phase = "ack" -> [NoEAP EXCEPT !.type = "SuccessAck"]
                        [] OTHER -> NoEAP]

Send(c) == client' = c /\ net' = net \cup {Request(c)}
Finish(c) == client' = c /\ net' = net
Retry ==
    IF client.attempt <= MaxFaults THEN Send(NewAttempt(client.attempt + 1))
    ELSE Finish([client EXCEPT !.phase = "failed"])

Waiting == client.phase \in {Phases[i] : i \in DOMAIN Phases}
Answers(r) ==
    /\ Waiting
    /\ r.attempt = client.attempt /\ r.mid = MidOf(client.phase)
    /\ r.mid > 0 => r.n = client.n

(***************************************************************************)
(* What the client does with a response: one that answers no request of    *)
(* its own is ignored.                                                     *)
(***************************************************************************)
Advance(r) ==
    LET next(phase) == [client EXCEPT !.phase = phase, !.repeated = FALSE] IN
    CASE r.kind = "COOKIE" -> Send([client EXCEPT !.cookie = r.cookie, !.repeated = FALSE])
      [] r.kind = "INVALID_KE_PAYLOAD" -> Send([client EXCEPT !.group = r.group, !.repeated = FALSE])
      [] r.kind = "SA_INIT" -> Send([next("auth") EXCEPT !.n = r.n, !.ikeSuite = r.suite])
      [] r.kind = "EAP_Identity" -> Send(next("identity"))
      [] r.kind = "EAP_Challenge" -> Send([next("response") EXCEPT !.chal = r.chal])
      [] r.kind = "EAP_MSCHAPv2_Success" -> Send(next("ack"))
      [] r.kind = "EAP_Success" -> Send(next("final"))
      [] r.kind = "AUTH" -> IF r.secret = ClientSecret(client)
                            THEN Finish([next("done") EXCEPT !.suite = r.suite])
                            ELSE Retry
      [] OTHER -> Retry

Receive(r, copy) ==
    /\ r \in replies
    /\ replies' = IF copy THEN replies ELSE replies \ {r}
    /\ IF Answers(r) THEN Advance(r) ELSE ~copy /\ UNCHANGED <<client, net>>
    /\ UNCHANGED <<serverVars, profile>>

InFlight ==
    \/ Request(client) \in net
    \/ \E l \in Loops : loops[l] /= Idle /\ loops[l].msg = Request(client)
    \/ \E r \in replies : Answers(r)

Timeout ==
    /\ Waiting /\ ~InFlight
    /\ IF client.repeated THEN Retry ELSE Send([client EXCEPT !.repeated = TRUE])
    /\ UNCHANGED <<serverVars, replies, profile, faults>>

Lose ==
    /\ \/ \E msg \in net : net' = net \ {msg} /\ UNCHANGED replies
       \/ \E r \in replies : replies' = replies \ {r} /\ UNCHANGED net
    /\ UNCHANGED <<serverVars, profile, client>>

Fault ==
    /\ faults < MaxFaults
    /\ faults' = faults + 1
    /\ \/ Lose
       \/ \E l \in Loops, msg \in net : Take(l, msg, TRUE) /\ UNCHANGED <<profile, client>>
       \/ \E r \in replies : Receive(r, TRUE)
       \/ Restart /\ UNCHANGED <<profile, client>>

Serve(l) ==
    /\ HandleInit(l) \/ Handle(l)
    /\ UNCHANGED <<profile, client, faults>>
Pick == \E l \in Loops, msg \in net : Take(l, msg, FALSE) /\ UNCHANGED <<profile, client, faults>>
Hear == \E r \in replies : Receive(r, FALSE) /\ UNCHANGED faults

Init ==
    /\ ServerInit
    /\ profile \in Profiles
    /\ client = NewAttempt(1)
    /\ net = {Request(client)}
    /\ replies = {}
    /\ faults = 0

(***************************************************************************)
(* Somebody goes on: the read loops read what there is and finish what     *)
(* they have in hand, the client hears its answers and its timer expires.  *)
(* Nothing is assumed of the order in which they do, and no fault has to   *)
(* happen.                                                                 *)
(***************************************************************************)
Progress == (\E l \in Loops : Serve(l)) \/ Pick \/ Hear \/ Timeout

Next == Progress \/ Fault

Spec == Init /\ [][Next]_vars /\ WF_vars(Progress)

-----------------------------------------------------------------------------

Keys == {PSKs[id] : id \in DOMAIN PSKs} \cup {Passwords[user] : user \in DOMAIN Passwords} \cup {""}
Secrets == [kind : {"none", "psk", "msk"}, key : Keys, chal : Nat]

TypeOK ==
    /\ config \in Configs /\ profile \in Profiles
    /\ \A n \in DOMAIN sessions :
          LET s == sessions[n] IN
          /\ s.state \in IKEv2States
          /\ s.attempt \in 1 .. MaxFaults + 1
          /\ s.psk \in Secrets /\ s.msk \in Secrets
          /\ s.nt \in BOOLEAN
    /\ v2Sessions \subseteq DOMAIN sessions
    /\ epoch \in 1 .. MaxFaults + 1
    /\ \A l \in Loops : loops[l].route \in {"idle", "init", "auth", "eap"}
    /\ \A msg \in net : msg.mid \in 0 .. 5 /\ msg.n \in 0 .. Len(sessions)
    /\ \A r \in replies : r.mid \in 0 .. 5 /\ r.n \in 0 .. Len(sessions)
    /\ faults \in 0 .. MaxFaults

(***************************************************************************)
(* However requests are repeated, delayed or routed by a state that is no  *)
(* longer true, IKE_AUTH gives a session at most one child SA.  A late EAP *)
(* message can take an established session back to EAPDone; what prevents  *)
(* a second child is that handleFinalEAPAuth has cleared the pending SA.   *)
(***************************************************************************)
OneInitialChild == \A n \in DOMAIN sessions : Len(sessions[n].children) <= 1

(***************************************************************************)
(* A client that considers itself connected and the session it names agree *)
(* on the IKE algorithms, the shared secret, the identity and the child    *)
(* SA, whose transforms the client has offered together in one proposal.   *)
(* They agree on the SPI the responder sends to when the client's          *)
(* proposals all carry the same one, and the ESP engine can build an SA    *)
(* from the keys of an AES-GCM child.                                      *)
(***************************************************************************)
OfferedTogether(suite, sa) ==
    \E j \in DOMAIN sa : \A type \in DOMAIN suite :
        \E t \in sa[j].transforms :
            t.type = type /\ t.id = suite[type].id /\ t.len \in {0, suite[type].len}

BothEndsAgree ==
    client.phase = "done" =>
        LET s == sessions[client.n] IN
        /\ s.suite = client.ikeSuite /\ OfferedTogether(s.suite, profile.ike)
        /\ s.psk = ClientSecret(client) /\ s.peerID = profile.id
        /\ Len(s.children) = 1 /\ s.children[1].suite = client.suite
        /\ "ENCR" \in DOMAIN client.suite /\ OfferedTogether(client.suite, profile.esp)
        /\ client.suite["ENCR"].id = "AES_GCM" => buildESPSA(client.suite)
        /\ \A j \in DOMAIN profile.esp :
              (\A k \in DOMAIN profile.esp : profile.esp[k].spi = profile.esp[j].spi)
                  => s.children[1].outSPI = profile.esp[j].spi

(***************************************************************************)
(* A client with valid credentials, acceptable proposals and the framing   *)
(* the parser reads gets through, whatever Diffie-Hellman group it tried   *)
(* first and whether cookies are demanded: each fault costs it at most one *)
(* attempt, since the number of attempts is that of the faults plus one.   *)
(***************************************************************************)
Welcome(p) ==
    /\ p.complete
    /\ ikeSuite[p.ike] /= <<>> /\ espSuite[p.esp] /= <<>>
    /\ \/ p.method = "psk" /\ p.id \in DOMAIN PSKs /\ PSKs[p.id] = p.key
       \/ /\ p.method = "eap" /\ config.eap /\ p.eapType = "Response"
          /\ p.user \in DOMAIN Passwords /\ Passwords[p.user] = p.key

ClientGetsThrough ==
    (Welcome(profile) /\ profile.framing = "own") => <>(client.phase = "done")

(***************************************************************************)
(* A client with valid credentials that frames its messages by RFC 7296    *)
(* gets message 4, the answer to its IKE_AUTH request, and is connected.   *)
(***************************************************************************)
RfcClientGetsThrough ==
    (Welcome(profile) /\ profile.framing = "rfc") => <>(client.phase = "done")
=============================================================================
