--------------------------- MODULE IkeV1Exchange ----------------------------
(***************************************************************************)
(* The IKEv1 responder with a client and a network.  The client is not     *)
(* part of the repository: it is the initiator of docs/WORKFLOW_IKEV1.md,  *)
(* in main or aggressive mode, with or without XAUTH and mode config, up   *)
(* to its first quick mode.  It repeats a request once when no answer      *)
(* comes and then connects again from the start.  The network keeps the    *)
(* order of messages and delivers each of them once; a loss, a copy, an    *)
(* overtaking, damage to an encrypted message and a restart of the daemon  *)
(* are faults, taken from one budget.                                      *)
(***************************************************************************)
EXTENDS IkeV1Responder

CONSTANTS
    Profiles,  \* the clients: what they offer and which credentials they have
    MaxFaults  \* bound: faults

ASSUME MaxFaultsAssumption == MaxFaults \in Nat
ASSUME ProfilesAssumption ==
    \A p \in Profiles :
        /\ p.mode \in {"main1", "aggr1"}
        /\ p.sa \in SAPayloads /\ p.sa /= <<>>
        /\ p.esp \in Seq(Nat) /\ p.esp /= <<>>

VARIABLES
    sessions,   \* every session ever made, by number
    v1Sessions, \* the numbers of those the session manager knows
    drawn,      \* random values drawn so far
    net,        \* messages on their way to the responder, in order
    replies,    \* messages on their way to the client, in order
    profile,    \* the client of this behaviour
    client,     \* where it is in its exchange
    faults      \* faults so far

serverVars == <<sessions, v1Sessions, drawn>>
vars == <<serverVars, net, replies, profile, client, faults>>

-----------------------------------------------------------------------------

(***************************************************************************)
(* The client.  The modes differ in how phase 1 begins; an XAUTH client    *)
(* then waits to be asked, and quick mode comes last.                      *)
(***************************************************************************)
IsXAUTH == profile.sa[1].auth = "XAUTH"

ExpectedKinds ==
    [main1 |-> {"main2"}, main3 |-> {"main4"}, main5 |-> {"main6"}, aggr1 |-> {"aggr2"},
     wait |-> {"xauthRequest"}, xauth |-> {"xauthOK", "xauthFail"},
     config |-> {"modeConfig"}, quick |-> {"quick2"}]
MidOf(phase, asked) == CASE phase = "xauth" -> asked
                         [] phase = "config" -> 1
                         [] phase = "quick" -> 2
                         [] OTHER -> 0

NewAttempt(k) ==
    [phase |-> profile.mode, attempt |-> k, n |-> 0, xf |-> <<>>, keys |-> NoKeys, iv |-> "none",
     asked |-> 0, child |-> 0, repeated |-> FALSE]

Msg(kind, c) ==
    [kind |-> kind, attempt |-> c.attempt, n |-> c.n, mid |-> MidOf(c.phase, c.asked),
     damaged |-> FALSE, keys |-> c.keys, iv |-> c.iv, addr |-> profile.addr, sa |-> profile.sa,
     esp |-> profile.esp, id |-> profile.id, idType |-> profile.idType,
     hash |-> computeV1Hash(c.keys, c.n, profile.idType, profile.id),
     user |-> profile.user, password |-> profile.password]
Encrypted == {"main5", "xauth", "config", "quick1"}

\* What a client sends on entering a phase.
Requests(c) ==
    CASE c.phase = "wait" -> <<>>
      [] c.phase = "quick" /\ profile.mode = "aggr1" -> <<Msg("aggr3", c), Msg("quick1", c)>>
      [] c.phase = "quick" /\ profile.mode = "main1" -> <<Msg("quick1", c)>>
      [] c.phase = "done" -> <<Msg("quick3", c)>>
      [] OTHER -> <<Msg(c.phase, c)>>

Send(c) == client' = c /\ net' = net \o Requests(c)
Retry ==
    IF client.attempt <= MaxFaults THEN Send(NewAttempt(client.attempt + 1))
    ELSE client' = [client EXCEPT !.phase = "failed"] /\ net' = net

Waiting == client.phase \in DOMAIN ExpectedKinds
Answers(r) ==
    /\ Waiting
    /\ r.attempt = client.attempt
    /\ r.kind \in ExpectedKinds[client.phase]
    /\ client.n /= 0 => r.n = client.n
    /\ client.phase \in {"xauth", "config", "quick"} => r.mid = MidOf(client.phase, client.asked)

\* The keys of the client: its own transform, with AES-128 when it names no length.
ClientKeys(xf, nonce) ==
    Keys(profile.psk, nonce, xf.id,
         IF xf.len > 0 THEN xf.len ELSE IF xf.id = "3DES" THEN 192 ELSE 128)

AfterPhase1 == IF IsXAUTH THEN "wait" ELSE IF profile.config THEN "config" ELSE "quick"

Advance(r) ==
    LET next(phase) == [client EXCEPT !.phase = phase, !.repeated = FALSE] IN
    CASE r.kind = "main2" -> Send([next("main3") EXCEPT !.n = r.n, !.xf = r.sa[1]])
      [] r.kind = "main4" -> Send([next("main5") EXCEPT !.keys = ClientKeys(client.xf, r.nonce),
                                                        !.iv = "init"])
      [] r.kind = "main6" -> IF r.hash = HASH_R(client.keys, client.n)
                             THEN Send([next(AfterPhase1) EXCEPT !.iv = "main6"]) ELSE Retry
      [] r.kind = "aggr2" ->
            LET keys == ClientKeys(r.sa[1], r.nonce) IN
            IF r.hash = HASH_R(keys, r.n)
            THEN Send([next("quick") EXCEPT !.n = r.n, !.xf = r.sa[1], !.keys = keys, !.iv = "init"])
            ELSE Retry
      [] r.kind = "xauthRequest" -> Send([next("xauth") EXCEPT !.asked = r.mid])
      [] r.kind = "xauthOK" -> Send(next(IF profile.config THEN "config" ELSE "quick"))
      [] r.kind = "modeConfig" -> Send(next("quick"))
      [] r.kind = "quick2" -> Send([next("done") EXCEPT !.child = r.nonce])
      [] OTHER -> Retry

Without(seq, i) == SubSeq(seq, 1, i - 1) \o SubSeq(seq, i + 1, Len(seq))

Receive(i, copy) ==
    /\ replies' = IF copy THEN replies ELSE Without(replies, i)
    /\ IF Answers(replies[i]) THEN Advance(replies[i]) ELSE ~copy /\ UNCHANGED <<client, net>>
    /\ UNCHANGED <<serverVars, profile>>

-----------------------------------------------------------------------------

(***************************************************************************)
(* The responder takes a message.  handleIKEv1 makes and registers a       *)
(* session for message 1 of main mode and hands transactions to their      *)
(* session, if the session manager knows it.  Dispatch hands the messages  *)
(* that the server still drops to the handlers written for them, in the    *)
(* same way.                                                               *)
(***************************************************************************)
Answered(made, sent) ==
    /\ sessions' = sessions \o made
    /\ v1Sessions' = v1Sessions \cup (Len(sessions) + 1 .. Len(sessions'))
    /\ replies' = replies \o sent
    /\ drawn' = drawn + Len(sent)

InSession(msg, outcomes) ==
    \E out \in outcomes :
        /\ sessions' = [sessions EXCEPT ![msg.n] = out.s]
        /\ replies' = replies \o out.replies
        /\ drawn' = drawn + Len(out.replies)
        /\ UNCHANGED v1Sessions

handleIKEv1(msg) ==
    \/ /\ msg.kind = "main1"
       /\ LET out == HandleMainMode1(msg, Len(sessions) + 1) IN Answered(out.made, out.replies)
    \/ /\ msg.kind = "xauth"
       /\ IF msg.n \in v1Sessions
          THEN InSession(msg, HandleTransaction(sessions[msg.n], msg.n, msg))
          ELSE UNCHANGED <<serverVars, replies>>

Later(s, msg) ==
    CASE msg.kind = "main3" -> {HandleMainMode3(s, msg.n, drawn + 1)}
      [] msg.kind = "main5" -> HandleMainMode5(s, msg.n, msg)
      [] msg.kind = "aggr3" -> {HandleAggressive3(s, msg.n, msg)}
      [] msg.kind = "config" -> HandleModeConfig(s, msg.n, msg)
      [] msg.kind = "quick1" -> HandleQuickMode1(s, msg.n, msg, drawn + 1)
      [] msg.kind = "quick3" -> {HandleQuickMode3(s)}

Dispatch(msg) ==
    \/ /\ msg.kind = "aggr1"
       /\ LET out == HandleAggressive1(msg, Len(sessions) + 1, drawn + 1)
          IN  Answered(out.made, out.replies)
    \/ /\ msg.kind \notin {"main1", "xauth", "aggr1"}
       /\ IF msg.n \in v1Sessions THEN InSession(msg, Later(sessions[msg.n], msg))
          ELSE UNCHANGED <<serverVars, replies>>

Take(i, copy) ==
    /\ net' = IF copy THEN net ELSE Without(net, i)
    /\ handleIKEv1(net[i]) \/ Dispatch(net[i])
    /\ UNCHANGED <<profile, client>>

\* Phase 1 with an XAUTH method is followed by the request for a name and a password.
AwaitsXAUTH(n) ==
    /\ sessions[n].state = "Established" /\ sessions[n].config.auth = "XAUTH"
    /\ sessions[n].nextMsgID = 0
StartXAUTH(n) ==
    /\ AwaitsXAUTH(n)
    /\ LET out == InitiateXAUTH(sessions[n], n) IN
       /\ sessions' = [sessions EXCEPT ![n] = out.s]
       /\ replies' = replies \o out.replies
    /\ UNCHANGED <<v1Sessions, drawn, net, profile, client, faults>>

\* Sessions are kept in memory only.
Restart ==
    /\ v1Sessions /= {}
    /\ v1Sessions' = {}
    /\ UNCHANGED <<sessions, drawn, net, replies, profile, client>>

-----------------------------------------------------------------------------

InFlight ==
    \/ \E i \in DOMAIN net : net[i].attempt = client.attempt
    \/ \E i \in DOMAIN replies : Answers(replies[i])
    \/ \E n \in v1Sessions : sessions[n].attempt = client.attempt /\ AwaitsXAUTH(n)

Timeout ==
    /\ Waiting /\ ~InFlight
    /\ IF client.repeated \/ Requests(client) = <<>> THEN Retry
       ELSE Send([client EXCEPT !.repeated = TRUE])
    /\ UNCHANGED <<serverVars, replies, profile, faults>>

Lose ==
    /\ \/ \E i \in DOMAIN net : net' = Without(net, i) /\ UNCHANGED replies
       \/ \E i \in DOMAIN replies : replies' = Without(replies, i) /\ UNCHANGED net
    /\ UNCHANGED <<serverVars, profile, client>>

Damage ==
    /\ \E i \in DOMAIN net : net[i].kind \in Encrypted /\ net' = [net EXCEPT ![i].damaged = TRUE]
    /\ UNCHANGED <<serverVars, replies, profile, client>>

Fault ==
    /\ faults < MaxFaults
    /\ faults' = faults + 1
    /\ \/ Lose \/ Damage \/ Restart
       \/ \E i \in DOMAIN net, copy \in BOOLEAN : (copy \/ i > 1) /\ Take(i, copy)
       \/ \E i \in DOMAIN replies, copy \in BOOLEAN : (copy \/ i > 1) /\ Receive(i, copy)

Serve == net /= <<>> /\ Take(1, FALSE) /\ UNCHANGED faults
Hear == replies /= <<>> /\ Receive(1, FALSE) /\ UNCHANGED faults

Init ==
    /\ sessions = <<>> /\ v1Sessions = {} /\ drawn = 0
    /\ profile \in Profiles
    /\ client = NewAttempt(1)
    /\ net = Requests(client)
    /\ replies = <<>>
    /\ faults = 0

\* Somebody goes on, in any order.
Progress == Serve \/ Hear \/ Timeout \/ \E n \in v1Sessions : StartXAUTH(n)

Next == Progress \/ Fault

Spec == Init /\ [][Next]_vars

-----------------------------------------------------------------------------

(***************************************************************************)
(* Types; the states MainIDRecv and AggrDone of the enumeration are never  *)
(* entered.                                                                *)
(***************************************************************************)
TypeOK ==
    /\ profile \in Profiles
    /\ v1Sessions \subseteq DOMAIN sessions
    /\ \A n \in DOMAIN sessions :
          /\ sessions[n].state \in {"MainSARecv", "MainKERecv", "AggrRecv", "Established",
                                    "XAUTHSent", "XAUTHDone"}
          /\ sessions[n].attempt \in 1 .. MaxFaults + 1
          /\ sessions[n].iv \in {"none", "init", "junk", "main5", "main6"}
          /\ sessions[n].nextMsgID \in 0 .. 1
    /\ \A i \in DOMAIN net : net[i].n \in 0 .. Len(sessions)
    /\ \A i \in DOMAIN replies : replies[i].n \in DOMAIN sessions
    /\ client.phase \in DOMAIN ExpectedKinds \cup {"done", "failed"}
    /\ drawn \in Nat /\ faults \in 0 .. MaxFaults

(***************************************************************************)
(* A client that has finished phase 1 with an AES transform that names its *)
(* key length, and the session it names, have the same keys, are at the    *)
(* same IV, which every later message depends on, and agree on the         *)
(* client's identity: no late copy of a phase 1 message moves the session. *)
(***************************************************************************)
EndsInStep ==
    /\ client.phase \in {"wait", "xauth", "config", "quick", "done"}
    /\ client.xf.id = "AES" /\ client.xf.len > 0
    => LET s == sessions[client.n] IN
       s.keys = client.keys /\ s.iv = client.iv /\ s.peerID = profile.id

(***************************************************************************)
(* The child SA a client has after quick mode is one that its session has, *)
(* or had when the daemon was restarted, with the same key material and    *)
(* the length of the transform the client put first, however often its     *)
(* request was repeated; and it was made for a session whose peer proved   *)
(* its pre-shared key.                                                     *)
(***************************************************************************)
ChildKept ==
    client.phase = "done" =>
        /\ \E i \in DOMAIN sessions[client.n].children :
              LET c == sessions[client.n].children[i] IN
              /\ c.nonce = client.child /\ c.mid = 2
              /\ c.len = IF profile.esp[1] > 0 THEN profile.esp[1] ELSE 128
        /\ profile.psk = sessions[client.n].psk

(***************************************************************************)
(* A session is past phase 1, where it gives out child SAs and addresses,  *)
(* only if its peer has proved that it knows the pre-shared key of its     *)
(* address and is the one whose identity the session carries, though       *)
(* message 5 moves the identity before its hash is verified and a later    *)
(* copy may be damaged; and it has a user only if the peer gave that       *)
(* user's password, though nothing verifies the hash of a transaction.     *)
(* This holds of every session there ever was, also of those that a client *)
(* has left behind for another attempt.                                    *)
(***************************************************************************)
PeerIsProved ==
    \A n \in DOMAIN sessions :
        LET s == sessions[n] IN
        /\ s.state \in {"Established", "XAUTHSent", "XAUTHDone"}
              => s.psk = profile.psk /\ s.peerID = profile.id
        /\ s.state = "XAUTHDone" \/ s.xauthUser /= ""
              => s.xauthUser = profile.user /\ <<profile.user, profile.password>> \in Credentials
=============================================================================
