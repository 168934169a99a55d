------------------------ MODULE IkeV2ExchangeProofs -------------------------
(***************************************************************************)
(* What holds of the IKEv2 responder and its client for every set of       *)
(* clients, credentials, SA payloads and read loops, and for any number of *)
(* faults: first the choice of proposals, then the handlers, one lemma     *)
(* each, then the steps of server, client and network.                     *)
(***************************************************************************)
EXTENDS IkeV2Exchange, WellFoundedInduction, TLAPS

\* The order of the natural numbers, as a relation.
Less == {p \in Nat \X Nat : p[1] < p[2]}

\* A nonempty set of natural numbers has a least member.
LEMMA Smallest ==
    ASSUME NEW S, S \subseteq Nat, S # {}
    PROVE  \E m \in S : \A k \in S : m <= k
  <1>1. IsWellFoundedOn(Less, Nat)
    BY NatLessThanWellFounded DEF OpToRel, Less
  <1>2. PICK m \in S : \A k \in S : ~ (<<k, m>> \in Less)
    BY <1>1, WFMin
  <1>3. \A k \in S : m <= k
    <2> SUFFICES ASSUME NEW k \in S PROVE m <= k
      OBVIOUS
    <2>1. k \in Nat /\ m \in Nat /\ <<k, m>> \in Nat \X Nat
      OBVIOUS
    <2>2. ~ (k < m)
      BY <1>2, <2>1 DEF Less
    <2> QED BY <2>1, <2>2
  <1> QED BY <1>3

\* A nonempty set of pairs of numbers has a first one.
LEMMA FirstPair ==
    ASSUME NEW P, P \subseteq Nat \X Nat, P # {}
    PROVE  \E p \in P : \A q \in P : p[1] < q[1] \/ (p[1] = q[1] /\ p[2] <= q[2])
  <1> DEFINE F == {p[1] : p \in P}
  <1>1. F \subseteq Nat /\ F # {} OBVIOUS
  <1>2. PICK a \in F : \A k \in F : a <= k
    <2> HIDE DEF F
    <2> QED BY <1>1, Smallest
  <1> DEFINE G == {p[2] : p \in {q \in P : q[1] = a}}
  <1>3. G \subseteq Nat /\ G # {} BY <1>2
  <1>4. PICK b \in G : \A k \in G : b <= k
    <2> HIDE DEF G
    <2> QED BY <1>3, Smallest
  <1>5. PICK p \in P : p[1] = a /\ p[2] = b BY <1>4
  <1>6. ASSUME NEW q \in P PROVE p[1] < q[1] \/ (p[1] = q[1] /\ p[2] <= q[2])
    <2>1. q[1] \in F /\ q[1] \in Nat /\ a \in Nat /\ a <= q[1] BY <1>1, <1>2
    <2>2. CASE a = q[1]
      <3>1. q[2] \in G BY <2>2
      <3> QED BY <3>1, <1>4, <1>5, <2>2
    <2>3. CASE a # q[1] BY <2>1, <2>3, <1>5
    <2> QED BY <2>2, <2>3
  <1> QED BY <1>5, <1>6

\* SelectProposal finds a pair of proposals that match, and negotiate what they share.
LEMMA Chosen ==
    ASSUME NEW ours, NEW theirs, NEW a \in Nat, NEW b \in Nat, DOMAIN ours = 1 .. a, DOMAIN theirs = 1 .. b,
           negotiate(ours, theirs) # <<>>
    PROVE  \E i \in DOMAIN ours, j \in DOMAIN theirs :
              /\ proposalMatch(ours[i], theirs[j])
              /\ negotiate(ours, theirs) = selected(ours[i], theirs[j])
  <1> DEFINE pairs == {p \in (DOMAIN ours) \X (DOMAIN theirs) : proposalMatch(ours[p[1]], theirs[p[2]])}
             first(p) == \A q \in pairs : p[1] < q[1] \/ (p[1] = q[1] /\ p[2] <= q[2])
             best == CHOOSE p \in pairs : first(p)
  <1>1. SelectProposal(ours, theirs) = IF pairs = {} THEN NoChoice ELSE [ours |-> best[1], theirs |-> best[2]]
    BY DEF SelectProposal
  <1>2. pairs # {}
    BY <1>1 DEF negotiate
  <1>3. pairs \subseteq Nat \X Nat
    OBVIOUS
  <1>4. \E p \in pairs : first(p)
    <2> HIDE DEF pairs
    <2> QED BY <1>2, <1>3, FirstPair
  <1>5. best \in pairs
    <2> HIDE DEF pairs, first
    <2> QED BY <1>4
  <1>6. best[1] \in DOMAIN ours /\ best[2] \in DOMAIN theirs /\ proposalMatch(ours[best[1]], theirs[best[2]])
    <2> HIDE DEF best
    <2> QED BY <1>5
  <1>7. SelectProposal(ours, theirs) = [ours |-> best[1], theirs |-> best[2]]
    BY <1>1, <1>2
  <1>8. SelectProposal(ours, theirs) # NoChoice
    <2> HIDE DEF best
    <2> QED BY <1>6, <1>7 DEF NoChoice
  <1>9. negotiate(ours, theirs) = selected(ours[best[1]], theirs[best[2]])
    <2> HIDE DEF best
    <2> QED BY <1>7, <1>8 DEF negotiate
  <1> HIDE DEF best
  <1> QED BY <1>6, <1>9

\* What is selected from one proposal of the peer was offered together.
LEMMA Together ==
    ASSUME NEW ours, NEW sa, NEW j \in DOMAIN sa, proposalMatch(ours, sa[j])
    PROVE  OfferedTogether(selected(ours, sa[j]), sa)
  <1> DEFINE suite == selected(ours, sa[j])
  <1> SUFFICES ASSUME NEW type \in DOMAIN suite
               PROVE  \E t \in sa[j].transforms :
                         t.type = type /\ t.id = suite[type].id /\ t.len \in {0, suite[type].len}
    BY DEF OfferedTogether
  <1> DEFINE M == Matching(ours, sa[j], type)
             c == CHOOSE t \in M : TRUE
  <1>1. type \in DOMAIN ours /\ M # {}
    BY DEF selected
  <1>2. suite[type] = Xf(ours[type].id, IF ours[type].len /= 0 THEN ours[type].len ELSE c.len)
    BY DEF selected
  <1>3. c \in M
    <2> HIDE DEF M
    <2> QED BY <1>1
  <1>4. /\ c \in sa[j].transforms /\ c.type = type
        /\ ours[type].id = c.id
        /\ ours[type].len /= 0 /\ c.len /= 0 => ours[type].len = c.len
    <2> HIDE DEF c
    <2> QED BY <1>3 DEF Matching, Offered, transformMatch
  <1>5. suite[type].id = ours[type].id /\ suite[type].len = IF ours[type].len /= 0 THEN ours[type].len ELSE c.len
    <2> HIDE DEF c, suite
    <2> QED BY <1>2 DEF Xf
  <1> HIDE DEF c, suite
  <1> QED BY <1>4, <1>5

\* The default ESP proposals: AES-GCM ones have a key length that buildESPSA takes.
LEMMA EspProposals ==
    /\ DOMAIN DefaultESPProposals = 1 .. 4
    /\ \A i \in 1 .. 4 : /\ "ENCR" \in DOMAIN DefaultESPProposals[i]
                         /\ DefaultESPProposals[i]["ENCR"].len \in {128, 256}
  BY DEF DefaultESPProposals, Xf

\* What espSuite finds: nothing in an empty offer, and else what was offered together.
LEMMA EspSuite ==
    /\ espSuite[<<>>] = <<>>
    /\ \A sa \in SAPayloads : espSuite[sa] # <<>> =>
          /\ "ENCR" \in DOMAIN espSuite[sa] /\ OfferedTogether(espSuite[sa], sa)
          /\ espSuite[sa]["ENCR"].id = "AES_GCM" => buildESPSA(espSuite[sa])
          /\ 1 \in DOMAIN sa
  <1>1. espSuite[<<>>] = <<>>
    <2>1. SelectProposal(DefaultESPProposals, <<>>) = NoChoice
      BY DEF SelectProposal
    <2> QED BY <2>1 DEF espSuite, negotiate
  <1>2. ASSUME NEW sa \in SAPayloads, espSuite[sa] # <<>>
        PROVE  /\ "ENCR" \in DOMAIN espSuite[sa] /\ OfferedTogether(espSuite[sa], sa)
               /\ espSuite[sa]["ENCR"].id = "AES_GCM" => buildESPSA(espSuite[sa])
               /\ 1 \in DOMAIN sa
    <2>1. espSuite[sa] = negotiate(DefaultESPProposals, sa)
      BY DEF espSuite
    <2>2. Len(sa) \in Nat /\ DOMAIN sa = 1 .. Len(sa)
      BY SAPayloadsAssumption
    <2>3. PICK i \in DOMAIN DefaultESPProposals, j \in DOMAIN sa :
              /\ proposalMatch(DefaultESPProposals[i], sa[j])
              /\ espSuite[sa] = selected(DefaultESPProposals[i], sa[j])
      <3>1. DOMAIN DefaultESPProposals = 1 .. 4
        BY EspProposals
      <3>2. negotiate(DefaultESPProposals, sa) # <<>>
        BY <1>2, <2>1
      <3> QED BY <3>1, <3>2, <2>1, <2>2, Chosen
    <2> DEFINE ours == DefaultESPProposals[i]
    <2>4. "ENCR" \in DOMAIN ours /\ ours["ENCR"].len \in {128, 256}
      BY EspProposals
    <2> HIDE DEF ours
    <2>5. Matching(ours, sa[j], "ENCR") # {}
      BY <2>3, <2>4 DEF proposalMatch, ours
    <2>6. "ENCR" \in DOMAIN selected(ours, sa[j])
      BY <2>4, <2>5 DEF selected
    <2>7. selected(ours, sa[j])["ENCR"] = Xf(ours["ENCR"].id, ours["ENCR"].len)
      BY <2>4, <2>5 DEF selected
    <2>8. selected(ours, sa[j])["ENCR"].len \in {128, 256}
      BY <2>4, <2>7 DEF Xf
    <2>9. espSuite[sa]["ENCR"].id = "AES_GCM" => buildESPSA(espSuite[sa])
      <3>1. espSuite[sa]["ENCR"].len \in {128, 256}
        BY <2>3, <2>8 DEF ours
      <3>2. 128 \div 8 = 16 /\ 256 \div 8 = 32
        OBVIOUS
      <3> QED BY <3>1, <3>2 DEF buildESPSA, childKeyLength
    <2>10. OfferedTogether(espSuite[sa], sa)
      BY <2>3, Together
    <2> QED BY <2>2, <2>3, <2>6, <2>9, <2>10 DEF ours
  <1> QED BY <1>1, <1>2

\* What ikeSuite finds was offered together.
LEMMA IkeSuite ==
    ASSUME NEW sa \in SAPayloads, ikeSuite[sa] # <<>>
    PROVE  OfferedTogether(ikeSuite[sa], sa)
  <1>1. ikeSuite[sa] = negotiate(DefaultIKEProposals, sa)
    BY DEF ikeSuite
  <1>2. Len(sa) \in Nat /\ DOMAIN sa = 1 .. Len(sa)
    BY SAPayloadsAssumption
  <1>3. DOMAIN DefaultIKEProposals = 1 .. 4
    BY DEF DefaultIKEProposals
  <1>4. PICK i \in DOMAIN DefaultIKEProposals, j \in DOMAIN sa :
            /\ proposalMatch(DefaultIKEProposals[i], sa[j])
            /\ ikeSuite[sa] = selected(DefaultIKEProposals[i], sa[j])
    BY <1>1, <1>2, <1>3, Chosen
  <1> QED BY <1>4, Together

-----------------------------------------------------------------------------

\* What an IKEv2Session may hold.
Children == [suite : {espSuite[sa] : sa \in SAPayloads}, outSPI : {sa[1].spi : sa \in SAPayloads}]
EAPStates ==
    [type : {"none", "MSCHAPv2"}, user : DOMAIN Passwords \cup {""}, key : {""}, chal : Nat]
SessionObjects ==
    [state : IKEv2States, attempt : 1 .. MaxFaults + 1, suite : {ikeSuite[sa] : sa \in SAPayloads},
     peerID : {p.id : p \in Profiles} \cup {""}, psk : Secrets, pending : SAPayloads \cup {<<>>},
     eapState : EAPStates, nt : BOOLEAN, msk : Secrets,
     children : {<<>>} \cup {<<c>> : c \in Children}]

EAPTypes == {"none", "Identity", "Response", "SuccessAck", "TLS", "NAK"}
ClientFields == {"phase", "attempt", "n", "group", "cookie", "chal", "repeated", "ikeSuite", "suite"}
ClientPhases == {"init", "auth", "identity", "response", "ack", "final", "done", "failed"}

\* The client has seen a challenge in this attempt, or has given up.
Late == client.phase \in {"response", "ack", "final", "done", "failed"}

TheChild == [suite |-> espSuite[profile.esp], outSPI |-> profile.esp[1].spi]

(***************************************************************************)
(* What every session keeps: the algorithms chosen from the client's       *)
(* offer, the identity once it has been named, no child before the end of  *)
(* the authentication, and no child SA pending once there is one.          *)
(***************************************************************************)
Negotiated(s) ==
    /\ s.attempt <= client.attempt
    /\ s.suite = ikeSuite[profile.ike] /\ s.suite # <<>>
    /\ s.peerID \in {"", profile.id}
    /\ s.state # "InitRecv" => s.peerID = profile.id
    /\ s.state = "InitRecv" => s.children = <<>>
    /\ s.pending \in {<<>>, profile.esp}
    /\ s.children # <<>> => /\ s.pending = <<>> /\ s.psk # NoSecret
                            /\ s.children = <<TheChild>> /\ espSuite[profile.esp] # <<>>

(***************************************************************************)
(* The secret of a session is that of its client.  An MSK is derived only  *)
(* while the client's own answer to the challenge stands, so that a        *)
(* challenge drawn again for a repeated identity cannot replace it.        *)
(***************************************************************************)
Keyed(s, n) ==
    /\ s.eapState # NoEAP => s.eapState.user = profile.user /\ profile.user \in DOMAIN Passwords
    /\ profile.method # "eap" => /\ s.state \in {"InitRecv", "Established"}
                                 /\ s.psk # NoSecret => s.psk = Secret("psk", PSKs[profile.id], 0)
    /\ profile.method = "eap" /\ s.attempt = client.attempt =>
          /\ s.nt => n = client.n /\ Late /\ s.eapState.chal = client.chal
          /\ s.msk # NoSecret => /\ n = client.n /\ Late
                                 /\ s.msk = Secret("msk", Passwords[profile.user], client.chal)
          /\ s.psk # NoSecret => s.psk = s.msk

SessionsOK ==
    /\ sessions \in Seq(SessionObjects)
    /\ \A n \in DOMAIN sessions : Negotiated(sessions[n]) /\ Keyed(sessions[n], n)

\* A request, in flight or in the hands of a read loop.
MsgOK(m) ==
    /\ m.mid \in 0 .. 5 /\ m.attempt \in 1 .. client.attempt /\ m.n \in 0 .. Len(sessions)
    /\ m.exchange \in {"SA_INIT", "IKE_AUTH"}
    /\ m.exchange = "SA_INIT" => m.sa = profile.ike
    /\ m.exchange = "IKE_AUTH" =>
          /\ m.mid >= 1
          /\ m.n \in DOMAIN sessions /\ sessions[m.n].attempt = m.attempt
          /\ m.attempt = client.attempt => client.phase # "init" /\ m.n = client.n
          /\ m.id # "" => /\ m.id = profile.id /\ m.sa = profile.esp
                          /\ m.auth = NoAuth <=> profile.method = "eap"
          /\ m.auth # NoAuth => /\ m.auth.secret.kind # "none"
                                /\ profile.method = "eap" => m.auth.method = "psk"
          /\ m.eap.type \in EAPTypes
          /\ m.eap.type = "Identity" => m.mid = 2 /\ m.eap.user = profile.user
          /\ m.eap.type = "Response" /\ m.attempt = client.attempt =>
                Late /\ m.eap.chal = client.chal

\* A session that a read loop has sent to the EAP handler has been started by HandleAuth.
LoopOK(w) ==
    \/ w = Idle
    \/ /\ w.route \in {"init", "auth", "eap"} /\ MsgOK(w.msg)
       /\ w.route = "init" <=> w.msg.exchange = "SA_INIT"
       /\ w.route = "eap" => sessions[w.msg.n].state # "InitRecv" /\ profile.method = "eap"

ReplyOK(r) ==
    /\ r.mid \in 0 .. 5 /\ r.attempt \in 1 .. client.attempt /\ r.n \in 0 .. Len(sessions)
    /\ r.kind = "SA_INIT" => /\ r.mid = 0 /\ r.suite = ikeSuite[profile.ike]
                             /\ r.n \in DOMAIN sessions /\ sessions[r.n].attempt = r.attempt
    /\ r.kind = "EAP_Identity" => r.mid = 1
    /\ r.kind = "EAP_Challenge" => r.mid = 2
    /\ r.kind \in {"EAP_MSCHAPv2_Success", "EAP_Success"} => r.mid >= 1
    /\ r.kind = "AUTH" =>
          /\ r.mid >= 1 /\ r.suite = espSuite[profile.esp]
          /\ r.n \in DOMAIN sessions /\ sessions[r.n].attempt = r.attempt
          /\ sessions[r.n].children # <<>>
          /\ r.attempt = client.attempt => r.secret = sessions[r.n].psk

ClientOK ==
    /\ DOMAIN client = ClientFields
    /\ client.phase \in ClientPhases /\ client.attempt \in 1 .. MaxFaults + 1
    /\ client.n \in 0 .. Len(sessions)
    /\ client.phase \notin {"init", "failed"} =>
          /\ client.n \in DOMAIN sessions /\ sessions[client.n].attempt = client.attempt
          /\ client.ikeSuite = ikeSuite[profile.ike]
    /\ client.phase = "done" =>
          /\ sessions[client.n].children # <<>> /\ client.suite = espSuite[profile.esp]
          /\ sessions[client.n].psk = ClientSecret(client)

IInv ==
    /\ config \in Configs /\ profile \in Profiles
    /\ faults \in 0 .. MaxFaults /\ epoch \in 1 .. faults + 1
    /\ v2Sessions \subseteq DOMAIN sessions
    /\ SessionsOK /\ ClientOK
    /\ DOMAIN loops = Loops /\ \A w \in {loops[l] : l \in Loops} : LoopOK(w)
    /\ \A m \in net : MsgOK(m)
    /\ \A r \in replies : ReplyOK(r)

-----------------------------------------------------------------------------

\* The numbers of the six phases, and that a seventh has none.
LEMMA MessageIDs ==
    /\ MidOf("init") = 0 /\ MidOf("auth") = 1 /\ MidOf("identity") = 2
    /\ MidOf("response") = 3 /\ MidOf("ack") = 4 /\ MidOf("final") = 5
    /\ {Phases[i] : i \in DOMAIN Phases} = {"init", "auth", "identity", "response", "ack", "final"}
  <1>1. MidOf("init") = 0 BY DEF MidOf, Phases
  <1>2. MidOf("auth") = 1 BY DEF MidOf, Phases
  <1>3. MidOf("identity") = 2 BY DEF MidOf, Phases
  <1>4. MidOf("response") = 3 BY DEF MidOf, Phases
  <1>5. MidOf("ack") = 4 BY DEF MidOf, Phases
  <1>6. MidOf("final") = 5 BY DEF MidOf, Phases
  <1>7. {Phases[i] : i \in DOMAIN Phases} = {"init", "auth", "identity", "response", "ack", "final"}
    <2>1. DOMAIN Phases = {1, 2, 3, 4, 5, 6} BY DEF Phases
    <2> QED BY <2>1 DEF Phases
  <1> QED BY <1>1, <1>2, <1>3, <1>4, <1>5, <1>6, <1>7

\* The fields of a response.
LEMMA ReplyFields ==
    ASSUME NEW kind, NEW attempt, NEW n, NEW mid
    PROVE  LET r == Reply(kind, attempt, n, mid) IN
           /\ r.kind = kind /\ r.attempt = attempt /\ r.n = n /\ r.mid = mid
           /\ DOMAIN r = {"kind", "attempt", "n", "mid", "group", "cookie", "chal", "secret", "suite"}
  BY DEF Reply

\* What a handler may make of a session, whatever the client does meanwhile.
Follows(s, s2) ==
    /\ s2.attempt = s.attempt
    /\ s.state # "InitRecv" => s2.state # "InitRecv"
    /\ s.children # <<>> => /\ s2.children # <<>>
                            /\ s.attempt = client.attempt => s2.psk = s.psk

SessionOK(s, n) == s \in SessionObjects /\ Negotiated(s) /\ Keyed(s, n)

\* A response of a handler that leaves session number n as s2.
Fits(r, s2, n) ==
    /\ r.mid \in 1 .. 5 /\ r.attempt = s2.attempt /\ r.n = n
    /\ r.kind # "SA_INIT"
    /\ r.kind = "EAP_Identity" => r.mid = 1
    /\ r.kind = "EAP_Challenge" => r.mid = 2
    /\ r.kind = "AUTH" => /\ r.suite = espSuite[profile.esp]
                          /\ s2.children # <<>> /\ r.secret = s2.psk

Good(out, s, n) ==
    /\ SessionOK(out.s, n) /\ Follows(s, out.s)
    /\ out.reply.kind = "silent" \/ Fits(out.reply, out.s, n)

\* A message that is dropped.
LEMMA GoodDrop ==
    ASSUME NEW s, NEW s2, NEW n, SessionOK(s2, n), Follows(s, s2)
    PROVE  Good(drop(s2), s, n)
  <1>1. Silent.kind = "silent"
    BY DEF Silent, Reply
  <1>2. drop(s2).s = s2 /\ drop(s2).reply = Silent
    BY DEF drop, Outcome
  <1> QED BY <1>1, <1>2 DEF Good

\* An error answers with message ID 1 and makes no child SA.
LEMMA GoodError ==
    ASSUME NEW s, NEW s2, NEW n, SessionOK(s2, n), Follows(s, s2),
           NEW kind \in {"AUTHENTICATION_FAILED", "NO_PROPOSAL_CHOSEN"}
    PROVE  Good(buildAuthError(s2, n, kind), s, n)
  <1> DEFINE out == buildAuthError(s2, n, kind)
             r == Reply(kind, s2.attempt, n, 1)
  <1>1. out.s = s2 /\ out.reply = r
    BY DEF buildAuthError, Outcome
  <1>2. r.kind = kind /\ r.attempt = s2.attempt /\ r.n = n /\ r.mid = 1
    BY ReplyFields
  <1> HIDE DEF out, r
  <1>3. Fits(r, s2, n)
    BY <1>2 DEF Fits
  <1> QED BY <1>1, <1>3 DEF Good, out

\* An EAP payload goes out with the message ID of its request.
LEMMA GoodEAP ==
    ASSUME NEW s, NEW s2, NEW n, SessionOK(s2, n), Follows(s, s2), NEW mid \in 1 .. 5, NEW chal,
           NEW kind \in {"EAP_Identity", "EAP_Challenge", "EAP_MSCHAPv2_Success", "EAP_MSCHAPv2_Failure",
                         "EAP_Success", "EAP_Failure"},
           kind = "EAP_Identity" => mid = 1, kind = "EAP_Challenge" => mid = 2
    PROVE  Good(sendEAPPayload(s2, n, mid, kind, chal), s, n)
  <1> DEFINE out == sendEAPPayload(s2, n, mid, kind, chal)
             r0 == Reply(kind, s2.attempt, n, mid)
             r == [r0 EXCEPT !.chal = chal]
  <1>1. out.s = s2 /\ out.reply = r
    BY DEF sendEAPPayload, Outcome
  <1>2. r.kind = kind /\ r.attempt = s2.attempt /\ r.n = n /\ r.mid = mid
    BY ReplyFields
  <1> HIDE DEF out, r
  <1>3. Fits(r, s2, n)
    BY <1>2 DEF Fits
  <1> QED BY <1>1, <1>3 DEF Good, out

\* The one way to a child SA: from a session that has none, or from an empty offer.
LEMMA GoodEstablish ==
    ASSUME profile \in Profiles,
           NEW s, NEW s2, NEW n, SessionOK(s2, n), Follows(s, s2), NEW mid \in 1 .. 5,
           NEW sa \in {<<>>, profile.esp}, s2.children # <<>> => sa = <<>>,
           s2.peerID = profile.id, s2.psk # NoSecret
    PROVE  Good(establish(s2, n, sa, mid), s, n)
  <1> DEFINE out == establish(s2, n, sa, mid)
             child == [suite |-> espSuite[sa], outSPI |-> sa[1].spi]
  <1>1. CASE espSuite[sa] = <<>>
    <2>1. out = buildAuthError(s2, n, "NO_PROPOSAL_CHOSEN")
      BY <1>1 DEF establish
    <2> QED BY <2>1, GoodError
  <1>2. CASE espSuite[sa] # <<>>
    <2>1. sa = profile.esp /\ s2.children = <<>> /\ profile.esp \in SAPayloads
      BY <1>2, EspSuite, ProfilesAssumption
    <2>2. child = TheChild /\ child \in Children
      BY <2>1 DEF TheChild, Children
    <2> DEFINE s3 == [s2 EXCEPT !.children = Append(@, child), !.state = "Established", !.pending = <<>>]
               r0 == Reply("AUTH", s2.attempt, n, mid)
               r == [r0 EXCEPT !.secret = s2.psk, !.suite = child.suite]
    <2>3. out = Outcome(s3, r)
      BY <1>2 DEF establish
    <2>4. out.s = s3 /\ out.reply = r
      BY <2>3 DEF Outcome
    <2>5. Append(s2.children, child) = <<child>>
      BY <2>1
    <2> HIDE DEF child
    <2>6. s2 \in SessionObjects
      BY DEF SessionOK
    <2>7. /\ s3.children = <<child>> /\ s3.state = "Established" /\ s3.pending = <<>>
          /\ s3.attempt = s2.attempt /\ s3.suite = s2.suite /\ s3.peerID = s2.peerID /\ s3.psk = s2.psk
          /\ s3.eapState = s2.eapState /\ s3.nt = s2.nt /\ s3.msk = s2.msk
      BY <2>5, <2>6 DEF SessionObjects
    <2>8. s3 \in SessionObjects
      BY <2>2, <2>5, <2>6 DEF SessionObjects, IKEv2States
    <2>9. /\ r.kind = "AUTH" /\ r.attempt = s2.attempt /\ r.n = n /\ r.mid = mid
          /\ r.secret = s2.psk /\ r.suite = child.suite
      BY ReplyFields
    <2>10. child.suite = espSuite[profile.esp] /\ <<child>> # <<>>
      BY <2>2 DEF TheChild
    <2> HIDE DEF out, r, s3
    <2>11. Negotiated(s3)
      BY <1>2, <2>1, <2>2, <2>7, <2>10 DEF SessionOK, Negotiated
    <2>12. Keyed(s3, n)
      BY <2>7 DEF SessionOK, Keyed
    <2>13. Follows(s, s3)
      BY <2>7, <2>10 DEF Follows
    <2>14. Fits(r, s3, n)
      BY <2>7, <2>9, <2>10 DEF Fits
    <2> QED BY <2>4, <2>8, <2>11, <2>12, <2>13, <2>14 DEF Good, SessionOK, out
  <1> QED BY <1>1, <1>2

\* A secret is of its kind.
LEMMA SecretKind ==
    ASSUME NEW key, NEW chal, NEW kind
    PROVE  /\ Secret(kind, key, chal).kind = kind /\ NoSecret.kind = "none"
           /\ kind # "none" => Secret(kind, key, chal) # NoSecret
  <1>1. Secret(kind, key, chal).kind = kind /\ NoSecret.kind = "none"
    BY DEF Secret, NoSecret
  <1> QED BY <1>1

\* What a session keeps when only its EAP state, identity or secret changes.
LEMMA SameNegotiated ==
    ASSUME NEW s, NEW s2, s \in SessionObjects, Negotiated(s),
           s2.attempt = s.attempt, s2.suite = s.suite, s2.children = s.children,
           s2.pending = s.pending, s2.peerID = s.peerID, s2.state = s.state,
           s.children # <<>> => s2.psk # NoSecret
    PROVE  Negotiated(s2)
  BY DEF Negotiated

\* HandleAuth acts on a session in InitRecv, and names the client in it.
LEMMA GoodHandleAuth ==
    ASSUME profile \in Profiles, NEW n, NEW s, SessionOK(s, n),
           NEW m, MsgOK(m), m.exchange = "IKE_AUTH"
    PROVE  Good(HandleAuth(s, n, m), s, n)
  <1> DEFINE known == [s EXCEPT !.peerID = m.id]
             keyed == [known EXCEPT !.psk = Secret("psk", PSKs[m.id], 0)]
             out == HandleAuth(s, n, m)
  <1>1. Follows(s, s)
    BY DEF Follows
  <1>2. s \in SessionObjects
    BY DEF SessionOK
  <1>3. CASE s.state # "InitRecv" \/ m.id = ""
    <2>1. out = drop(s)
      BY <1>3 DEF HandleAuth
    <2> QED BY <2>1, <1>1, GoodDrop
  <1>4. CASE s.state = "InitRecv" /\ m.id # ""
    <2>1. /\ m.id = profile.id /\ m.sa = profile.esp /\ profile.esp \in SAPayloads
          /\ m.auth = NoAuth <=> profile.method = "eap"
          /\ m.auth # NoAuth => m.auth.secret.kind # "none"
      BY <1>4, ProfilesAssumption DEF MsgOK
    <2>2. s.children = <<>> /\ s.attempt <= client.attempt
      BY <1>4 DEF SessionOK, Negotiated
    <2>3. /\ known.peerID = profile.id /\ known.state = s.state /\ known.attempt = s.attempt
          /\ known.suite = s.suite /\ known.psk = s.psk /\ known.pending = s.pending
          /\ known.eapState = s.eapState /\ known.nt = s.nt /\ known.msk = s.msk
          /\ known.children = s.children
      BY <1>2, <2>1 DEF SessionObjects
    <2>4. known \in SessionObjects
      BY <1>2, <2>1 DEF SessionObjects
    <2>5. out = IF m.auth = NoAuth
                THEN IF config.eap THEN startEAPExchange(known, n, m.sa) ELSE drop(known)
                ELSE IF m.id \notin DOMAIN PSKs THEN drop(known)
                ELSE IF ~verifyAuth(keyed, n, m.auth)
                THEN buildAuthError(keyed, n, "AUTHENTICATION_FAILED")
                ELSE establish(keyed, n, m.sa, 1)
      BY <1>4 DEF HandleAuth
    <2>6. /\ keyed.peerID = profile.id /\ keyed.state = s.state /\ keyed.attempt = s.attempt
          /\ keyed.suite = s.suite /\ keyed.psk = Secret("psk", PSKs[profile.id], 0)
          /\ keyed.pending = s.pending
          /\ keyed.eapState = s.eapState /\ keyed.nt = s.nt /\ keyed.msk = s.msk
          /\ keyed.children = s.children
      <3> HIDE DEF known
      <3> QED BY <2>1, <2>3, <2>4 DEF SessionObjects
    <2>7. profile.id \in DOMAIN PSKs => keyed \in SessionObjects
      <3> SUFFICES ASSUME profile.id \in DOMAIN PSKs PROVE keyed \in SessionObjects
        OBVIOUS
      <3>1. Secret("psk", PSKs[m.id], 0) \in Secrets
        BY <2>1 DEF Secret, Secrets, Keys
      <3> HIDE DEF known
      <3> QED BY <3>1, <2>4 DEF SessionObjects
    <2> HIDE DEF known, keyed, out
    <2>8. SessionOK(known, n) /\ Follows(s, known)
      <3>1. Negotiated(known)
        BY <1>4, <2>2, <2>3 DEF SessionOK, Negotiated
      <3>2. Keyed(known, n)
        BY <2>3 DEF SessionOK, Keyed
      <3> QED BY <3>1, <3>2, <2>2, <2>3, <2>4 DEF SessionOK, Follows
    <2>9. CASE m.auth = NoAuth
      <3> DEFINE t == [known EXCEPT !.pending = m.sa, !.state = "EAPInProgress"]
      <3>1. CASE config.eap
        <4>1. out = sendEAPPayload(t, n, 1, "EAP_Identity", 0)
          BY <2>5, <2>9, <3>1 DEF startEAPExchange
        <4>2. /\ t.peerID = profile.id /\ t.state = "EAPInProgress" /\ t.attempt = s.attempt
              /\ t.suite = s.suite /\ t.psk = s.psk /\ t.pending = profile.esp
              /\ t.eapState = s.eapState /\ t.nt = s.nt /\ t.msk = s.msk
              /\ t.children = <<>>
          BY <2>1, <2>2, <2>3, <2>4 DEF SessionObjects
        <4>3. t \in SessionObjects
          BY <2>1, <2>4 DEF SessionObjects, IKEv2States
        <4> HIDE DEF t
        <4>4. Negotiated(t)
          BY <4>2, <2>2 DEF SessionOK, Negotiated
        <4>5. Keyed(t, n)
          BY <4>2, <2>1, <2>9 DEF SessionOK, Keyed
        <4>6. SessionOK(t, n) /\ Follows(s, t)
          BY <4>2, <4>3, <4>4, <4>5, <2>2 DEF SessionOK, Follows
        <4> QED BY <4>1, <4>6, GoodEAP DEF out
      <3>2. CASE ~ config.eap
        BY <3>2, <2>5, <2>8, <2>9, GoodDrop DEF out
      <3> QED BY <3>1, <3>2
    <2>10. CASE m.auth # NoAuth
      <3>1. CASE m.id \notin DOMAIN PSKs
        BY <3>1, <2>5, <2>8, <2>10, GoodDrop DEF out
      <3>2. CASE m.id \in DOMAIN PSKs
        <4>1. profile.method # "eap" /\ keyed \in SessionObjects
          BY <2>1, <2>7, <2>10, <3>2
        <4>2. keyed.psk # NoSecret
          BY <2>6, SecretKind
        <4>3. Negotiated(keyed)
          BY <1>4, <2>2, <2>6 DEF SessionOK, Negotiated
        <4>4. Keyed(keyed, n)
          BY <2>6, <4>1 DEF SessionOK, Keyed
        <4>5. SessionOK(keyed, n) /\ Follows(s, keyed)
          BY <4>1, <4>3, <4>4, <2>2, <2>6 DEF SessionOK, Follows
        <4>6. out = IF ~verifyAuth(keyed, n, m.auth)
                    THEN buildAuthError(keyed, n, "AUTHENTICATION_FAILED")
                    ELSE establish(keyed, n, m.sa, 1)
          BY <2>5, <2>10, <3>2
        <4>7. Good(buildAuthError(keyed, n, "AUTHENTICATION_FAILED"), s, n)
          BY <4>5, GoodError
        <4>8. Good(establish(keyed, n, m.sa, 1), s, n)
          <5>1. m.sa \in {<<>>, profile.esp} /\ keyed.children = <<>> /\ keyed.peerID = profile.id
                /\ 1 \in 1 .. 5
            BY <2>1, <2>2, <2>6
          <5> QED BY <4>2, <4>5, <5>1, GoodEstablish
        <4> QED BY <4>6, <4>7, <4>8 DEF out
      <3> QED BY <3>1, <3>2
    <2> QED BY <2>9, <2>10
  <1> QED BY <1>3, <1>4 DEF SessionOK, SessionObjects, IKEv2States

\* The message IDs of IKE_AUTH.
LEMMA AuthMid ==
    ASSUME NEW m, MsgOK(m), m.exchange = "IKE_AUTH"
    PROVE  m.mid \in 1 .. 5
  <1>1. m.mid \in 0 .. 5
    BY DEF MsgOK
  <1>2. m.mid >= 1
    BY DEF MsgOK
  <1> QED BY <1>1, <1>2

\* A new challenge withdraws the answer to the old one.
LEMMA GoodIdentity ==
    ASSUME NEW n, NEW s, SessionOK(s, n), s.state # "InitRecv",
           NEW m, MsgOK(m), m.exchange = "IKE_AUTH", m.eap.type = "Identity"
    PROVE  Good(handleEAPIdentity(s, n, m), s, n)
  <1> DEFINE fresh == s.eapState.chal + 1
             state == [type |-> "MSCHAPv2", user |-> m.eap.user, key |-> "", chal |-> fresh]
             t == [s EXCEPT !.eapState = state, !.nt = FALSE]
             out == handleEAPIdentity(s, n, m)
  <1>1. m.mid = 2 /\ m.eap.user = profile.user
    BY DEF MsgOK
  <1>2. s \in SessionObjects /\ Follows(s, s)
    BY DEF SessionOK, Follows
  <1>3. CASE profile.user \notin DOMAIN Passwords
    <2>1. out = sendEAPPayload(s, n, m.mid, "EAP_Failure", 0)
      BY <1>1, <1>3 DEF handleEAPIdentity, sendEAPFailure
    <2> QED BY <2>1, <1>1, <1>2, GoodEAP
  <1>4. CASE profile.user \in DOMAIN Passwords
    <2>1. out = sendEAPPayload(t, n, m.mid, "EAP_Challenge", fresh)
      BY <1>1, <1>4 DEF handleEAPIdentity
    <2>2. s.eapState.chal \in Nat
      BY <1>2 DEF SessionObjects, EAPStates
    <2>3. state \in EAPStates /\ state.user = profile.user
      <3>1. fresh \in Nat /\ m.eap.user \in DOMAIN Passwords
        BY <1>1, <1>4, <2>2
      <3> HIDE DEF fresh
      <3> QED BY <3>1, <1>1 DEF EAPStates
    <2> HIDE DEF state
    <2>4. /\ t.peerID = s.peerID /\ t.state = s.state /\ t.attempt = s.attempt /\ t.suite = s.suite
          /\ t.psk = s.psk /\ t.pending = s.pending /\ t.msk = s.msk /\ t.children = s.children
          /\ t.eapState = state /\ t.nt = FALSE
      BY <1>2 DEF SessionObjects
    <2>5. t \in SessionObjects
      BY <1>2, <2>3 DEF SessionObjects
    <2> HIDE DEF t
    <2>6. Negotiated(t)
      BY <1>2, <2>4, SameNegotiated DEF SessionOK, Negotiated
    <2>7. Keyed(t, n)
      BY <1>4, <2>3, <2>4 DEF SessionOK, Keyed
    <2>8. SessionOK(t, n) /\ Follows(s, t)
      BY <2>4, <2>5, <2>6, <2>7 DEF SessionOK, Follows
    <2> QED BY <1>1, <2>1, <2>8, GoodEAP
  <1> QED BY <1>3, <1>4

\* A response that verifies is the client's own answer to the challenge that stands.
LEMMA GoodResponse ==
    ASSUME NEW n, NEW s, SessionOK(s, n), s.eapState # NoEAP, NEW m, MsgOK(m),
           m.exchange = "IKE_AUTH", m.eap.type = "Response", m.n = n, m.attempt = s.attempt
    PROVE  Good(handleMSCHAPv2Response(s, n, m), s, n)
  <1> DEFINE t == [s EXCEPT !.nt = TRUE]
             out == handleMSCHAPv2Response(s, n, m)
  <1>1. m.mid \in 1 .. 5 /\ (m.attempt = client.attempt => Late /\ m.eap.chal = client.chal /\ m.n = client.n)
    BY AuthMid DEF MsgOK
  <1>2. s \in SessionObjects /\ Follows(s, s)
    BY DEF SessionOK, Follows
  <1>3. CASE ~ VerifyMSCHAPv2Response(s, m.eap)
    <2>1. out = sendEAPPayload(s, n, m.mid, "EAP_MSCHAPv2_Failure", 0)
      BY <1>3 DEF handleMSCHAPv2Response
    <2> QED BY <2>1, <1>1, <1>2, GoodEAP
  <1>4. CASE VerifyMSCHAPv2Response(s, m.eap)
    <2>1. out = sendEAPPayload(t, n, m.mid, "EAP_MSCHAPv2_Success", 0)
      BY <1>4 DEF handleMSCHAPv2Response
    <2>2. m.eap.chal = s.eapState.chal
      BY <1>4 DEF VerifyMSCHAPv2Response
    <2>4. /\ t.peerID = s.peerID /\ t.state = s.state /\ t.attempt = s.attempt /\ t.suite = s.suite
          /\ t.psk = s.psk /\ t.pending = s.pending /\ t.msk = s.msk /\ t.children = s.children
          /\ t.eapState = s.eapState
      BY <1>2 DEF SessionObjects
    <2>5. t \in SessionObjects
      BY <1>2 DEF SessionObjects
    <2> HIDE DEF t
    <2>6. Negotiated(t)
      BY <1>2, <2>4, SameNegotiated DEF SessionOK, Negotiated
    <2>7. Keyed(t, n)
      BY <1>1, <2>2, <2>4 DEF SessionOK, Keyed
    <2>8. SessionOK(t, n) /\ Follows(s, t)
      BY <2>4, <2>5, <2>6, <2>7 DEF SessionOK, Follows
    <2> QED BY <1>1, <2>1, <2>8, GoodEAP
  <1> QED BY <1>3, <1>4

\* The MSK is derived from the answer that stands; there is no second one in an attempt.
LEMMA GoodSuccessAck ==
    ASSUME NEW n, NEW s, SessionOK(s, n), s.eapState # NoEAP, s.state # "InitRecv",
           profile.method = "eap", NEW m, MsgOK(m), m.exchange = "IKE_AUTH"
    PROVE  Good(handleMSCHAPv2SuccessAck(s, n, m), s, n)
  <1> DEFINE derived == Secret("msk", Passwords[s.eapState.user], s.eapState.chal)
             k == IF s.nt THEN derived ELSE s.msk
             t == [s EXCEPT !.msk = k, !.state = "EAPDone"]
             out == handleMSCHAPv2SuccessAck(s, n, m)
  <1>1. m.mid \in 1 .. 5
    BY AuthMid
  <1>2. s \in SessionObjects
    BY DEF SessionOK
  <1>3. s.eapState.user = profile.user /\ profile.user \in DOMAIN Passwords /\ s.eapState.chal \in Nat
    BY <1>2 DEF SessionOK, Keyed, SessionObjects, EAPStates
  <1>4. derived \in Secrets /\ derived # NoSecret
    <2>1. derived \in Secrets
      BY <1>3 DEF Secret, Secrets, Keys
    <2> QED BY <2>1, SecretKind
  <1>5. k \in Secrets
    BY <1>2, <1>4 DEF SessionObjects
  <1>6. out = sendEAPPayload(t, n, m.mid, "EAP_Success", 0)
    BY <1>2 DEF handleMSCHAPv2SuccessAck, SessionObjects
  <1>7. s.attempt = client.attempt =>
           /\ k # NoSecret => n = client.n /\ Late /\ k = Secret("msk", Passwords[profile.user], client.chal)
           /\ s.psk # NoSecret => s.psk = k
    <2> SUFFICES ASSUME s.attempt = client.attempt
                 PROVE  /\ k # NoSecret => /\ n = client.n /\ Late
                                           /\ k = Secret("msk", Passwords[profile.user], client.chal)
                        /\ s.psk # NoSecret => s.psk = k
      OBVIOUS
    <2> HIDE DEF derived
    <2>1. s.nt => n = client.n /\ Late /\ derived = Secret("msk", Passwords[profile.user], client.chal)
      BY <1>3 DEF SessionOK, Keyed, derived
    <2>2. /\ s.msk # NoSecret => /\ n = client.n /\ Late
                                 /\ s.msk = Secret("msk", Passwords[profile.user], client.chal)
          /\ s.psk # NoSecret => s.psk = s.msk
      BY DEF SessionOK, Keyed
    <2> QED BY <2>1, <2>2
  <1> HIDE DEF k
  <1>8. /\ t.peerID = s.peerID /\ t.state = "EAPDone" /\ t.attempt = s.attempt /\ t.suite = s.suite
        /\ t.psk = s.psk /\ t.pending = s.pending /\ t.msk = k /\ t.children = s.children
        /\ t.eapState = s.eapState /\ t.nt = s.nt
    BY <1>2 DEF SessionObjects
  <1>9. t \in SessionObjects
    BY <1>2, <1>5 DEF SessionObjects, IKEv2States
  <1> HIDE DEF t
  <1>10. Negotiated(t)
    BY <1>8 DEF SessionOK, Negotiated
  <1>11. Keyed(t, n)
    BY <1>7, <1>8 DEF SessionOK, Keyed
  <1>12. SessionOK(t, n) /\ Follows(s, t)
    BY <1>8, <1>9, <1>10, <1>11 DEF SessionOK, Follows
  <1> QED BY <1>1, <1>6, <1>12, GoodEAP

\* The final AUTH makes the child of the pending SA; there is none after the first.
LEMMA GoodFinal ==
    ASSUME profile \in Profiles, NEW n, NEW s, SessionOK(s, n), s.state # "InitRecv",
           profile.method = "eap", NEW m, MsgOK(m), m.exchange = "IKE_AUTH"
    PROVE  Good(handleFinalEAPAuth(s, n, m), s, n)
  <1> DEFINE k == IF s.msk /= NoSecret THEN s.msk ELSE s.psk
             t == [s EXCEPT !.psk = k]
             out == handleFinalEAPAuth(s, n, m)
  <1>1. /\ m.mid \in 1 .. 5
        /\ m.auth # NoAuth => m.auth.secret.kind # "none" /\ m.auth.method = "psk"
    BY AuthMid DEF MsgOK
  <1>2. s \in SessionObjects /\ Follows(s, s) /\ s.peerID = profile.id
    BY DEF SessionOK, Follows, Negotiated
  <1>3. CASE m.auth = NoAuth
    <2>1. out = drop(s)
      BY <1>3 DEF handleFinalEAPAuth
    <2> QED BY <2>1, <1>2, GoodDrop
  <1>4. CASE m.auth # NoAuth
    <2>1. out = IF ~verifyAuth(t, n, m.auth) THEN buildAuthError(t, n, "AUTHENTICATION_FAILED")
                ELSE establish(t, n, s.pending, m.mid)
      BY <1>2, <1>4 DEF handleFinalEAPAuth, SessionObjects
    <2>2. k \in Secrets /\ (s.psk # NoSecret => k # NoSecret)
      BY <1>2 DEF SessionObjects
    <2>3. s.attempt = client.attempt => (s.psk # NoSecret => k = s.psk) /\ (k # NoSecret => k = s.msk)
      BY DEF SessionOK, Keyed
    <2> HIDE DEF k
    <2>4. /\ t.peerID = s.peerID /\ t.state = s.state /\ t.attempt = s.attempt /\ t.suite = s.suite
          /\ t.psk = k /\ t.pending = s.pending /\ t.msk = s.msk /\ t.children = s.children
          /\ t.eapState = s.eapState /\ t.nt = s.nt
      BY <1>2 DEF SessionObjects
    <2>5. t \in SessionObjects
      BY <1>2, <2>2 DEF SessionObjects
    <2> HIDE DEF t
    <2>6. Negotiated(t)
      BY <1>2, <2>2, <2>4 DEF SessionOK, Negotiated
    <2>7. Keyed(t, n)
      BY <2>3, <2>4 DEF SessionOK, Keyed
    <2>8. SessionOK(t, n) /\ Follows(s, t)
      BY <2>3, <2>4, <2>5, <2>6, <2>7 DEF SessionOK, Follows, Negotiated
    <2>9. CASE ~ verifyAuth(t, n, m.auth)
      BY <2>1, <2>8, <2>9, GoodError
    <2>10. CASE verifyAuth(t, n, m.auth)
      <3>1. m.auth = Auth("psk", t.psk, n, t.peerID)
        BY <1>1, <1>4, <2>10 DEF verifyAuth
      <3>2. m.auth.secret = t.psk
        BY <3>1 DEF Auth
      <3>3. t.psk # NoSecret
        BY <3>2, <1>1, <1>4, SecretKind
      <3>4. s.pending \in {<<>>, profile.esp} /\ (t.children # <<>> => s.pending = <<>>)
        BY <2>4 DEF SessionOK, Negotiated
      <3>5. Good(establish(t, n, s.pending, m.mid), s, n)
        BY <1>1, <1>2, <2>4, <2>8, <3>3, <3>4, GoodEstablish
      <3> QED BY <2>1, <2>10, <3>5
    <2> QED BY <2>9, <2>10
  <1> QED BY <1>3, <1>4

\* The EAP handler, by the state of the moment.
LEMMA GoodHandleAuthEAP ==
    ASSUME profile \in Profiles, NEW n, NEW s, SessionOK(s, n), s.state # "InitRecv",
           profile.method = "eap", NEW m, MsgOK(m), m.exchange = "IKE_AUTH",
           m.n = n, m.attempt = s.attempt
    PROVE  Good(HandleAuthEAP(s, n, m), s, n)
  <1>1. CASE s.state = "EAPDone"
    BY <1>1, GoodFinal DEF HandleAuthEAP
  <1>2. CASE s.state # "EAPDone"
    <2>1. HandleAuthEAP(s, n, m) = processEAPResponse(s, n, m)
      BY <1>2 DEF HandleAuthEAP
    <2>2. Follows(s, s) /\ m.eap.type \in EAPTypes /\ m.mid \in 1 .. 5
      BY AuthMid DEF Follows, MsgOK
    <2>3. CASE m.eap.type = "Identity"
      <3>1. processEAPResponse(s, n, m) = handleEAPIdentity(s, n, m)
        BY <2>3 DEF processEAPResponse
      <3> QED BY <3>1, <2>1, <2>3, GoodIdentity
    <2>4. CASE m.eap.type \in {"Response", "SuccessAck"} /\ s.eapState = NoEAP
      <3>1. processEAPResponse(s, n, m) = drop(s)
        BY <2>4 DEF processEAPResponse
      <3> QED BY <3>1, <2>1, <2>2, GoodDrop
    <2>5. CASE m.eap.type = "Response" /\ s.eapState # NoEAP
      <3>1. processEAPResponse(s, n, m) = handleMSCHAPv2Response(s, n, m)
        BY <2>5 DEF processEAPResponse
      <3> QED BY <3>1, <2>1, <2>5, GoodResponse
    <2>6. CASE m.eap.type = "SuccessAck" /\ s.eapState # NoEAP
      <3>1. processEAPResponse(s, n, m) = handleMSCHAPv2SuccessAck(s, n, m)
        BY <2>6 DEF processEAPResponse
      <3> QED BY <3>1, <2>1, <2>6, GoodSuccessAck
    <2>7. CASE m.eap.type \in {"TLS", "none"}
      <3>1. processEAPResponse(s, n, m) = drop(s)
        BY <2>7 DEF processEAPResponse
      <3> QED BY <3>1, <2>1, <2>2, GoodDrop
    <2>8. CASE m.eap.type = "NAK"
      <3>1. processEAPResponse(s, n, m) = sendEAPPayload(s, n, m.mid, "EAP_Failure", 0)
        BY <2>8 DEF processEAPResponse, sendEAPFailure
      <3> QED BY <3>1, <2>1, <2>2, GoodEAP
    <2> QED BY <2>2, <2>3, <2>4, <2>5, <2>6, <2>7, <2>8 DEF EAPTypes
  <1> QED BY <1>1, <1>2

-----------------------------------------------------------------------------

(***************************************************************************)
(* What no step takes back: the attempts only grow, and within one the     *)
(* client keeps its session and its challenge; sessions stay where they    *)
(* are and follow what they were.                                          *)
(***************************************************************************)
Carry ==
    /\ profile' = profile
    /\ client.attempt \in Nat /\ client'.attempt \in Nat /\ client.attempt <= client'.attempt
    /\ client'.attempt = client.attempt =>
          /\ client.phase # "init" => client'.phase # "init" /\ client'.n = client.n
          /\ Late => Late' /\ client'.chal = client.chal
    /\ Len(sessions) \in Nat /\ Len(sessions') \in Nat /\ Len(sessions) <= Len(sessions')
    /\ DOMAIN sessions = 1 .. Len(sessions) /\ DOMAIN sessions' = 1 .. Len(sessions')
    /\ \A n \in DOMAIN sessions : Follows(sessions[n], sessions'[n])

\* What a request says stays true of what is carried.
LEMMA CarryMsg ==
    ASSUME Carry, NEW m, MsgOK(m)
    PROVE  MsgOK(m)'
  <1>0. /\ m.mid \in 0 .. 5 /\ m.attempt \in 1 .. client.attempt /\ m.n \in 0 .. Len(sessions)
        /\ m.exchange \in {"SA_INIT", "IKE_AUTH"}
        /\ m.exchange = "SA_INIT" => m.sa = profile.ike
    BY DEF MsgOK
  <1>1. m.attempt \in 1 .. client'.attempt /\ m.n \in 0 .. Len(sessions') /\ profile' = profile
    BY <1>0 DEF Carry
  <1>2. ASSUME m.exchange = "IKE_AUTH"
        PROVE  /\ m.mid >= 1
               /\ m.n \in DOMAIN sessions' /\ sessions'[m.n].attempt = m.attempt
               /\ m.attempt = client'.attempt => client'.phase # "init" /\ m.n = client'.n
               /\ m.id # "" => /\ m.id = profile'.id /\ m.sa = profile'.esp
                               /\ m.auth = NoAuth <=> profile'.method = "eap"
               /\ m.auth # NoAuth => /\ m.auth.secret.kind # "none"
                                     /\ profile'.method = "eap" => m.auth.method = "psk"
               /\ m.eap.type \in EAPTypes
               /\ m.eap.type = "Identity" => m.mid = 2 /\ m.eap.user = profile'.user
               /\ m.eap.type = "Response" /\ m.attempt = client'.attempt =>
                     Late' /\ m.eap.chal = client'.chal
    <2>1. m.n \in DOMAIN sessions /\ sessions[m.n].attempt = m.attempt /\ m.attempt \in 1 .. client.attempt
      BY <1>2 DEF MsgOK
    <2>2. m.n \in DOMAIN sessions' /\ sessions'[m.n].attempt = m.attempt
      BY <2>1 DEF Carry, Follows
    <2>3. m.attempt = client'.attempt => client'.attempt = client.attempt /\ m.attempt = client.attempt
      BY <2>1 DEF Carry
    <2>4. m.attempt = client'.attempt => client'.phase # "init" /\ m.n = client'.n
      BY <2>3, <1>2 DEF Carry, MsgOK
    <2>5. m.eap.type = "Response" /\ m.attempt = client'.attempt => Late' /\ m.eap.chal = client'.chal
      BY <2>3, <1>2 DEF Carry, MsgOK
    <2> QED BY <1>2, <2>2, <2>4, <2>5 DEF Carry, MsgOK
  <1> QED BY <1>0, <1>1, <1>2 DEF MsgOK

\* So does what a read loop has in hand.
LEMMA CarryLoop ==
    ASSUME Carry, NEW w, LoopOK(w)
    PROVE  LoopOK(w)'
  <1>1. CASE w = Idle BY <1>1 DEF LoopOK
  <1>2. CASE w # Idle
    <2>1. MsgOK(w.msg)' BY <1>2, CarryMsg DEF LoopOK
    <2>2. w.route = "eap" => w.msg.n \in DOMAIN sessions
      BY <1>2 DEF LoopOK, MsgOK
    <2>3. w.route = "eap" => sessions'[w.msg.n].state # "InitRecv" /\ profile'.method = "eap"
      BY <1>2, <2>2 DEF LoopOK, Carry, Follows
    <2> QED BY <1>2, <2>1, <2>3 DEF LoopOK
  <1> QED BY <1>1, <1>2

\* And what a response says.
LEMMA CarryReply ==
    ASSUME Carry, NEW r, ReplyOK(r)
    PROVE  ReplyOK(r)'
  <1>1. r.attempt \in 1 .. client'.attempt /\ r.n \in 0 .. Len(sessions') /\ r.mid \in 0 .. 5
    BY DEF Carry, ReplyOK
  <1>2. r.kind = "SA_INIT" => /\ r.mid = 0 /\ r.suite = ikeSuite[profile'.ike]
                              /\ r.n \in DOMAIN sessions' /\ sessions'[r.n].attempt = r.attempt
    BY DEF Carry, ReplyOK, Follows
  <1>3. ASSUME r.kind = "AUTH"
        PROVE  /\ r.mid >= 1 /\ r.suite = espSuite[profile'.esp]
               /\ r.n \in DOMAIN sessions' /\ sessions'[r.n].attempt = r.attempt
               /\ sessions'[r.n].children # <<>>
               /\ r.attempt = client'.attempt => r.secret = sessions'[r.n].psk
    <2>1. /\ r.mid >= 1 /\ r.suite = espSuite[profile.esp]
          /\ r.n \in DOMAIN sessions /\ sessions[r.n].attempt = r.attempt
          /\ sessions[r.n].children # <<>>
          /\ r.attempt = client.attempt => r.secret = sessions[r.n].psk
      BY <1>3 DEF ReplyOK
    <2>2. Follows(sessions[r.n], sessions'[r.n]) /\ r.n \in DOMAIN sessions'
      BY <2>1 DEF Carry
    <2>3. r.attempt = client'.attempt => r.attempt = client.attempt
      BY DEF ReplyOK, Carry
    <2> QED BY <2>1, <2>2, <2>3 DEF Follows, Carry
  <1>4. /\ r.kind = "EAP_Identity" => r.mid = 1
        /\ r.kind = "EAP_Challenge" => r.mid = 2
        /\ r.kind \in {"EAP_MSCHAPv2_Success", "EAP_Success"} => r.mid >= 1
    BY DEF ReplyOK
  <1> QED BY <1>1, <1>2, <1>3, <1>4 DEF ReplyOK

\* A step keeps the invariant if it carries what there is and what it adds is in order.
LEMMA Assemble ==
    ASSUME IInv, Carry, SessionsOK', ClientOK', config' = config,
           faults' \in 0 .. MaxFaults, epoch' \in 1 .. faults' + 1,
           v2Sessions' \subseteq DOMAIN sessions', DOMAIN loops' = Loops,
           \A l \in Loops : \A w : w = loops'[l] => w = loops[l] \/ LoopOK(w)',
           \A m \in net' : m \in net \/ MsgOK(m)',
           \A r \in replies' : r \in replies \/ ReplyOK(r)'
    PROVE  IInv'
  <1>1. \A m \in net' : MsgOK(m)'
    <2> SUFFICES ASSUME NEW m \in net' PROVE MsgOK(m)'
      OBVIOUS
    <2>1. CASE m \in net BY <2>1, CarryMsg DEF IInv
    <2>2. CASE m \notin net BY <2>2
    <2> QED BY <2>1, <2>2
  <1>2. \A r \in replies' : ReplyOK(r)'
    <2> SUFFICES ASSUME NEW r \in replies' PROVE ReplyOK(r)'
      OBVIOUS
    <2>1. CASE r \in replies BY <2>1, CarryReply DEF IInv
    <2>2. CASE r \notin replies BY <2>2
    <2> QED BY <2>1, <2>2
  <1>3. \A w \in {loops'[l] : l \in Loops} : LoopOK(w)'
    <2> SUFFICES ASSUME NEW w \in {loops'[l] : l \in Loops} PROVE LoopOK(w)'
      OBVIOUS
    <2>1. PICK l \in Loops : w = loops'[l] OBVIOUS
    <2>2. CASE w = loops[l]
      <3>1. LoopOK(w) BY <2>2 DEF IInv
      <3> QED BY <3>1, CarryLoop
    <2>3. CASE w # loops[l] BY <2>1, <2>3
    <2> QED BY <2>2, <2>3
  <1>4. config' \in Configs /\ profile' \in Profiles
    BY DEF IInv, Carry
  <1> QED BY <1>1, <1>2, <1>3, <1>4 DEF IInv

\* The parts of the invariant that every step needs.
LEMMA IInvParts ==
    ASSUME IInv
    PROVE  /\ profile \in Profiles /\ profile.ike \in SAPayloads /\ profile.esp \in SAPayloads
           /\ sessions \in Seq(SessionObjects) /\ Len(sessions) \in Nat /\ DOMAIN sessions = 1 .. Len(sessions)
           /\ \A n \in DOMAIN sessions : SessionOK(sessions[n], n)
           /\ client.attempt \in 1 .. MaxFaults + 1 /\ client.attempt \in Nat /\ MaxFaults \in Nat
           /\ faults \in 0 .. MaxFaults /\ epoch \in 1 .. faults + 1
           /\ v2Sessions \subseteq DOMAIN sessions /\ DOMAIN loops = Loops
  <1>1. sessions \in Seq(SessionObjects) /\ \A n \in DOMAIN sessions : Negotiated(sessions[n]) /\ Keyed(sessions[n], n)
    BY DEF IInv, SessionsOK
  <1>2. Len(sessions) \in Nat /\ DOMAIN sessions = 1 .. Len(sessions)
        /\ \A n \in DOMAIN sessions : sessions[n] \in SessionObjects
    BY <1>1
  <1>3. \A n \in DOMAIN sessions : SessionOK(sessions[n], n)
    BY <1>1, <1>2 DEF SessionOK
  <1>4. profile \in Profiles /\ profile.ike \in SAPayloads /\ profile.esp \in SAPayloads
    BY ProfilesAssumption DEF IInv
  <1>5. client.attempt \in 1 .. MaxFaults + 1 /\ MaxFaults \in Nat
    BY MaxFaultsAssumption DEF IInv, ClientOK
  <1>6. client.attempt \in Nat BY <1>5
  <1>7. faults \in 0 .. MaxFaults /\ epoch \in 1 .. faults + 1
        /\ v2Sessions \subseteq DOMAIN sessions /\ DOMAIN loops = Loops
    BY DEF IInv
  <1> QED BY <1>1, <1>2, <1>3, <1>4, <1>5, <1>6, <1>7

\* Where sessions and client stay, everything is carried.
LEMMA CarrySame ==
    ASSUME IInv, UNCHANGED <<profile, client, sessions>>
    PROVE  Carry /\ SessionsOK' /\ ClientOK'
  <1>1. Carry
    <2>1. \A n \in DOMAIN sessions : Follows(sessions[n], sessions'[n])
      BY DEF Follows
    <2>2. client' = client /\ profile' = profile /\ sessions' = sessions
      OBVIOUS
    <2>3. Late => Late'
      BY <2>2 DEF Late
    <2> QED BY <2>1, <2>2, <2>3, IInvParts DEF Carry
  <1>2. SessionsOK'
    BY DEF IInv, SessionsOK, Negotiated, Keyed, Late, TheChild
  <1>3. ClientOK'
    BY DEF IInv, ClientOK, ClientSecret
  <1> QED BY <1>1, <1>2, <1>3

\* A read loop takes a request and chooses the handler by the state it sees.
LEMMA TakeKeeps ==
    ASSUME IInv, NEW l \in Loops, NEW m \in net, NEW copy \in BOOLEAN, Take(l, m, copy),
           UNCHANGED <<profile, client>>, faults' \in 0 .. MaxFaults, faults' >= faults
    PROVE  IInv'
  <1>1. /\ net' \subseteq net /\ UNCHANGED <<config, sessions, v2Sessions, epoch, replies>>
        /\ loops' = IF ParseMessage(m) /\ (m.exchange = "IKE_AUTH" => m.n \in v2Sessions)
                    THEN [loops EXCEPT ![l] = [route |-> routeOf(m), msg |-> m]]
                    ELSE loops
    BY DEF Take
  <1>2. Carry /\ SessionsOK' /\ ClientOK'
    BY <1>1, CarrySame
  <1>3. DOMAIN loops' = Loops
    BY <1>1, IInvParts
  <1>w. PICK w : w = [route |-> routeOf(m), msg |-> m]
    OBVIOUS
  <1>4. MsgOK(m)
    BY DEF IInv
  <1>5. m.exchange = "IKE_AUTH" => SessionOK(sessions[m.n], m.n)
    BY <1>4, IInvParts DEF MsgOK
  <1>6. m.exchange = "IKE_AUTH" /\ routeOf(m) = "eap" => sessions[m.n].state # "InitRecv" /\ profile.method = "eap"
    BY <1>5 DEF routeOf, SessionOK, Keyed
  <1>7. w.route = routeOf(m) /\ w.msg = m
    BY <1>w
  <1>8. LoopOK(w)
    <2>1. m.exchange \in {"SA_INIT", "IKE_AUTH"}
      BY <1>4 DEF MsgOK
    <2>2. /\ routeOf(m) \in {"init", "auth", "eap"} /\ (routeOf(m) = "init" <=> m.exchange = "SA_INIT")
          /\ (routeOf(m) = "eap" => m.exchange = "IKE_AUTH")
      BY <2>1 DEF routeOf
    <2> QED BY <1>4, <1>6, <1>7, <2>2 DEF LoopOK
  <1>9. LoopOK(w)'
    BY <1>2, <1>8, CarryLoop
  <1>10. \A k \in Loops : \A v : v = loops'[k] => v = loops[k] \/ LoopOK(v)'
    <2> SUFFICES ASSUME NEW k \in Loops, NEW v, v = loops'[k], v # loops[k] PROVE LoopOK(v)'
      OBVIOUS
    <2>1. v = w BY <1>1, <1>w, IInvParts
    <2> QED BY <2>1, <1>9
  <1>11. epoch' \in 1 .. faults' + 1 /\ v2Sessions' \subseteq DOMAIN sessions'
    BY <1>1, IInvParts
  <1>12. \A r \in replies' : r \in replies \/ ReplyOK(r)'
    BY <1>1
  <1>13. \A k \in net' : k \in net \/ MsgOK(k)'
    BY <1>1
  <1> QED BY <1>1, <1>2, <1>3, <1>10, <1>11, <1>12, <1>13, Assemble

\* What is said of a session does not depend on the steps of others.
LEMMA SessionStays ==
    ASSUME UNCHANGED <<profile, client>>, NEW n, NEW s, SessionOK(s, n), s = sessions'[n]
    PROVE  Negotiated(sessions[n])' /\ Keyed(sessions[n], n)'
  <1>1. client' = client /\ profile' = profile
    OBVIOUS
  <1>2. Negotiated(sessions[n])'
    BY <1>1 DEF SessionOK, Negotiated, TheChild
  <1>3. Keyed(sessions[n], n)'
    BY <1>1 DEF SessionOK, Keyed, Late
  <1> QED BY <1>2, <1>3

\* A client that waits keeps its session, and one that is connected its secret.
LEMMA ClientStays ==
    ASSUME IInv, Carry, client' = client
    PROVE  ClientOK'
  <1>1. profile' = profile /\ ClientOK
    BY DEF IInv, Carry
  <1>2. /\ DOMAIN client' = ClientFields /\ client'.phase \in ClientPhases
        /\ client'.attempt \in 1 .. MaxFaults + 1 /\ client'.n \in 0 .. Len(sessions)
    BY <1>1 DEF ClientOK
  <1>3. client'.n \in 0 .. Len(sessions')
    BY <1>2 DEF Carry
  <1>4. ASSUME client.phase \notin {"init", "failed"}
        PROVE  /\ client'.n \in DOMAIN sessions' /\ sessions'[client'.n].attempt = client'.attempt
               /\ client'.ikeSuite = ikeSuite[profile'.ike]
               /\ Follows(sessions[client.n], sessions'[client.n])
               /\ sessions[client.n].attempt = client.attempt
    <2>1. client.n \in DOMAIN sessions /\ sessions[client.n].attempt = client.attempt
          /\ client.ikeSuite = ikeSuite[profile.ike]
      BY <1>1, <1>4 DEF ClientOK
    <2>2. client.n \in DOMAIN sessions' /\ Follows(sessions[client.n], sessions'[client.n])
      BY <2>1 DEF Carry
    <2> QED BY <1>1, <2>1, <2>2 DEF Follows
  <1>5. ClientSecret(client)' = ClientSecret(client)
    BY <1>1 DEF ClientSecret
  <1>6. ASSUME client.phase = "done"
        PROVE  /\ sessions'[client'.n].children # <<>> /\ client'.suite = espSuite[profile'.esp]
               /\ sessions'[client'.n].psk = ClientSecret(client)'
    <2>1. /\ sessions[client.n].children # <<>> /\ client.suite = espSuite[profile.esp]
          /\ sessions[client.n].psk = ClientSecret(client)
      BY <1>1, <1>6 DEF ClientOK
    <2> QED BY <1>1, <1>4, <1>5, <1>6, <2>1 DEF Follows
  <1> QED BY <1>2, <1>3, <1>4, <1>6 DEF ClientOK

\* The IKE_AUTH handlers, under the mutex of the session.
LEMMA HandleKeeps ==
    ASSUME IInv, NEW l \in Loops, Handle(l), UNCHANGED <<profile, client, faults>>
    PROVE  IInv'
  <1>1. PICK w : w = loops[l] OBVIOUS
  <1> DEFINE m == w.msg
             n == m.n
             s == sessions[n]
  <1>2. /\ w.route \in {"eap", "auth"} /\ UNCHANGED <<config, v2Sessions, epoch, net>>
        /\ loops' = [loops EXCEPT ![l] = Idle]
    BY <1>1 DEF Handle
  <1>3. PICK out : /\ out = IF w.route = "eap" THEN HandleAuthEAP(s, n, m) ELSE HandleAuth(s, n, m)
                   /\ sessions' = [sessions EXCEPT ![n] = out.s] /\ send(out.reply)
    BY <1>1 DEF Handle
  <1>4. LoopOK(w) /\ w # Idle
    BY <1>1, <1>2 DEF IInv, Idle
  <1>5. /\ MsgOK(m) /\ m.exchange = "IKE_AUTH" /\ n \in DOMAIN sessions /\ s.attempt = m.attempt
        /\ w.route = "eap" => s.state # "InitRecv" /\ profile.method = "eap"
    <2>1. MsgOK(m) /\ m.exchange = "IKE_AUTH" BY <1>2, <1>4 DEF LoopOK, MsgOK
    <2>2. w.route = "eap" => s.state # "InitRecv" /\ profile.method = "eap"
      BY <1>4 DEF LoopOK
    <2> QED BY <2>1, <2>2 DEF MsgOK
  <1>6. SessionOK(s, n) /\ profile \in Profiles
    BY <1>5, IInvParts
  <1>7. Good(out, s, n)
    BY <1>3, <1>5, <1>6, GoodHandleAuth, GoodHandleAuthEAP
  <1> DEFINE s2 == out.s
  <1>8. SessionOK(s2, n) /\ Follows(s, s2) /\ s2 \in SessionObjects
    BY <1>7 DEF Good, SessionOK
  <1> HIDE DEF m, n
  <1>9. /\ sessions' \in Seq(SessionObjects) /\ Len(sessions') = Len(sessions)
        /\ DOMAIN sessions' = DOMAIN sessions
        /\ \A k \in DOMAIN sessions : sessions'[k] = IF k = n THEN s2 ELSE sessions[k]
    <2> HIDE DEF s2
    <2> QED BY <1>3, <1>5, <1>8, IInvParts DEF s2
  <1>10. Carry
    <2>1. \A k \in DOMAIN sessions : Follows(sessions[k], sessions'[k])
      BY <1>8, <1>9 DEF Follows
    <2>2. client' = client /\ profile' = profile /\ (Late => Late')
      BY DEF Late
    <2> QED BY <1>9, <2>1, <2>2, IInvParts DEF Carry
  <1>11. SessionsOK'
    <2>1. ASSUME NEW k \in DOMAIN sessions' PROVE Negotiated(sessions[k])' /\ Keyed(sessions[k], k)'
      <3>1. PICK x : x = sessions'[k] OBVIOUS
      <3>2. SessionOK(x, k)
        BY <1>8, <1>9, <3>1, IInvParts
      <3> QED BY <3>1, <3>2, SessionStays
    <2> QED BY <1>9, <2>1 DEF SessionsOK
  <1>12. ClientOK'
    BY <1>10, ClientStays
  <1>13. \A r \in replies' : r \in replies \/ ReplyOK(r)'
    <2> SUFFICES ASSUME NEW r \in replies', r \notin replies PROVE ReplyOK(r)'
      OBVIOUS
    <2>1. r = out.reply /\ r.kind # "silent"
      BY <1>3 DEF send
    <2>2. Fits(r, s2, n)
      BY <1>7, <2>1 DEF Good
    <2>3. n \in DOMAIN sessions' /\ sessions'[n] = s2 /\ n \in 0 .. Len(sessions')
      BY <1>5, <1>9, IInvParts DEF n
    <2>4. s2.attempt \in 1 .. client.attempt
      <3>1. s2.attempt \in 1 .. MaxFaults + 1 /\ s2.attempt <= client.attempt
        BY <1>8 DEF SessionOK, Negotiated, SessionObjects
      <3> QED BY <3>1, IInvParts
    <2>5. client' = client /\ profile' = profile
      OBVIOUS
    <2>6. r.mid \in 0 .. 5 /\ r.mid >= 1
      BY <2>2 DEF Fits
    <2> QED BY <2>2, <2>3, <2>4, <2>5, <2>6 DEF Fits, ReplyOK
  <1>14. DOMAIN loops' = Loops /\ \A k \in Loops : \A v : v = loops'[k] => v = loops[k] \/ LoopOK(v)'
    BY <1>2, IInvParts DEF LoopOK
  <1>15. /\ epoch' \in 1 .. faults' + 1 /\ v2Sessions' \subseteq DOMAIN sessions' /\ faults' \in 0 .. MaxFaults
         /\ \A k \in net' : k \in net \/ MsgOK(k)'
    BY <1>2, <1>9, IInvParts
  <1> QED BY <1>2, <1>10, <1>11, <1>12, <1>13, <1>14, <1>15, Assemble

\* The refusals of HandleSAInit answer a request of message ID 0 and make no session.
Refusal(r, m) ==
    /\ r.kind \in {"INVALID_SYNTAX", "COOKIE", "NO_PROPOSAL_CHOSEN", "INVALID_KE_PAYLOAD"}
    /\ r.attempt = m.attempt /\ r.n = 0 /\ r.mid = 0

\* The error responses and the cookie are refusals.
LEMMA ErrorRefuses ==
    ASSUME NEW m, NEW group, NEW kind \in {"INVALID_SYNTAX", "NO_PROPOSAL_CHOSEN", "INVALID_KE_PAYLOAD"}
    PROVE  Refusal(buildSAInitError(m, kind, group), m) /\ Refusal(buildCookieResponse(m), m)
  <1> DEFINE r0 == Reply(kind, m.attempt, 0, 0)
             r1 == [r0 EXCEPT !.group = group]
             c0 == Reply("COOKIE", m.attempt, 0, 0)
             c1 == [c0 EXCEPT !.cookie = [epoch |-> epoch, attempt |-> m.attempt]]
  <1>1. r1.kind = kind /\ r1.attempt = m.attempt /\ r1.n = 0 /\ r1.mid = 0
    BY ReplyFields
  <1>2. c1.kind = "COOKIE" /\ c1.attempt = m.attempt /\ c1.n = 0 /\ c1.mid = 0
    BY ReplyFields
  <1>3. buildSAInitError(m, kind, group) = r1 /\ buildCookieResponse(m) = c1
    BY DEF buildSAInitError, buildCookieResponse
  <1> HIDE DEF r1, c1
  <1> QED BY <1>1, <1>2, <1>3 DEF Refusal

\* HandleSAInit refuses, or makes one session of the suite it answers with.
LEMMA SAInitOutcome ==
    ASSUME NEW m, NEW out, out = HandleSAInit(m)
    PROVE  \/ out.made = <<>> /\ Refusal(out.reply, m)
           \/ /\ ikeSuite[m.sa] # <<>> /\ out.made = <<IKEv2Session(m.attempt, ikeSuite[m.sa])>>
              /\ out.reply.kind = "SA_INIT" /\ out.reply.attempt = m.attempt
              /\ out.reply.n = Len(sessions) + 1 /\ out.reply.mid = 0
              /\ out.reply.suite = ikeSuite[m.sa]
  <1> DEFINE suite == ikeSuite[m.sa]
             r0 == Reply("SA_INIT", m.attempt, Len(sessions) + 1, 0)
             r == [r0 EXCEPT !.suite = suite]
  <1>1. \/ \E x : out = [made |-> <<>>, reply |-> x] /\ Refusal(x, m)
        \/ suite # <<>> /\ out = [made |-> <<IKEv2Session(m.attempt, suite)>>, reply |-> r]
    <2> HIDE DEF r, suite
    <2> DEFINE refuse(x) == [made |-> <<>>, reply |-> x]
    <2>1. \/ out = refuse(buildSAInitError(m, "INVALID_SYNTAX", ""))
          \/ out = refuse(buildCookieResponse(m))
          \/ out = refuse(buildSAInitError(m, "NO_PROPOSAL_CHOSEN", ""))
          \/ out = refuse(buildSAInitError(m, "INVALID_KE_PAYLOAD", suite["DH"].id))
          \/ suite # <<>> /\ out = [made |-> <<IKEv2Session(m.attempt, suite)>>, reply |-> r]
      BY DEF HandleSAInit, r, suite
    <2> QED BY <2>1, ErrorRefuses
  <1>2. /\ r.kind = "SA_INIT" /\ r.attempt = m.attempt /\ r.n = Len(sessions) + 1 /\ r.mid = 0
        /\ r.suite = suite
    BY ReplyFields
  <1> HIDE DEF r, suite
  <1>3. \/ out.made = <<>> /\ Refusal(out.reply, m)
        \/ suite # <<>> /\ out.made = <<IKEv2Session(m.attempt, suite)>> /\ out.reply = r
    BY <1>1
  <1> QED BY <1>2, <1>3 DEF suite

\* The session that HandleSAInit makes.
LEMMA NewSession ==
    ASSUME profile \in Profiles, ikeSuite[profile.ike] # <<>>,
           NEW a \in 1 .. MaxFaults + 1, a <= client.attempt, NEW n
    PROVE  /\ SessionOK(IKEv2Session(a, ikeSuite[profile.ike]), n)
           /\ IKEv2Session(a, ikeSuite[profile.ike]).attempt = a
  <1> DEFINE s == IKEv2Session(a, ikeSuite[profile.ike])
  <1>1. /\ s.state = "InitRecv" /\ s.attempt = a /\ s.suite = ikeSuite[profile.ike] /\ s.peerID = ""
        /\ s.psk = NoSecret /\ s.pending = <<>> /\ s.eapState = NoEAP /\ s.nt = FALSE
        /\ s.msk = NoSecret /\ s.children = <<>>
    BY DEF IKEv2Session
  <1>2. NoSecret \in Secrets /\ NoEAP \in EAPStates /\ profile.ike \in SAPayloads
    <2>1. NoSecret \in Secrets
      <3>1. NoSecret = [kind |-> "none", key |-> "", chal |-> 0]
        BY DEF NoSecret, Secret
      <3> QED BY <3>1 DEF Secrets, Keys
    <2>2. NoEAP \in EAPStates
      BY DEF NoEAP, EAPStates
    <2> QED BY <2>1, <2>2, ProfilesAssumption
  <1>3. s \in SessionObjects
    BY <1>2 DEF IKEv2Session, SessionObjects, IKEv2States
  <1> HIDE DEF s
  <1>4. Negotiated(s)
    BY <1>1 DEF Negotiated
  <1>5. Keyed(s, n)
    BY <1>1 DEF Keyed
  <1> QED BY <1>1, <1>3, <1>4, <1>5 DEF SessionOK, s

\* HandleSAInit and the registration of its session.
LEMMA HandleInitKeeps ==
    ASSUME IInv, NEW l \in Loops, HandleInit(l), UNCHANGED <<profile, client, faults>>
    PROVE  IInv'
  <1>1. PICK w : w = loops[l] OBVIOUS
  <1> DEFINE m == w.msg
  <1>2. /\ w.route = "init" /\ UNCHANGED <<config, epoch, net>>
        /\ loops' = [loops EXCEPT ![l] = Idle]
    BY <1>1 DEF HandleInit
  <1>3. PICK out : /\ out = HandleSAInit(m) /\ sessions' = sessions \o out.made /\ send(out.reply)
                   /\ v2Sessions' = v2Sessions \cup {Len(sessions) + i : i \in DOMAIN out.made}
    BY <1>1 DEF HandleInit
  <1>4. LoopOK(w) /\ w # Idle
    BY <1>1, <1>2 DEF IInv, Idle
  <1>5. MsgOK(m) /\ m.sa = profile.ike /\ m.attempt \in 1 .. client.attempt
    BY <1>2, <1>4 DEF LoopOK, MsgOK
  <1> HIDE DEF m
  <1>6. client' = client /\ profile' = profile /\ (Late => Late')
    BY DEF Late
  <1>7. DOMAIN loops' = Loops /\ \A k \in Loops : \A v : v = loops'[k] => v = loops[k] \/ LoopOK(v)'
    BY <1>2, IInvParts DEF LoopOK
  <1>8. /\ epoch' \in 1 .. faults' + 1 /\ faults' \in 0 .. MaxFaults
        /\ \A k \in net' : k \in net \/ MsgOK(k)'
    BY <1>2, IInvParts
  <1>9. CASE out.made = <<>> /\ Refusal(out.reply, m)
    <2>1. sessions' = sessions /\ v2Sessions' = v2Sessions
      BY <1>3, <1>9, IInvParts
    <2>2. Carry /\ SessionsOK' /\ ClientOK'
      BY <2>1, CarrySame
    <2>3. \A r \in replies' : r \in replies \/ ReplyOK(r)'
      <3> SUFFICES ASSUME NEW r \in replies', r \notin replies PROVE ReplyOK(r)'
        OBVIOUS
      <3>1. r = out.reply BY <1>3 DEF send
      <3>2. Refusal(r, m) BY <3>1, <1>9
      <3> QED BY <3>2, <1>5, <1>6, <2>1, IInvParts DEF Refusal, ReplyOK
    <2>4. v2Sessions' \subseteq DOMAIN sessions'
      BY <2>1, IInvParts
    <2> QED BY <1>2, <1>7, <1>8, <2>2, <2>3, <2>4, Assemble
  <1>10. CASE /\ ikeSuite[m.sa] # <<>> /\ out.made = <<IKEv2Session(m.attempt, ikeSuite[m.sa])>>
              /\ out.reply.kind = "SA_INIT" /\ out.reply.attempt = m.attempt
              /\ out.reply.n = Len(sessions) + 1 /\ out.reply.mid = 0
              /\ out.reply.suite = ikeSuite[m.sa]
    <2>1. PICK s : s = IKEv2Session(m.attempt, ikeSuite[profile.ike]) OBVIOUS
    <2> DEFINE n == Len(sessions) + 1
    <2>2. SessionOK(s, n) /\ s.attempt = m.attempt /\ s \in SessionObjects
      <3>1. m.attempt \in 1 .. MaxFaults + 1 /\ m.attempt <= client.attempt
        BY <1>5, IInvParts
      <3>2. SessionOK(s, n) /\ s.attempt = m.attempt
        BY <1>5, <1>10, <2>1, <3>1, NewSession, IInvParts
      <3> QED BY <3>2 DEF SessionOK
    <2>3. out.made = <<s>> /\ sessions' = sessions \o <<s>>
      BY <1>3, <1>5, <1>10, <2>1
    <2>4. /\ sessions' \in Seq(SessionObjects) /\ Len(sessions') = n /\ DOMAIN sessions' = 1 .. n
          /\ sessions'[n] = s /\ \A k \in DOMAIN sessions : sessions'[k] = sessions[k]
      BY <2>2, <2>3, IInvParts
    <2>5. n \in Nat /\ n \in 1 .. n /\ Len(sessions) <= n /\ \A k \in 1 .. n : k = n \/ k \in DOMAIN sessions
      BY IInvParts
    <2>6. Carry
      <3>1. \A k \in DOMAIN sessions : Follows(sessions[k], sessions'[k])
        BY <2>4 DEF Follows
      <3> QED BY <1>6, <2>4, <2>5, <3>1, IInvParts DEF Carry
    <2> HIDE DEF n
    <2>7. SessionsOK'
      <3>1. ASSUME NEW k \in DOMAIN sessions' PROVE Negotiated(sessions[k])' /\ Keyed(sessions[k], k)'
        <4>1. PICK x : x = sessions'[k] OBVIOUS
        <4>2. SessionOK(x, k)
          BY <2>2, <2>4, <2>5, <4>1, IInvParts
        <4> QED BY <4>1, <4>2, SessionStays
      <3> QED BY <2>4, <3>1 DEF SessionsOK
    <2>8. ClientOK'
      BY <2>6, ClientStays
    <2>9. \A r \in replies' : r \in replies \/ ReplyOK(r)'
      <3> SUFFICES ASSUME NEW r \in replies', r \notin replies PROVE ReplyOK(r)'
        OBVIOUS
      <3>1. r = out.reply BY <1>3 DEF send
      <3>2. /\ r.kind = "SA_INIT" /\ r.attempt = m.attempt /\ r.n = n /\ r.mid = 0
            /\ r.suite = ikeSuite[profile.ike]
        BY <3>1, <1>5, <1>10 DEF n
      <3>3. r.n \in DOMAIN sessions' /\ r.n \in 0 .. Len(sessions') /\ sessions'[r.n].attempt = r.attempt
        BY <3>2, <2>2, <2>4, <2>5
      <3> QED BY <3>2, <3>3, <1>5, <1>6 DEF ReplyOK
    <2>10. v2Sessions' \subseteq DOMAIN sessions'
      <3>1. DOMAIN out.made = {1} BY <2>3
      <3>2. v2Sessions' \subseteq v2Sessions \cup {n} BY <1>3, <3>1 DEF n
      <3> QED BY <3>2, <2>4, <2>5, IInvParts
    <2> QED BY <1>2, <1>7, <1>8, <2>6, <2>7, <2>8, <2>9, <2>10, Assemble
  <1> QED BY <1>3, <1>9, <1>10, SAInitOutcome

-----------------------------------------------------------------------------

WaitingPhases == {"init", "auth", "identity", "response", "ack", "final"}

(***************************************************************************)
(* What a step of the client may make of it: within an attempt it goes on, *)
(* with the session and the challenge it has.                              *)
(***************************************************************************)
Moves(c) ==
    /\ DOMAIN c = ClientFields /\ c.phase \in ClientPhases
    /\ c.attempt \in 1 .. MaxFaults + 1 /\ client.attempt <= c.attempt
    /\ c.attempt = client.attempt =>
          /\ client.phase # "init" => c.phase # "init" /\ c.n = client.n
          /\ Late => /\ c.phase \in {"response", "ack", "final", "done", "failed"}
                     /\ c.chal = client.chal
    /\ c.n \in 0 .. Len(sessions)
    /\ c.phase \notin {"init", "failed"} =>
          /\ c.n \in DOMAIN sessions /\ sessions[c.n].attempt = c.attempt
          /\ c.ikeSuite = ikeSuite[profile.ike]
    /\ c.phase = "done" => /\ sessions[c.n].children # <<>> /\ c.suite = espSuite[profile.esp]
                           /\ sessions[c.n].psk = ClientSecret(c)

GoesOn(c) == Moves(c) /\ (Finish(c) \/ (Send(c) /\ c.phase \in WaitingPhases))

\* What the requests of a client say.
LEMMA RequestFields ==
    ASSUME profile \in Profiles, NEW c, c.phase \in WaitingPhases, NEW m, m = Request(c)
    PROVE  /\ m.attempt = c.attempt /\ m.n = c.n /\ m.mid = MidOf(c.phase) /\ m.mid \in 0 .. 5
           /\ c.phase = "init" <=> m.mid = 0
           /\ m.exchange = IF c.phase = "init" THEN "SA_INIT" ELSE "IKE_AUTH"
           /\ c.phase = "init" => m.sa = profile.ike
           /\ m.id # "" => c.phase = "auth" /\ m.id = profile.id
           /\ c.phase = "auth" => /\ m.sa = profile.esp
                                  /\ m.auth = NoAuth <=> profile.method = "eap"
           /\ m.auth # NoAuth => /\ m.auth.secret.kind # "none"
                                 /\ profile.method = "eap" => m.auth.method = "psk"
           /\ m.eap.type \in EAPTypes
           /\ m.eap.type = "Identity" => m.mid = 2 /\ m.eap.user = profile.user
           /\ m.eap.type = "Response" => c.phase = "response" /\ m.eap.chal = c.chal
  <1> DEFINE proof == Auth(IF profile.method = "cert" THEN "cert" ELSE "psk",
                           ClientSecret(c), c.n, profile.id)
             eap == CASE c.phase = "identity" -> [NoEAP EXCEPT !.type = "Identity", !.user = profile.user]
                      [] c.phase = "response" -> [type |-> profile.eapType, user |-> profile.user,
                                                  key |-> profile.key, chal |-> c.chal]
                      [] c.phase = "ack" -> [NoEAP EXCEPT !.type = "SuccessAck"]
                      [] OTHER -> NoEAP
             first == c.phase = "auth"
  <1>1. /\ m.attempt = c.attempt /\ m.n = c.n /\ m.mid = MidOf(c.phase)
        /\ m.exchange = IF c.phase = "init" THEN "SA_INIT" ELSE "IKE_AUTH"
        /\ m.id = IF first THEN profile.id ELSE ""
        /\ m.sa = IF c.phase = "init" THEN profile.ike ELSE IF first THEN profile.esp ELSE <<>>
        /\ m.auth = IF c.phase = "final" \/ (first /\ profile.method # "eap") THEN proof ELSE NoAuth
        /\ m.eap = eap
    <2> HIDE DEF eap, proof
    <2> QED BY DEF Request, eap, proof
  <1>2. m.mid \in 0 .. 5 /\ (c.phase = "init" <=> m.mid = 0) /\ (c.phase = "identity" => m.mid = 2)
    <2>1. m.mid = MidOf(c.phase) BY <1>1
    <2>2. CASE c.phase = "init" BY <2>1, <2>2, MessageIDs
    <2>3. CASE c.phase = "auth" BY <2>1, <2>3, MessageIDs
    <2>4. CASE c.phase = "identity" BY <2>1, <2>4, MessageIDs
    <2>5. CASE c.phase = "response" BY <2>1, <2>5, MessageIDs
    <2>6. CASE c.phase = "ack" BY <2>1, <2>6, MessageIDs
    <2>7. CASE c.phase = "final" BY <2>1, <2>7, MessageIDs
    <2> QED BY <2>2, <2>3, <2>4, <2>5, <2>6, <2>7 DEF WaitingPhases
  <1>3. /\ ClientSecret(c).kind # "none" /\ proof.secret = ClientSecret(c)
        /\ proof.method = IF profile.method = "cert" THEN "cert" ELSE "psk"
    <2>1. ClientSecret(c).kind # "none"
      BY SecretKind DEF ClientSecret
    <2> QED BY <2>1 DEF Auth
  <1>4. NoAuth.method = "none"
    BY DEF NoAuth, Auth
  <1>5. proof # NoAuth
    <2> HIDE DEF proof
    <2> QED BY <1>3, <1>4
  <1>6. /\ c.phase = "identity" => eap.type = "Identity" /\ eap.user = profile.user
        /\ c.phase = "response" => eap.type = profile.eapType /\ eap.chal = c.chal
        /\ c.phase = "ack" => eap.type = "SuccessAck"
        /\ c.phase \notin {"identity", "response", "ack"} => eap.type = "none"
    <2>1. CASE c.phase = "identity"
      <3>1. eap = [NoEAP EXCEPT !.type = "Identity", !.user = profile.user] BY <2>1
      <3> QED BY <2>1, <3>1 DEF NoEAP
    <2>2. CASE c.phase = "response"
      <3>1. eap = [type |-> profile.eapType, user |-> profile.user, key |-> profile.key, chal |-> c.chal] BY <2>2
      <3> QED BY <2>2, <3>1
    <2>3. CASE c.phase = "ack"
      <3>1. eap = [NoEAP EXCEPT !.type = "SuccessAck"] BY <2>3
      <3> QED BY <2>3, <3>1 DEF NoEAP
    <2>4. CASE c.phase \notin {"identity", "response", "ack"}
      <3>1. eap = NoEAP BY <2>4
      <3> QED BY <2>4, <3>1 DEF NoEAP
    <2> QED BY <2>1, <2>2, <2>3, <2>4
  <1>7. profile.eapType \in {"Response", "NAK", "TLS"}
    BY ProfilesAssumption
  <1> HIDE DEF eap, proof
  <1>8. m.auth # NoAuth => /\ m.auth.secret.kind # "none"
                           /\ profile.method = "eap" => m.auth.method = "psk"
    BY <1>1, <1>3
  <1>9. c.phase = "auth" => /\ m.sa = profile.esp
                            /\ m.auth = NoAuth <=> profile.method = "eap"
    BY <1>1, <1>5
  <1>10. /\ m.eap.type \in EAPTypes
         /\ m.eap.type = "Identity" => m.mid = 2 /\ m.eap.user = profile.user
         /\ m.eap.type = "Response" => c.phase = "response" /\ m.eap.chal = c.chal
    BY <1>1, <1>2, <1>6, <1>7 DEF EAPTypes
  <1> QED BY <1>1, <1>2, <1>8, <1>9, <1>10

\* A step of the client keeps the invariant.
LEMMA ClientKeeps ==
    ASSUME IInv, NEW c, GoesOn(c), UNCHANGED <<serverVars, profile>>, replies' \subseteq replies,
           faults' \in 0 .. MaxFaults, faults' >= faults
    PROVE  IInv'
  <1>1. /\ client' = c /\ profile' = profile /\ sessions' = sessions /\ config' = config
        /\ v2Sessions' = v2Sessions /\ epoch' = epoch /\ loops' = loops /\ Moves(c)
    BY DEF GoesOn, Finish, Send, serverVars
  <1>2. Carry
    <2>1. \A n \in DOMAIN sessions : Follows(sessions[n], sessions'[n])
      BY <1>1 DEF Follows
    <2>2. c.attempt = client.attempt /\ Late => Late' /\ c.chal = client.chal
      BY <1>1 DEF Moves, Late
    <2>3. c.attempt \in Nat /\ client.attempt <= c.attempt
      BY <1>1, IInvParts DEF Moves
    <2>4. c.attempt = client.attempt => (client.phase # "init" => c.phase # "init" /\ c.n = client.n)
      BY <1>1 DEF Moves
    <2> QED BY <1>1, <2>1, <2>2, <2>3, <2>4, IInvParts DEF Carry
  <1>3. SessionsOK'
    <2>1. ASSUME NEW n \in DOMAIN sessions, NEW s, s = sessions[n]
          PROVE  Negotiated(s)' /\ Keyed(s, n)'
      <3>1. SessionOK(s, n) BY <2>1, IInvParts
      <3>2. s.attempt \in 1 .. MaxFaults + 1 /\ s.attempt <= client.attempt
        BY <3>1 DEF SessionOK, SessionObjects, Negotiated
      <3>a. s.attempt \in Nat
        BY <3>2, MaxFaultsAssumption
      <3>b. client.attempt \in Nat /\ client'.attempt \in Nat /\ client.attempt <= client'.attempt
        BY <1>2 DEF Carry
      <3>3. s.attempt <= client'.attempt
        BY <3>2, <3>a, <3>b
      <3>4. s.attempt = client'.attempt => s.attempt = client.attempt /\ client'.attempt = client.attempt
        BY <3>2, <3>a, <3>b
      <3>5. Negotiated(s)'
        BY <3>1, <3>3, <1>1 DEF SessionOK, Negotiated, TheChild
      <3>6. Late => client.phase # "init" BY DEF Late
      <3>7. Keyed(s, n)'
        <4>1. s.attempt = client'.attempt /\ Late => Late' /\ client'.n = client.n /\ client'.chal = client.chal
          BY <3>4, <3>6, <1>2 DEF Carry
        <4> QED BY <3>1, <3>4, <4>1, <1>1 DEF SessionOK, Keyed
      <3> QED BY <3>5, <3>7
    <2>2. ASSUME NEW n \in DOMAIN sessions' PROVE Negotiated(sessions[n])' /\ Keyed(sessions[n], n)'
      <3>1. PICK s : s = sessions[n] OBVIOUS
      <3>2. n \in DOMAIN sessions /\ sessions'[n] = s BY <3>1, <1>1
      <3>3. Negotiated(s)' /\ Keyed(s, n)' BY <2>1, <3>1, <3>2
      <3>4. Negotiated(sessions[n])' BY <3>2, <3>3 DEF Negotiated
      <3>5. Keyed(sessions[n], n)' BY <3>2, <3>3 DEF Keyed
      <3> QED BY <3>4, <3>5
    <2> QED BY <2>2, <1>1, IInvParts DEF SessionsOK
  <1>4. ClientOK'
    <2>1. ClientSecret(client)' = ClientSecret(c)
      BY <1>1 DEF ClientSecret
    <2> QED BY <1>1, <2>1 DEF Moves, ClientOK
  <1>5. \A m \in net' : m \in net \/ MsgOK(m)'
    <2> SUFFICES ASSUME NEW m \in net', m \notin net PROVE MsgOK(m)'
      OBVIOUS
    <2>1. m = Request(c) /\ c.phase \in WaitingPhases
      BY DEF GoesOn, Finish, Send
    <2>2. /\ m.attempt = c.attempt /\ m.n = c.n /\ m.mid \in 0 .. 5
          /\ c.phase = "init" <=> m.mid = 0
          /\ m.exchange = IF c.phase = "init" THEN "SA_INIT" ELSE "IKE_AUTH"
          /\ c.phase = "init" => m.sa = profile.ike
          /\ m.id # "" => c.phase = "auth" /\ m.id = profile.id
          /\ c.phase = "auth" => /\ m.sa = profile.esp
                                 /\ m.auth = NoAuth <=> profile.method = "eap"
          /\ m.auth # NoAuth => /\ m.auth.secret.kind # "none"
                                /\ profile.method = "eap" => m.auth.method = "psk"
          /\ m.eap.type \in EAPTypes
          /\ m.eap.type = "Identity" => m.mid = 2 /\ m.eap.user = profile.user
          /\ m.eap.type = "Response" => c.phase = "response" /\ m.eap.chal = c.chal
      BY <2>1, RequestFields, IInvParts
    <2>3. c.attempt \in 1 .. c.attempt /\ c.n \in 0 .. Len(sessions)
      BY <1>1, MaxFaultsAssumption DEF Moves
    <2>4. c.phase # "init" => c.n \in DOMAIN sessions /\ sessions[c.n].attempt = c.attempt
      BY <1>1, <2>1 DEF Moves, WaitingPhases
    <2>5. c.phase = "response" => Late'
      BY <1>1 DEF Late
    <2>6. m.mid # 0 => m.mid >= 1
      <3>1. m.mid \in 0 .. 5 BY <2>2
      <3> QED BY <3>1
    <2> QED BY <1>1, <2>2, <2>3, <2>4, <2>5, <2>6 DEF MsgOK
  <1>6. /\ \A r \in replies' : r \in replies \/ ReplyOK(r)'
        /\ \A l \in Loops : \A w : w = loops'[l] => w = loops[l] \/ LoopOK(w)'
        /\ DOMAIN loops' = Loops /\ v2Sessions' \subseteq DOMAIN sessions' /\ epoch' \in 1 .. faults' + 1
    BY <1>1, IInvParts
  <1> QED BY <1>1, <1>2, <1>3, <1>4, <1>5, <1>6, Assemble

\* A client that gives its attempt up begins the next, or fails.
LEMMA RetryGoesOn ==
    ASSUME IInv, Retry
    PROVE  \E c : GoesOn(c)
  <1>1. DOMAIN client = ClientFields /\ client.n \in 0 .. Len(sessions)
    BY DEF IInv, ClientOK
  <1>2. CASE client.attempt <= MaxFaults
    <2>1. PICK c : c = NewAttempt(client.attempt + 1) OBVIOUS
    <2>2. /\ DOMAIN c = ClientFields /\ c.phase = "init" /\ c.n = 0 /\ c.attempt = client.attempt + 1
      BY <2>1 DEF NewAttempt, ClientFields
    <2>3. Send(c)
      BY <1>2, <2>1 DEF Retry
    <2>4. c.attempt \in 1 .. MaxFaults + 1 /\ client.attempt <= c.attempt /\ c.attempt # client.attempt
      BY <1>2, <2>2, IInvParts
    <2>5. c.n \in 0 .. Len(sessions)
      BY <2>2, IInvParts
    <2>6. Moves(c)
      BY <2>2, <2>4, <2>5 DEF Moves, ClientPhases
    <2> QED BY <2>2, <2>3, <2>6 DEF GoesOn, WaitingPhases
  <1>3. CASE ~ (client.attempt <= MaxFaults)
    <2>1. PICK c : c = [client EXCEPT !.phase = "failed"] OBVIOUS
    <2>2. /\ DOMAIN c = ClientFields /\ c.phase = "failed" /\ c.n = client.n
          /\ c.attempt = client.attempt /\ c.chal = client.chal
      BY <1>1, <2>1 DEF ClientFields
    <2>3. Finish(c)
      BY <1>3, <2>1 DEF Retry
    <2>4. Moves(c)
      BY <1>1, <2>2, IInvParts DEF Moves, ClientPhases
    <2> QED BY <2>3, <2>4 DEF GoesOn
  <1> QED BY <1>2, <1>3

\* Each message ID is that of one phase.
LEMMA PhaseOfMid ==
    ASSUME NEW p \in WaitingPhases
    PROVE  /\ MidOf(p) = 0 => p = "init"
           /\ MidOf(p) = 1 => p = "auth"
           /\ MidOf(p) = 2 => p = "identity"
           /\ MidOf(p) >= 1 => p # "init"
  <1>1. CASE p = "init" BY <1>1, MessageIDs
  <1>2. CASE p = "auth" BY <1>2, MessageIDs
  <1>3. CASE p = "identity" BY <1>3, MessageIDs
  <1>4. CASE p = "response" BY <1>4, MessageIDs
  <1>5. CASE p = "ack" BY <1>5, MessageIDs
  <1>6. CASE p = "final" BY <1>6, MessageIDs
  <1> QED BY <1>1, <1>2, <1>3, <1>4, <1>5, <1>6 DEF WaitingPhases

\* A client that asks again, or asks otherwise, is where it was.
LEMMA SamePhaseMoves ==
    ASSUME IInv, client.phase \in WaitingPhases, NEW c, DOMAIN c = ClientFields,
           c.phase = client.phase, c.n = client.n, c.attempt = client.attempt, c.chal = client.chal,
           c.ikeSuite = client.ikeSuite
    PROVE  Moves(c)
  <1>1. ClientOK
    BY DEF IInv
  <1>2. client.attempt \in 1 .. MaxFaults + 1 /\ client.attempt <= client.attempt
    BY IInvParts
  <1>3. c.phase # "done" /\ (Late => c.phase \in {"response", "ack", "final", "done", "failed"})
    BY DEF WaitingPhases, Late
  <1> QED BY <1>1, <1>2, <1>3 DEF Moves, ClientOK

\* A client that goes to a later phase of the same attempt, in the session it has.
LEMMA NextPhaseMoves ==
    ASSUME IInv, client.phase \in WaitingPhases, client.phase # "init", NEW c, DOMAIN c = ClientFields,
           c.n = client.n, c.attempt = client.attempt, c.ikeSuite = client.ikeSuite,
           \/ c.phase \in {"ack", "final"} /\ c.chal = client.chal
           \/ c.phase = "identity" /\ client.phase = "auth"
           \/ c.phase = "response" /\ client.phase = "identity"
    PROVE  Moves(c)
  <1>1. ClientOK
    BY DEF IInv
  <1>2. client.attempt \in 1 .. MaxFaults + 1 /\ client.attempt <= client.attempt
    BY IInvParts
  <1>3. /\ c.phase \in ClientPhases /\ c.phase \notin {"done", "init", "failed"}
        /\ Late => c.phase \in {"response", "ack", "final", "done", "failed"} /\ c.chal = client.chal
    BY DEF ClientPhases, Late
  <1>4. client.phase \notin {"init", "failed"}
    BY DEF WaitingPhases
  <1> QED BY <1>1, <1>2, <1>3, <1>4 DEF Moves, ClientOK

\* An answer takes the client on: each kind of response to the phase it belongs to.
LEMMA AdvanceGoesOn ==
    ASSUME IInv, NEW r \in replies, Answers(r), Advance(r)
    PROVE  \E c : GoesOn(c)
  <1>1. /\ client.phase \in WaitingPhases /\ r.attempt = client.attempt /\ r.mid = MidOf(client.phase)
        /\ r.mid > 0 => r.n = client.n
    BY MessageIDs DEF Answers, Waiting, WaitingPhases
  <1>2. ReplyOK(r) /\ ClientOK /\ DOMAIN client = ClientFields
    BY DEF IInv, ClientOK
  <1> DEFINE next(phase) == [client EXCEPT !.phase = phase, !.repeated = FALSE]
  <1>3. \A phase : /\ DOMAIN next(phase) = ClientFields /\ next(phase).phase = phase
                   /\ next(phase).n = client.n /\ next(phase).attempt = client.attempt
                   /\ next(phase).chal = client.chal /\ next(phase).ikeSuite = client.ikeSuite
    BY <1>2 DEF ClientFields
  <1>4. CASE r.kind = "COOKIE"
    <2>1. PICK c : c = [client EXCEPT !.cookie = r.cookie, !.repeated = FALSE] OBVIOUS
    <2>2. Send(c) BY <1>4, <2>1 DEF Advance
    <2>3. /\ DOMAIN c = ClientFields /\ c.phase = client.phase /\ c.n = client.n
          /\ c.attempt = client.attempt /\ c.chal = client.chal /\ c.ikeSuite = client.ikeSuite
      BY <1>2, <2>1 DEF ClientFields
    <2>4. Moves(c) BY <1>1, <2>3, SamePhaseMoves
    <2> QED BY <1>1, <2>2, <2>3, <2>4 DEF GoesOn
  <1>5. CASE r.kind = "INVALID_KE_PAYLOAD"
    <2>1. PICK c : c = [client EXCEPT !.group = r.group, !.repeated = FALSE] OBVIOUS
    <2>2. Send(c) BY <1>5, <2>1 DEF Advance
    <2>3. /\ DOMAIN c = ClientFields /\ c.phase = client.phase /\ c.n = client.n
          /\ c.attempt = client.attempt /\ c.chal = client.chal /\ c.ikeSuite = client.ikeSuite
      BY <1>2, <2>1 DEF ClientFields
    <2>4. Moves(c) BY <1>1, <2>3, SamePhaseMoves
    <2> QED BY <1>1, <2>2, <2>3, <2>4 DEF GoesOn
  <1>6. CASE r.kind = "SA_INIT"
    <2>1. PICK c : c = [next("auth") EXCEPT !.n = r.n, !.ikeSuite = r.suite] OBVIOUS
    <2>2. Send(c) BY <1>6, <2>1 DEF Advance
    <2>3. /\ DOMAIN c = ClientFields /\ c.phase = "auth" /\ c.n = r.n
          /\ c.attempt = client.attempt /\ c.ikeSuite = r.suite
      <3> HIDE DEF next
      <3> QED BY <1>3, <2>1 DEF ClientFields
    <2>4. /\ r.mid = 0 /\ r.suite = ikeSuite[profile.ike] /\ r.n \in 0 .. Len(sessions)
          /\ r.n \in DOMAIN sessions /\ sessions[r.n].attempt = r.attempt
      BY <1>2, <1>6 DEF ReplyOK
    <2>5. client.phase = "init"
      BY <1>1, <2>4, PhaseOfMid
    <2>6. ~ Late BY <2>5 DEF Late
    <2>7. client.attempt <= client.attempt BY IInvParts
    <2>8. Moves(c)
      BY <1>1, <2>3, <2>4, <2>5, <2>6, <2>7, IInvParts DEF Moves, ClientPhases
    <2> QED BY <2>2, <2>3, <2>8 DEF GoesOn, WaitingPhases
  <1>7. CASE r.kind = "EAP_Identity"
    <2>1. PICK c : c = next("identity") OBVIOUS
    <2>2. Send(c) BY <1>7, <2>1 DEF Advance
    <2>3. client.phase = "auth"
      BY <1>1, <1>2, <1>7, PhaseOfMid DEF ReplyOK
    <2>4. Moves(c)
      <3> HIDE DEF next
      <3> QED BY <1>1, <1>3, <2>1, <2>3, NextPhaseMoves
    <2>5. c.phase \in WaitingPhases BY <1>3, <2>1 DEF WaitingPhases
    <2> QED BY <2>2, <2>4, <2>5 DEF GoesOn
  <1>8. CASE r.kind = "EAP_Challenge"
    <2>1. PICK c : c = [next("response") EXCEPT !.chal = r.chal] OBVIOUS
    <2>2. Send(c) BY <1>8, <2>1 DEF Advance
    <2>3. client.phase = "identity"
      BY <1>1, <1>2, <1>8, PhaseOfMid DEF ReplyOK
    <2>4. /\ DOMAIN c = ClientFields /\ c.phase = "response" /\ c.n = client.n
          /\ c.attempt = client.attempt /\ c.ikeSuite = client.ikeSuite
      <3> HIDE DEF next
      <3> QED BY <1>3, <2>1 DEF ClientFields
    <2>5. Moves(c) BY <1>1, <2>3, <2>4, NextPhaseMoves
    <2> QED BY <2>2, <2>4, <2>5 DEF GoesOn, WaitingPhases
  <1>9. CASE r.kind = "EAP_MSCHAPv2_Success"
    <2>1. PICK c : c = next("ack") OBVIOUS
    <2>2. Send(c) BY <1>9, <2>1 DEF Advance
    <2>3. client.phase # "init"
      BY <1>1, <1>2, <1>9, PhaseOfMid DEF ReplyOK
    <2>4. Moves(c)
      <3> HIDE DEF next
      <3> QED BY <1>1, <1>3, <2>1, <2>3, NextPhaseMoves
    <2>5. c.phase \in WaitingPhases BY <1>3, <2>1 DEF WaitingPhases
    <2> QED BY <2>2, <2>4, <2>5 DEF GoesOn
  <1>10. CASE r.kind = "EAP_Success"
    <2>1. PICK c : c = next("final") OBVIOUS
    <2>2. Send(c) BY <1>10, <2>1 DEF Advance
    <2>3. client.phase # "init"
      BY <1>1, <1>2, <1>10, PhaseOfMid DEF ReplyOK
    <2>4. Moves(c)
      <3> HIDE DEF next
      <3> QED BY <1>1, <1>3, <2>1, <2>3, NextPhaseMoves
    <2>5. c.phase \in WaitingPhases BY <1>3, <2>1 DEF WaitingPhases
    <2> QED BY <2>2, <2>4, <2>5 DEF GoesOn
  <1>11. CASE r.kind = "AUTH" /\ r.secret = ClientSecret(client)
    <2>1. PICK c : c = [next("done") EXCEPT !.suite = r.suite] OBVIOUS
    <2>2. Finish(c) BY <1>11, <2>1 DEF Advance
    <2>3. /\ DOMAIN c = ClientFields /\ c.phase = "done" /\ c.n = client.n /\ c.suite = r.suite
          /\ c.attempt = client.attempt /\ c.ikeSuite = client.ikeSuite /\ c.chal = client.chal
      <3> HIDE DEF next
      <3> QED BY <1>3, <2>1 DEF ClientFields
    <2>4. /\ r.mid >= 1 /\ r.suite = espSuite[profile.esp] /\ sessions[r.n].children # <<>>
          /\ r.secret = sessions[r.n].psk
      BY <1>1, <1>2, <1>11 DEF ReplyOK
    <2>5. client.phase \notin {"init", "failed"}
      BY <1>1, <2>4, PhaseOfMid DEF WaitingPhases
    <2>6. r.n = client.n
      <3>1. r.mid \in 0 .. 5 BY <1>2 DEF ReplyOK
      <3> QED BY <1>1, <2>4, <3>1
    <2>7. ClientSecret(c) = ClientSecret(client)
      BY <2>3 DEF ClientSecret
    <2>8. client.attempt \in 1 .. MaxFaults + 1 /\ client.attempt <= client.attempt
      BY IInvParts
    <2>9. sessions[c.n].children # <<>> /\ c.suite = espSuite[profile.esp]
          /\ sessions[c.n].psk = ClientSecret(c)
      BY <1>11, <2>3, <2>4, <2>6, <2>7
    <2>10. Moves(c)
      BY <1>2, <2>3, <2>5, <2>8, <2>9 DEF Moves, ClientOK, ClientPhases
    <2> QED BY <2>2, <2>10 DEF GoesOn
  <1>12. CASE r.kind = "AUTH" /\ r.secret # ClientSecret(client)
    <2>1. Retry BY <1>12 DEF Advance
    <2> QED BY <2>1, RetryGoesOn
  <1>13. CASE r.kind \notin {"COOKIE", "INVALID_KE_PAYLOAD", "SA_INIT", "EAP_Identity", "EAP_Challenge",
                             "EAP_MSCHAPv2_Success", "EAP_Success", "AUTH"}
    <2>1. Retry BY <1>13 DEF Advance
    <2> QED BY <2>1, RetryGoesOn
  <1> QED BY <1>4, <1>5, <1>6, <1>7, <1>8, <1>9, <1>10, <1>11, <1>12, <1>13

\* Where sessions, client and loops stay, only messages go.
LEMMA QuietKeeps ==
    ASSUME IInv, UNCHANGED <<config, profile, client, sessions>>,
           net' \subseteq net, replies' \subseteq replies, v2Sessions' \subseteq v2Sessions,
           loops' = loops \/ loops' = [l \in Loops |-> Idle],
           faults' \in 0 .. MaxFaults, epoch' \in 1 .. faults' + 1
    PROVE  IInv'
  <1>1. Carry /\ SessionsOK' /\ ClientOK'
    BY CarrySame
  <1>2. DOMAIN loops' = Loops /\ \A l \in Loops : \A w : w = loops'[l] => w = loops[l] \/ LoopOK(w)'
    BY IInvParts DEF LoopOK
  <1>3. v2Sessions' \subseteq DOMAIN sessions'
    BY IInvParts
  <1>4. (\A m \in net' : m \in net \/ MsgOK(m)') /\ (\A r \in replies' : r \in replies \/ ReplyOK(r)')
    OBVIOUS
  <1> QED BY <1>1, <1>2, <1>3, <1>4, Assemble

\* A response is heard, or ignored.
LEMMA ReceiveKeeps ==
    ASSUME IInv, NEW r \in replies, NEW copy \in BOOLEAN, Receive(r, copy),
           faults' \in 0 .. MaxFaults, faults' >= faults
    PROVE  IInv'
  <1>1. replies' \subseteq replies /\ UNCHANGED <<serverVars, profile>>
    BY DEF Receive
  <1>2. CASE Answers(r)
    <2>1. Advance(r) BY <1>2 DEF Receive
    <2>2. PICK c : GoesOn(c) BY <1>2, <2>1, AdvanceGoesOn
    <2> QED BY <1>1, <2>2, ClientKeeps
  <1>3. CASE ~ Answers(r)
    <2>1. UNCHANGED <<client, net>> BY <1>3 DEF Receive
    <2>2. /\ config' = config /\ sessions' = sessions /\ v2Sessions' = v2Sessions /\ loops' = loops
          /\ epoch' = epoch
      BY <1>1 DEF serverVars
    <2>3. epoch' \in 1 .. faults' + 1
      BY <2>2, IInvParts
    <2> QED BY <1>1, <2>1, <2>2, <2>3, QuietKeeps
  <1> QED BY <1>2, <1>3

\* The timer of the client: the request again, or the next attempt.
LEMMA TimeoutKeeps ==
    ASSUME IInv, Timeout
    PROVE  IInv'
  <1>1. /\ client.phase \in WaitingPhases /\ UNCHANGED <<serverVars, profile>> /\ replies' = replies
        /\ faults' = faults
    BY MessageIDs DEF Timeout, Waiting, WaitingPhases
  <1>2. \E c : GoesOn(c)
    <2>1. CASE client.repeated
      BY <2>1, RetryGoesOn DEF Timeout
    <2>2. CASE ~ client.repeated
      <3>1. PICK c : c = [client EXCEPT !.repeated = TRUE] OBVIOUS
      <3>2. Send(c) BY <2>2, <3>1 DEF Timeout
      <3>3. /\ DOMAIN c = ClientFields /\ c.phase = client.phase /\ c.n = client.n
            /\ c.attempt = client.attempt /\ c.chal = client.chal /\ c.ikeSuite = client.ikeSuite
        BY <3>1 DEF ClientFields, IInv, ClientOK
      <3>4. Moves(c) BY <1>1, <3>3, SamePhaseMoves
      <3> QED BY <1>1, <3>2, <3>3, <3>4 DEF GoesOn
    <2> QED BY <2>1, <2>2
  <1>3. PICK c : GoesOn(c) BY <1>2
  <1>4. faults' \in 0 .. MaxFaults /\ faults' >= faults BY <1>1, IInvParts
  <1> QED BY <1>1, <1>3, <1>4, ClientKeeps

\* Loss, repetition and restart.
LEMMA FaultKeeps ==
    ASSUME IInv, Fault
    PROVE  IInv'
  <1>1. faults' \in 0 .. MaxFaults /\ faults' >= faults /\ faults' = faults + 1
    BY IInvParts DEF Fault
  <1>2. CASE Lose
    <2>1. /\ UNCHANGED <<config, profile, client, sessions>> /\ v2Sessions' = v2Sessions
          /\ loops' = loops /\ epoch' = epoch /\ net' \subseteq net /\ replies' \subseteq replies
      BY <1>2 DEF Lose, serverVars
    <2>2. epoch' \in 1 .. faults' + 1
      BY <1>1, <2>1, IInvParts
    <2> QED BY <1>1, <2>1, <2>2, QuietKeeps
  <1>3. CASE \E l \in Loops, msg \in net : Take(l, msg, TRUE) /\ UNCHANGED <<profile, client>>
    <2>1. PICK l \in Loops, msg \in net : Take(l, msg, TRUE) /\ UNCHANGED <<profile, client>>
      BY <1>3
    <2> QED BY <1>1, <2>1, TakeKeeps
  <1>4. CASE \E r \in replies : Receive(r, TRUE)
    BY <1>1, <1>4, ReceiveKeeps
  <1>5. CASE Restart /\ UNCHANGED <<profile, client>>
    <2>1. /\ UNCHANGED <<config, profile, client, sessions>> /\ v2Sessions' = {}
          /\ loops' = [l \in Loops |-> Idle] /\ epoch' = epoch + 1 /\ net' = net /\ replies' = replies
      BY <1>5 DEF Restart
    <2>2. epoch' \in 1 .. faults' + 1
      BY <1>1, <2>1, IInvParts
    <2>3. v2Sessions' \subseteq v2Sessions BY <2>1
    <2> QED BY <1>1, <2>1, <2>2, <2>3, QuietKeeps
  <1> QED BY <1>2, <1>3, <1>4, <1>5 DEF Fault

\* Every step keeps the invariant.
LEMMA NextKeeps ==
    ASSUME IInv, [Next]_vars
    PROVE  IInv'
  <1>0. faults \in 0 .. MaxFaults /\ faults >= faults
    BY IInvParts
  <1>1. CASE \E l \in Loops : Serve(l)
    BY <1>1, HandleKeeps, HandleInitKeeps DEF Serve
  <1>2. CASE Pick
    <2>1. PICK l \in Loops, msg \in net : Take(l, msg, FALSE) /\ UNCHANGED <<profile, client, faults>>
      BY <1>2 DEF Pick
    <2> QED BY <1>0, <2>1, TakeKeeps
  <1>3. CASE Hear
    <2>1. PICK r \in replies : Receive(r, FALSE) /\ UNCHANGED faults
      BY <1>3 DEF Hear
    <2> QED BY <1>0, <2>1, ReceiveKeeps
  <1>4. CASE Timeout BY <1>4, TimeoutKeeps
  <1>5. CASE Fault BY <1>5, FaultKeeps
  <1>6. CASE UNCHANGED vars
    <2>1. /\ UNCHANGED <<config, profile, client, sessions>> /\ v2Sessions' = v2Sessions /\ faults' = faults
          /\ loops' = loops /\ epoch' = epoch /\ net' = net /\ replies' = replies
      BY <1>6 DEF vars, serverVars
    <2> QED BY <1>0, <2>1, QuietKeeps, IInvParts
  <1> QED BY <1>1, <1>2, <1>3, <1>4, <1>5, <1>6 DEF Next, Progress

\* At the start there is one request and no session.
LEMMA InitIInv == Init => IInv
  <1> SUFFICES ASSUME Init PROVE IInv
    OBVIOUS
  <1>1. /\ config \in Configs /\ profile \in Profiles /\ faults = 0 /\ epoch = 1 /\ sessions = <<>>
        /\ v2Sessions = {} /\ loops = [l \in Loops |-> Idle] /\ client = NewAttempt(1)
        /\ net = {Request(client)} /\ replies = {}
    BY DEF Init, ServerInit
  <1>2. sessions \in Seq(SessionObjects) /\ Len(sessions) = 0 /\ DOMAIN sessions = {}
    BY <1>1
  <1>3. /\ DOMAIN client = ClientFields /\ client.phase = "init" /\ client.attempt = 1 /\ client.n = 0
    BY <1>1 DEF NewAttempt, ClientFields
  <1>4. SessionsOK BY <1>2 DEF SessionsOK
  <1>5. ClientOK
    <2>1. 1 \in 1 .. MaxFaults + 1 BY MaxFaultsAssumption
    <2> QED BY <2>1, <1>2, <1>3 DEF ClientOK, ClientPhases
  <1>6. \A m \in net : MsgOK(m)
    <2> SUFFICES ASSUME NEW m \in net PROVE MsgOK(m)
      OBVIOUS
    <2>1. m = Request(client) /\ client.phase \in WaitingPhases BY <1>1, <1>3 DEF WaitingPhases
    <2>2. /\ m.attempt = 1 /\ m.n = 0 /\ m.mid \in 0 .. 5 /\ m.exchange = "SA_INIT" /\ m.sa = profile.ike
      BY <2>1, <1>1, <1>3, RequestFields
    <2> QED BY <1>2, <1>3, <2>2 DEF MsgOK
  <1>7. DOMAIN loops = Loops /\ \A w \in {loops[l] : l \in Loops} : LoopOK(w)
    BY <1>1 DEF LoopOK
  <1>8. faults \in 0 .. MaxFaults /\ epoch \in 1 .. faults + 1
    BY <1>1, MaxFaultsAssumption
  <1> QED BY <1>1, <1>4, <1>5, <1>6, <1>7, <1>8 DEF IInv

(***************************************************************************)
(* The invariant of the exchange holds in every behaviour.                 *)
(***************************************************************************)
THEOREM ExchangeInvariant == Spec => []IInv
  <1>1. IInv /\ [Next]_vars => IInv'
    BY NextKeeps
  <1> QED BY <1>1, InitIInv, PTL DEF Spec

\* The invariant contains the types.
LEMMA IInvTypes == IInv => TypeOK
  <1> SUFFICES ASSUME IInv PROVE TypeOK
    OBVIOUS
  <1>1. ASSUME NEW n \in DOMAIN sessions, NEW s, s = sessions[n]
        PROVE  /\ s.state \in IKEv2States /\ s.attempt \in 1 .. MaxFaults + 1
               /\ s.psk \in Secrets /\ s.msk \in Secrets /\ s.nt \in BOOLEAN
    <2>1. s \in SessionObjects BY <1>1, IInvParts DEF SessionOK
    <2> QED BY <2>1 DEF SessionObjects
  <1>2. \A l \in Loops : loops[l].route \in {"idle", "init", "auth", "eap"}
    BY DEF IInv, LoopOK, Idle
  <1>3. \A m \in net : m.mid \in 0 .. 5 /\ m.n \in 0 .. Len(sessions)
    BY DEF IInv, MsgOK
  <1>4. \A r \in replies : r.mid \in 0 .. 5 /\ r.n \in 0 .. Len(sessions)
    BY DEF IInv, ReplyOK
  <1>5. epoch \in 1 .. MaxFaults + 1
    BY IInvParts
  <1> QED BY <1>1, <1>2, <1>3, <1>4, <1>5 DEF TypeOK, IInv

\* The invariant implies the two properties.
LEMMA IInvAgrees == IInv => OneInitialChild /\ BothEndsAgree
  <1> SUFFICES ASSUME IInv PROVE OneInitialChild /\ BothEndsAgree
    OBVIOUS
  <1>1. ASSUME NEW n \in DOMAIN sessions PROVE Len(sessions[n].children) <= 1
    <2>1. sessions[n] \in SessionObjects BY <1>1, IInvParts DEF SessionOK
    <2>2. sessions[n].children \in {<<>>} \cup {<<c>> : c \in Children} BY <2>1 DEF SessionObjects
    <2>3. PICK h : h = sessions[n].children OBVIOUS
    <2>4. h = <<>> \/ \E c \in Children : h = <<c>> BY <2>2, <2>3
    <2>5. Len(h) \in {0, 1} BY <2>4
    <2>6. Len(h) <= 1 BY <2>5
    <2> QED BY ONLY <2>3, <2>6
  <1>2. ASSUME client.phase = "done"
        PROVE  LET s == sessions[client.n] IN
               /\ s.suite = client.ikeSuite /\ OfferedTogether(s.suite, profile.ike)
               /\ s.psk = ClientSecret(client) /\ s.peerID = profile.id
               /\ Len(s.children) = 1 /\ s.children[1].suite = client.suite
               /\ "ENCR" \in DOMAIN client.suite /\ OfferedTogether(client.suite, profile.esp)
               /\ client.suite["ENCR"].id = "AES_GCM" => buildESPSA(client.suite)
               /\ \A j \in DOMAIN profile.esp :
                     (\A k \in DOMAIN profile.esp : profile.esp[k].spi = profile.esp[j].spi)
                         => s.children[1].outSPI = profile.esp[j].spi
    <2>1. PICK s : s = sessions[client.n] OBVIOUS
    <2>2. /\ client.n \in DOMAIN sessions /\ client.ikeSuite = ikeSuite[profile.ike]
          /\ s.children # <<>> /\ client.suite = espSuite[profile.esp] /\ s.psk = ClientSecret(client)
      BY <1>2, <2>1 DEF IInv, ClientOK
    <2>3. Negotiated(s) BY <2>1, <2>2, IInvParts DEF SessionOK
    <2>4. /\ s.suite = ikeSuite[profile.ike] /\ s.suite # <<>> /\ s.peerID = profile.id
          /\ s.children = <<TheChild>> /\ espSuite[profile.esp] # <<>>
      BY <2>2, <2>3 DEF Negotiated
    <2>5. OfferedTogether(s.suite, profile.ike)
      BY <2>4, IkeSuite, IInvParts
    <2>6. Len(s.children) = 1 /\ s.children[1] = TheChild
      BY <2>4
    <2>7. TheChild.suite = espSuite[profile.esp] /\ TheChild.outSPI = profile.esp[1].spi
      BY DEF TheChild
    <2>8. /\ "ENCR" \in DOMAIN client.suite /\ OfferedTogether(client.suite, profile.esp)
          /\ client.suite["ENCR"].id = "AES_GCM" => buildESPSA(client.suite)
          /\ 1 \in DOMAIN profile.esp
      BY <2>2, <2>4, EspSuite, IInvParts
    <2> QED BY <2>1, <2>2, <2>4, <2>5, <2>6, <2>7, <2>8
  <1> QED BY <1>1, <1>2 DEF OneInitialChild, BothEndsAgree

(***************************************************************************)
(* Types, for every instance.                                              *)
(***************************************************************************)
THEOREM ExchangeTypes == Spec => []TypeOK
  BY ExchangeInvariant, IInvTypes, PTL

(***************************************************************************)
(* IKE_AUTH gives a session at most one child SA, whatever is repeated,    *)
(* delayed or routed by a state that is no longer true: the pending SA is  *)
(* cleared with the first, and an empty offer is refused.                  *)
(***************************************************************************)
THEOREM AtMostOneChild == Spec => []OneInitialChild
  <1>1. IInv => OneInitialChild BY IInvAgrees
  <1> QED BY <1>1, ExchangeInvariant, PTL

(***************************************************************************)
(* A client that considers itself connected and the session it names agree *)
(* on algorithms, secret, identity and child SA, for every set of clients, *)
(* offers and credentials, any number of faults and of read loops.         *)
(***************************************************************************)
THEOREM EndsAgree == Spec => []BothEndsAgree
  <1>1. IInv => BothEndsAgree BY IInvAgrees
  <1> QED BY <1>1, ExchangeInvariant, PTL

=============================================================================
