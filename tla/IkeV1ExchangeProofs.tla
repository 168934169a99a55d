------------------------ MODULE IkeV1ExchangeProofs -------------------------
(***************************************************************************)
(* What holds of the IKEv1 responder and its client for every set of       *)
(* clients, keys, credentials and SA payloads and for any number of        *)
(* faults.                                                                 *)
(*                                                                         *)
(* EndsInStep and ChildKept compare a client with the one session it       *)
(* names, and neither is inductive: they rest on what a hash in flight     *)
(* says of the keys of its session (ReplyFor), on those keys, the IV and   *)
(* the identity being final once the phase 1 hash was accepted (Moves),    *)
(* and on both ends deriving their keys from one transform (SameKeys).     *)
(***************************************************************************)
EXTENDS IkeV1Exchange, WellFoundedInduction, SequenceTheorems, TLAPS

Elems(s) == {s[i] : i \in DOMAIN s}
IsSeq(s) == s \in Seq(Elems(s))

Settled == {"Established", "XAUTHSent", "XAUTHDone"}
IVs == {"none", "init", "junk", "main5", "main6"}

SessionFields ==
    {"state", "attempt", "config", "psk", "keys", "iv", "peerID", "xauthUser", "nextMsgID", "children"}
ClientFields ==
    {"phase", "attempt", "n", "xf", "keys", "iv", "asked", "child", "repeated"}
MsgFields ==
    {"kind", "attempt", "n", "mid", "damaged", "keys", "iv", "addr", "sa", "esp", "id", "idType",
     "hash", "user", "password"}

\* The transform and the configuration that are chosen for client p, and its child SA.
Choice(p) == selectedV1[p.sa][1]
TheChild(p, mid, nonce) ==
    [mid |-> mid, nonce |-> nonce, len |-> IF p.esp[1] > 0 THEN p.esp[1] ELSE 128]
HasChild(p, s, mid, nonce) ==
    \E i \in DOMAIN s.children : s.children[i] = TheChild(p, mid, nonce)

\* The user of a session is the client's, who gave the right password.
UserOK(p, s) == s.xauthUser = p.user /\ <<p.user, p.password>> \in Credentials

(***************************************************************************)
(* A session made for client p in one of its first k attempts: its keys    *)
(* come from its nonce and the configuration chosen for p, and the IV and  *)
(* the identity are settled once phase 1 is over, in aggressive mode at    *)
(* once.  Phase 1 ends with a proof of the pre-shared key.                 *)
(***************************************************************************)
SessionOK(p, k, s) ==
    /\ DOMAIN s = SessionFields
    /\ s.attempt \in 1 .. k /\ s.nextMsgID \in 0 .. 1 /\ s.iv \in IVs
    /\ selectedV1[p.sa] # <<>> /\ s.config = Choice(p).config
    /\ IsSeq(s.children)
    /\ s.state = "MainSARecv" \/ s.keys = DeriveIKEv1Keys(s.psk, s.keys.nonce, s.config)
    /\ s.state \in Settled => s.psk = p.psk
    /\ s.xauthUser # "" \/ s.state = "XAUTHDone" => UserOK(p, s)
    /\ p.mode = "main1" =>
          /\ s.state \in {"MainSARecv", "MainKERecv"} \cup Settled
          /\ s.state \in Settled => s.iv = "main6" /\ s.peerID = p.id
    /\ p.mode = "aggr1" =>
          s.state \in {"AggrRecv"} \cup Settled /\ s.iv = "init" /\ s.peerID = p.id

(***************************************************************************)
(* What no handler does to a session: change keys it has derived, leave    *)
(* phase 2, change the IV or the identity there, or forget a child SA.     *)
(***************************************************************************)
Moves(p, s, t) ==
    /\ s.state # "MainSARecv" => t.state # "MainSARecv" /\ t.keys = s.keys
    /\ s.state \in Settled => t.state \in Settled
    /\ s.state \in Settled \/ p.mode = "aggr1" => t.iv = s.iv /\ t.peerID = s.peerID
    /\ \A i \in DOMAIN s.children : i \in DOMAIN t.children /\ t.children[i] = s.children[i]

Kinds == {"main1", "main3", "main5", "aggr1", "aggr3", "xauth", "config", "quick1", "quick3"}

\* A request of client p in one of its first k attempts, when there are so many sessions.
MsgOK(p, k, count, m) ==
    /\ DOMAIN m = MsgFields
    /\ m.kind \in Kinds /\ (m.kind \in {"main1", "aggr1"} => m.kind = p.mode)
    /\ m.attempt \in 1 .. k /\ m.n \in 0 .. count
    /\ m.sa = p.sa /\ m.esp = p.esp /\ m.id = p.id /\ m.user = p.user /\ m.password = p.password
    /\ m.kind \in {"main5", "aggr3"} => m.hash.psk = p.psk /\ m.hash.id = p.id

\* What a response says of the session s it comes from.
ReplyFor(p, r, s) ==
    /\ r.kind \in {"main2", "aggr2"} => r.sa = <<Choice(p).xf>>
    /\ r.kind = "main6" => p.mode = "main1" /\ s.state \in Settled
    /\ r.kind = "aggr2" => p.mode = "aggr1"
    /\ r.kind \in {"main6", "aggr2"} => r.hash = HASH_R(s.keys, r.n)
    /\ r.kind = "quick2" => HasChild(p, s, r.mid, r.nonce)

Phase2 == {"wait", "xauth", "config", "quick", "done"}
Phases == {"main1", "main3", "main5", "aggr1", "failed"} \cup Phase2
KeysOf(p, xf, nonce) ==
    Keys(p.psk, nonce, xf.id, IF xf.len > 0 THEN xf.len ELSE IF xf.id = "3DES" THEN 192 ELSE 128)

\* A client past phase 1 and its session s have verified one another's hash.
InStep(p, c, s) ==
    /\ s.state # "MainSARecv" /\ (p.mode = "main1" => s.state \in Settled)
    /\ s.keys.psk = p.psk /\ s.keys.nonce = c.keys.nonce
    /\ s.iv = c.iv /\ s.peerID = p.id

ClientOK(p, c, all) ==
    /\ DOMAIN c = ClientFields
    /\ c.phase \in Phases /\ c.attempt \in 1 .. MaxFaults + 1 /\ c.n \in 0 .. Len(all)
    /\ c.phase \in {"main1", "aggr1"} => c.phase = p.mode
    /\ c.phase \in {"main3", "main5"} \cup Phase2 => c.n # 0 /\ c.xf = Choice(p).xf
    /\ c.phase \in {"main5"} \cup Phase2 => c.keys = KeysOf(p, c.xf, c.keys.nonce)
    /\ c.phase \in Phase2 => InStep(p, c, all[c.n])
    /\ c.phase = "done" => HasChild(p, all[c.n], 2, c.child)

SessionsOK ==
    IsSeq(sessions) /\ \A n \in DOMAIN sessions : SessionOK(profile, client.attempt, sessions[n])
NetOK ==
    IsSeq(net) /\ \A m \in Elems(net) : MsgOK(profile, client.attempt, Len(sessions), m)
RepliesOK ==
    /\ IsSeq(replies)
    /\ \A r \in Elems(replies) : r.n \in DOMAIN sessions /\ ReplyFor(profile, r, sessions[r.n])

IInv ==
    /\ profile \in Profiles /\ v1Sessions \subseteq DOMAIN sessions
    /\ drawn \in Nat /\ faults \in 0 .. MaxFaults
    /\ SessionsOK /\ NetOK /\ RepliesOK
    /\ ClientOK(profile, client, sessions)

-----------------------------------------------------------------------------

\* What every sequence has.
LEMMA SeqFacts ==
    ASSUME NEW s, IsSeq(s)
    PROVE  Len(s) \in Nat /\ DOMAIN s = 1 .. Len(s)
  BY DEF IsSeq

\* The sequences written out.
LEMMA ShortSeqs ==
    /\ IsSeq(<<>>) /\ Elems(<<>>) = {} /\ Len(<<>>) = 0
    /\ \A a : IsSeq(<<a>>) /\ Elems(<<a>>) = {a} /\ Len(<<a>>) = 1
    /\ \A a, b : IsSeq(<<a, b>>) /\ Elems(<<a, b>>) = {a, b} /\ Len(<<a, b>>) = 2
  BY DEF IsSeq, Elems

\* One sequence after another.
LEMMA Joined ==
    ASSUME NEW s, NEW t, IsSeq(s), IsSeq(t)
    PROVE  /\ IsSeq(s \o t) /\ Elems(s \o t) = Elems(s) \cup Elems(t)
           /\ Len(s \o t) = Len(s) + Len(t) /\ DOMAIN (s \o t) = 1 .. Len(s) + Len(t)
           /\ \A i \in DOMAIN s : (s \o t)[i] = s[i]
           /\ \A i \in DOMAIN t : (s \o t)[Len(s) + i] = t[i]
  <1> DEFINE S == Elems(s) \cup Elems(t)
             u == s \o t
  <1>1. s \in Seq(S) /\ t \in Seq(S) BY DEF IsSeq
  <1>2. Len(s) \in Nat /\ Len(t) \in Nat /\ DOMAIN s = 1 .. Len(s) /\ DOMAIN t = 1 .. Len(t)
    BY SeqFacts
  <1>3. u \in Seq(S) /\ Len(u) = Len(s) + Len(t) /\ DOMAIN u = 1 .. Len(s) + Len(t)
    BY <1>1, <1>2
  <1>4. \A i \in DOMAIN s : u[i] = s[i] BY <1>1, <1>2
  <1>5. \A i \in DOMAIN t : u[Len(s) + i] = t[i] BY <1>1, <1>2
  <1>6. Elems(u) \subseteq S
    <2> SUFFICES ASSUME NEW i \in DOMAIN u PROVE u[i] \in S
      BY DEF Elems
    <2> QED BY <1>3
  <1>7. S \subseteq Elems(u)
    <2>1. ASSUME NEW i \in DOMAIN s PROVE s[i] \in Elems(u)
      BY <1>2, <1>3, <1>4 DEF Elems
    <2>2. ASSUME NEW i \in DOMAIN t PROVE t[i] \in Elems(u)
      <3>1. Len(s) + i \in DOMAIN u BY <1>2, <1>3
      <3> QED BY <3>1, <1>5 DEF Elems
    <2> QED BY <2>1, <2>2 DEF Elems
  <1>8. Elems(u) = S BY <1>6, <1>7
  <1>9. IsSeq(u) BY <1>3, <1>8 DEF IsSeq
  <1> QED BY <1>3, <1>4, <1>5, <1>8, <1>9

\* A sequence without one of its elements.
LEMMA Removed ==
    ASSUME NEW s, IsSeq(s), NEW i \in DOMAIN s
    PROVE  IsSeq(Without(s, i)) /\ Elems(Without(s, i)) \subseteq Elems(s)
  <1> DEFINE S == Elems(s)
             a == SubSeq(s, 1, i - 1)
             b == SubSeq(s, i + 1, Len(s))
  <1>1. s \in Seq(S) /\ Len(s) \in Nat /\ DOMAIN s = 1 .. Len(s) BY SeqFacts DEF IsSeq
  <1>2. a \in Seq(S) /\ b \in Seq(S)
    <2>1. \A k \in 1 .. i - 1 : s[k] \in S BY <1>1 DEF Elems
    <2>2. \A k \in i + 1 .. Len(s) : s[k] \in S BY <1>1 DEF Elems
    <2>3. i - 1 \in Nat /\ i + 1 \in Nat /\ i - 1 <= Len(s) BY <1>1
    <2> QED BY <1>1, <2>1, <2>2, <2>3, SubSeqProperties
  <1>3. Without(s, i) \in Seq(S) BY <1>2, ConcatProperties DEF Without
  <1> HIDE DEF S
  <1>4. ASSUME NEW u \in Seq(S) PROVE IsSeq(u) /\ Elems(u) \subseteq S
    <2>1. \A k \in DOMAIN u : u[k] \in S OBVIOUS
    <2>2. Elems(u) \subseteq S BY <2>1 DEF Elems
    <2>3. \A k \in 1 .. Len(u) : u[k] \in Elems(u) BY DEF Elems
    <2>4. u \in Seq(Elems(u)) BY <2>3
    <2> QED BY <2>2, <2>4 DEF IsSeq
  <1> QED BY <1>3, <1>4 DEF S

\* A sequence with one element replaced.
LEMMA Replaced ==
    ASSUME NEW s, IsSeq(s), NEW i \in DOMAIN s, NEW e
    PROVE  LET t == [s EXCEPT ![i] = e] IN
           /\ IsSeq(t) /\ Elems(t) \subseteq Elems(s) \cup {e}
           /\ Len(t) = Len(s) /\ DOMAIN t = DOMAIN s
           /\ t[i] = e /\ \A k \in DOMAIN s : k # i => t[k] = s[k]
  <1> DEFINE t == [s EXCEPT ![i] = e]
  <1>1. s \in Seq(Elems(s) \cup {e}) /\ Len(s) \in Nat /\ DOMAIN s = 1 .. Len(s)
    BY SeqFacts DEF IsSeq
  <1>2. t \in Seq(Elems(s) \cup {e}) /\ Len(t) = Len(s) /\ DOMAIN t = DOMAIN s BY <1>1
  <1>3. t[i] = e /\ \A k \in DOMAIN s : k # i => t[k] = s[k] BY <1>1
  <1>4. Elems(t) \subseteq Elems(s) \cup {e} BY <1>2, <1>3 DEF Elems
  <1>5. IsSeq(t)
    <2>1. \A k \in 1 .. Len(t) : t[k] \in Elems(t) BY <1>1, <1>2 DEF Elems
    <2> HIDE DEF t
    <2> QED BY <1>2, <2>1 DEF IsSeq
  <1> QED BY <1>2, <1>3, <1>4, <1>5

-----------------------------------------------------------------------------

\* The order of the natural numbers, as a relation.
Less == {p \in Nat \X Nat : p[1] < p[2]}

\* A nonempty set of natural numbers has a least member.
LEMMA Smallest ==
    ASSUME NEW S, S \subseteq Nat, S # {}
    PROVE  \E m \in S : \A k \in S : m <= k
  <1>1. IsWellFoundedOn(Less, Nat)
    BY NatLessThanWellFounded DEF OpToRel, Less
  <1>2. PICK m \in S : \A k \in S : ~ (<<k, m>> \in Less)
    BY <1>1, WFMin
  <1>3. \A k \in S : m <= k
    <2> SUFFICES ASSUME NEW k \in S PROVE m <= k
      OBVIOUS
    <2>1. k \in Nat /\ m \in Nat /\ <<k, m>> \in Nat \X Nat
      OBVIOUS
    <2>2. ~ (k < m)
      BY <1>2, <2>1 DEF Less
    <2> QED BY <2>1, <2>2
  <1> QED BY <1>3

\* A nonempty set of pairs of numbers has a first one.
LEMMA FirstPair ==
    ASSUME NEW P, P \subseteq Nat \X Nat, P # {}
    PROVE  \E p \in P : \A q \in P : p[1] < q[1] \/ (p[1] = q[1] /\ p[2] <= q[2])
  <1> DEFINE F == {p[1] : p \in P}
  <1>1. F \subseteq Nat /\ F # {} OBVIOUS
  <1>2. PICK a \in F : \A k \in F : a <= k
    <2> HIDE DEF F
    <2> QED BY <1>1, Smallest
  <1> DEFINE G == {p[2] : p \in {q \in P : q[1] = a}}
  <1>3. G \subseteq Nat /\ G # {} BY <1>2
  <1>4. PICK b \in G : \A k \in G : b <= k
    <2> HIDE DEF G
    <2> QED BY <1>3, Smallest
  <1>5. PICK p \in P : p[1] = a /\ p[2] = b BY <1>4
  <1>6. ASSUME NEW q \in P PROVE p[1] < q[1] \/ (p[1] = q[1] /\ p[2] <= q[2])
    <2>1. q[1] \in F /\ q[1] \in Nat /\ a \in Nat /\ a <= q[1] BY <1>1, <1>2
    <2>2. CASE a = q[1]
      <3>1. q[2] \in G BY <2>2
      <3> QED BY <3>1, <1>4, <1>5, <2>2
    <2>3. CASE a # q[1] BY <2>1, <2>3, <1>5
    <2> QED BY <2>2, <2>3
  <1> QED BY <1>5, <1>6

\* Our configurations: each with AES names its key length.
LEMMA Configured ==
    /\ DOMAIN DefaultV1Phase1Configs = 1 .. 12
    /\ \A i \in 1 .. 12 :
          LET c == DefaultV1Phase1Configs[i] IN
          DOMAIN c = {"enc", "hash", "auth", "dh", "len"} /\ (c.enc = "AES" => c.len \in {128, 256})
  <1>1. DOMAIN DefaultV1Phase1Configs = 1 .. 12 BY DEF DefaultV1Phase1Configs, V1Config
  <1>2. ASSUME NEW i \in 1 .. 12
        PROVE  LET c == DefaultV1Phase1Configs[i] IN
               DOMAIN c = {"enc", "hash", "auth", "dh", "len"} /\ (c.enc = "AES" => c.len \in {128, 256})
    <2>1. \/ i = 1 \/ i = 2 \/ i = 3 \/ i = 4 \/ i = 5 \/ i = 6
          \/ i = 7 \/ i = 8 \/ i = 9 \/ i = 10 \/ i = 11 \/ i = 12
      OBVIOUS
    <2> QED BY <2>1 DEF DefaultV1Phase1Configs, V1Config
  <1> QED BY <1>1, <1>2

(***************************************************************************)
(* SelectV1Proposal answers with a transform of the peer that matches the  *)
(* configuration it chose.  If that transform is AES and names its key     *)
(* length, the responder's keys have that length.                          *)
(***************************************************************************)
LEMMA SameKeys ==
    ASSUME NEW p \in Profiles, selectedV1[p.sa] # <<>>,
           Choice(p).xf.id = "AES", Choice(p).xf.len > 0
    PROVE  /\ Choice(p).config.enc = "AES"
           /\ v1EncKeySize(Choice(p).config) = Choice(p).xf.len
  <1> DEFINE sup == DefaultV1Phase1Configs
             sa == p.sa
             pairs == {q \in (DOMAIN sa) \X (DOMAIN sup) :
                          v1ConfigMatch(sup[q[2]], parseV1TransformAttrs(sa[q[1]]))}
             first(b) == \A q \in pairs : b[1] < q[1] \/ (b[1] = q[1] /\ b[2] <= q[2])
             best == CHOOSE b \in pairs : first(b)
  <1>1. sa \in SAPayloads /\ Len(sa) \in Nat /\ DOMAIN sa = 1 .. Len(sa)
        /\ \A i \in DOMAIN sa : sa[i].len \in Nat
    BY ProfilesAssumption, SAPayloadsAssumption
  <1>2. selectedV1[sa] = IF pairs = {} THEN <<>> ELSE <<[config |-> sup[best[2]], xf |-> sa[best[1]]]>>
    BY <1>1 DEF selectedV1, SelectV1Proposal
  <1>3. pairs # {} BY <1>2
  <1>4. pairs \subseteq Nat \X Nat
    <2>1. DOMAIN sup = 1 .. 12 BY Configured
    <2> HIDE DEF sup
    <2> QED BY <1>1, <2>1
  <1>5. \E b \in pairs : first(b)
    <2> HIDE DEF pairs
    <2> QED BY <1>3, <1>4, FirstPair
  <1>6. best \in pairs
    <2> HIDE DEF pairs, first
    <2> QED BY <1>5
  <1> DEFINE i == best[1]
             j == best[2]
  <1>7. i \in DOMAIN sa /\ j \in DOMAIN sup /\ v1ConfigMatch(sup[j], parseV1TransformAttrs(sa[i]))
    <2> HIDE DEF best, sup
    <2> QED BY <1>6
  <1>8. Choice(p).config = sup[j] /\ Choice(p).xf = sa[i]
    <2> HIDE DEF best, pairs, sup
    <2> QED BY <1>2, <1>3 DEF Choice
  <1> DEFINE c == sup[j]
             x == sa[i]
  <1>9. DOMAIN c = {"enc", "hash", "auth", "dh", "len"} /\ (c.enc = "AES" => c.len \in {128, 256})
    <2> HIDE DEF best
    <2> QED BY <1>7, Configured
  <1>10. x.id = "AES" /\ x.len > 0 /\ x.len \in Nat
    <2> HIDE DEF best
    <2> QED BY <1>1, <1>7, <1>8
  <1>11. v1ConfigMatch(c, parseV1TransformAttrs(x)) BY <1>7
  <1> HIDE DEF c, x
  <1>12. [c EXCEPT !.len = 0].enc = "AES"
    BY <1>10, <1>11 DEF v1ConfigMatch, parseV1TransformAttrs, V1Config
  <1>13. c.enc = "AES" BY <1>9, <1>12
  <1>14. c.len = x.len
    BY <1>9, <1>10, <1>11, <1>13 DEF v1ConfigMatch, parseV1TransformAttrs, V1Config
  <1>15. v1EncKeySize(c) = x.len BY <1>10, <1>14 DEF v1EncKeySize
  <1> QED BY <1>8, <1>13, <1>15 DEF c, x

-----------------------------------------------------------------------------

\* What a handler leaves: a session as it may move, and responses that are true of it.
OutcomeOK(p, k, s, n, out) ==
    /\ SessionOK(p, k, out.s) /\ Moves(p, s, out.s)
    /\ IsSeq(out.replies)
    /\ \A r \in Elems(out.replies) : r.n = n /\ ReplyFor(p, r, out.s)

\* A message that is dropped leaves the session alone.
LEMMA Dropped ==
    ASSUME NEW p, NEW k, NEW s, NEW n, SessionOK(p, k, s)
    PROVE  OutcomeOK(p, k, s, n, drop(s))
  BY ShortSeqs DEF OutcomeOK, drop, Outcome, Moves

\* HandleMainMode3 makes keys once.
LEMMA Main3Good ==
    ASSUME NEW p, p.mode \in {"main1", "aggr1"}, NEW k, NEW s, NEW n, NEW fresh, SessionOK(p, k, s)
    PROVE  OutcomeOK(p, k, s, n, HandleMainMode3(s, n, fresh))
  <1>1. CASE s.state # "MainSARecv" BY <1>1, Dropped DEF HandleMainMode3
  <1>2. CASE s.state = "MainSARecv"
    <2> DEFINE t == [s EXCEPT !.keys = DeriveIKEv1Keys(s.psk, fresh, s.config), !.iv = "init",
                              !.state = "MainKERecv"]
               r == [Reply("main4", s.attempt, n, 0) EXCEPT !.nonce = fresh]
    <2>1. HandleMainMode3(s, n, fresh) = Outcome(t, <<r>>) BY <1>2 DEF HandleMainMode3, rekeyed
    <2>2. DOMAIN s = SessionFields BY DEF SessionOK
    <2>3. /\ DOMAIN t = SessionFields /\ t.state = "MainKERecv" /\ t.iv = "init"
          /\ t.keys = DeriveIKEv1Keys(s.psk, fresh, s.config)
          /\ t.attempt = s.attempt /\ t.config = s.config /\ t.psk = s.psk /\ t.peerID = s.peerID
          /\ t.nextMsgID = s.nextMsgID /\ t.children = s.children /\ t.xauthUser = s.xauthUser
      BY <2>2 DEF SessionFields
    <2>4. t.keys.nonce = fresh BY <2>3 DEF DeriveIKEv1Keys, Keys
    <2>5. r.n = n /\ r.kind = "main4" BY DEF Reply
    <2>6. p.mode = "main1" BY <1>2 DEF SessionOK, Settled
    <2> HIDE DEF t, r
    <2>7. SessionOK(p, k, t) BY <2>3, <2>4, <2>6 DEF SessionOK, IVs, Settled, UserOK
    <2>8. Moves(p, s, t) BY <1>2, <2>3, <2>6 DEF Moves, Settled
    <2>9. ReplyFor(p, r, t) BY <2>5 DEF ReplyFor
    <2> QED BY <2>1, <2>5, <2>7, <2>8, <2>9, ShortSeqs DEF OutcomeOK, Outcome
  <1> QED BY <1>1, <1>2

\* HandleMainMode5 ends phase 1 with the IV of message 6, or moves the IV before its end.
LEMMA Main5Good ==
    ASSUME NEW p, p.mode \in {"main1", "aggr1"}, NEW k, NEW s, NEW n, n # 0, NEW msg, NEW count,
           SessionOK(p, k, s), MsgOK(p, k, count, msg), msg.kind = "main5",
           NEW out \in HandleMainMode5(s, n, msg)
    PROVE  OutcomeOK(p, k, s, n, out)
  <1> DEFINE junk == [s EXCEPT !.iv = "junk"]
             read(id) == [s EXCEPT !.iv = "main5", !.peerID = id]
             done(id) == [s EXCEPT !.iv = "main6", !.peerID = id, !.state = "Established"]
             r == [Reply("main6", s.attempt, n, 0) EXCEPT !.hash = HASH_R(s.keys, n)]
  <1>1. CASE out = drop(s) BY <1>1, Dropped
  <1>2. CASE out # drop(s)
    <2>1. /\ s.state = "MainKERecv"
          /\ \/ out = drop(junk)
             \/ \E m \in readings(s, msg) : out = verifyMain5(s, n, m)
      BY <1>2 DEF HandleMainMode5
    <2>2. DOMAIN s = SessionFields BY DEF SessionOK
    <2>3. p.mode = "main1" BY <2>1 DEF SessionOK, Settled
    <2>4. ASSUME NEW t, DOMAIN t = SessionFields, t.keys = s.keys, t.attempt = s.attempt, t.config = s.config,
                 t.psk = s.psk, t.nextMsgID = s.nextMsgID, t.children = s.children, t.iv \in IVs,
                 t.xauthUser = s.xauthUser,
                 \/ t.state = "MainKERecv"
                 \/ t.state = "Established" /\ t.iv = "main6" /\ t.peerID = p.id /\ t.psk = p.psk
          PROVE  SessionOK(p, k, t) /\ Moves(p, s, t)
      <3>1. SessionOK(p, k, t) BY <2>1, <2>3, <2>4 DEF SessionOK, Settled, UserOK
      <3>2. Moves(p, s, t) BY <2>1, <2>3, <2>4 DEF Moves, Settled
      <3> QED BY <3>1, <3>2
    <2>5. CASE out = drop(junk)
      <3>1. SessionOK(p, k, junk) /\ Moves(p, s, junk)
        BY <2>1, <2>2, <2>4 DEF SessionFields, IVs
      <3> HIDE DEF junk
      <3> QED BY <2>5, <3>1, ShortSeqs DEF OutcomeOK, drop, Outcome
    <2>6. ASSUME NEW m \in readings(s, msg), out = verifyMain5(s, n, m)
          PROVE  OutcomeOK(p, k, s, n, out)
      <3>1. DOMAIN msg = MsgFields /\ msg.id = p.id /\ msg.hash.psk = p.psk /\ msg.hash.id = p.id
        BY DEF MsgOK
      <3>2. m = msg \/ m = [msg EXCEPT !.id = "junk"] \/ m = [msg EXCEPT !.hash = NoHash]
        BY DEF readings, garbled
      <3>3. m.hash = NoHash \/ (m.hash.psk = p.psk /\ m.hash.id = p.id)
        BY <3>1, <3>2 DEF MsgFields
      <3>4. CASE m.hash # computeV1Hash(s.keys, n, m.idType, m.id)
        <4>1. out = drop(read(m.id)) BY <2>6, <3>4 DEF verifyMain5
        <4>2. SessionOK(p, k, read(m.id)) /\ Moves(p, s, read(m.id))
          BY <2>1, <2>2, <2>4 DEF SessionFields, IVs
        <4> HIDE DEF read
        <4> QED BY <4>1, <4>2, ShortSeqs DEF OutcomeOK, drop, Outcome
      <3>5. CASE m.hash = computeV1Hash(s.keys, n, m.idType, m.id)
        <4>1. m.hash.n = n /\ m.hash.id = m.id /\ m.hash.psk = s.keys.psk
          BY <3>5 DEF computeV1Hash
        <4>2. m.hash # NoHash
          <5>1. NoHash.n = 0 BY DEF NoHash, computeV1Hash
          <5> QED BY <4>1, <5>1
        <4>3. s.keys.psk = p.psk /\ m.id = p.id BY <3>3, <4>1, <4>2
        <4>4. s.psk = p.psk
          <5>1. s.keys = DeriveIKEv1Keys(s.psk, s.keys.nonce, s.config) BY <2>1 DEF SessionOK
          <5> QED BY <4>3, <5>1 DEF DeriveIKEv1Keys, Keys
        <4> DEFINE t == done(m.id)
        <4>5. out = Outcome(t, <<r>>) BY <2>6, <3>5 DEF verifyMain5, establishedMain
        <4>6. /\ DOMAIN t = SessionFields /\ t.keys = s.keys /\ t.attempt = s.attempt
              /\ t.config = s.config /\ t.psk = s.psk /\ t.nextMsgID = s.nextMsgID
              /\ t.children = s.children /\ t.iv = "main6" /\ t.state = "Established"
              /\ t.peerID = m.id /\ t.xauthUser = s.xauthUser
          BY <2>2 DEF SessionFields
        <4>7. r.n = n /\ r.kind = "main6" /\ r.hash = HASH_R(s.keys, n) BY DEF Reply
        <4> HIDE DEF t, r
        <4>8. SessionOK(p, k, t) /\ Moves(p, s, t) BY <2>4, <4>3, <4>4, <4>6 DEF IVs
        <4>9. ReplyFor(p, r, t) BY <2>3, <4>6, <4>7 DEF ReplyFor, Settled
        <4> QED BY <4>5, <4>7, <4>8, <4>9, ShortSeqs DEF OutcomeOK, Outcome
      <3> QED BY <3>4, <3>5
    <2> QED BY <2>1, <2>5, <2>6
  <1> QED BY <1>1, <1>2

\* A step that changes only the state, from one of phase 2 or to Established, is good.
LEMMA StateMoves ==
    ASSUME NEW p, p.mode \in {"main1", "aggr1"}, NEW k, NEW s, NEW t, SessionOK(p, k, s),
           DOMAIN t = SessionFields, t.keys = s.keys, t.attempt = s.attempt, t.config = s.config,
           t.psk = s.psk, t.nextMsgID \in 0 .. 1, t.iv = s.iv, t.peerID = s.peerID,
           IsSeq(t.children),
           \A i \in DOMAIN s.children : i \in DOMAIN t.children /\ t.children[i] = s.children[i],
           s.state \in Settled \cup {"AggrRecv"}, t.state \in Settled,
           s.state = "AggrRecv" => s.psk = p.psk,
           \/ t.xauthUser = s.xauthUser /\ (t.state = "XAUTHDone" => s.state = "XAUTHDone")
           \/ UserOK(p, t)
    PROVE  SessionOK(p, k, t) /\ Moves(p, s, t)
  <1>1. SessionOK(p, k, t) BY DEF SessionOK, Settled, UserOK
  <1>2. Moves(p, s, t) BY DEF Moves, Settled
  <1> QED BY <1>1, <1>2

\* HandleAggressive3 ends phase 1 and touches nothing else.
LEMMA Aggressive3Good ==
    ASSUME NEW p, p.mode \in {"main1", "aggr1"}, NEW k, NEW s, NEW n, NEW m, NEW count, SessionOK(p, k, s),
           MsgOK(p, k, count, m), m.kind = "aggr3"
    PROVE  OutcomeOK(p, k, s, n, HandleAggressive3(s, n, m))
  <1> DEFINE t == [s EXCEPT !.state = "Established"]
  <1>1. CASE HandleAggressive3(s, n, m) = drop(s) BY <1>1, Dropped
  <1>2. CASE HandleAggressive3(s, n, m) # drop(s)
    <2>1. /\ s.state = "AggrRecv" /\ HandleAggressive3(s, n, m) = drop(t)
          /\ m.hash = computeV1Hash(s.keys, n, "IPv4", s.peerID)
      BY <1>2 DEF HandleAggressive3
    <2>2. DOMAIN s = SessionFields /\ s.nextMsgID \in 0 .. 1 /\ IsSeq(s.children) BY DEF SessionOK
    <2>3. s.psk = p.psk
      <3>1. s.keys = DeriveIKEv1Keys(s.psk, s.keys.nonce, s.config) BY <2>1 DEF SessionOK
      <3>2. s.keys.psk = p.psk BY <2>1 DEF MsgOK, computeV1Hash
      <3> QED BY <3>1, <3>2 DEF DeriveIKEv1Keys, Keys
    <2>4. SessionOK(p, k, t) /\ Moves(p, s, t)
      BY <2>1, <2>2, <2>3, StateMoves DEF SessionFields, Settled
    <2> HIDE DEF t
    <2> QED BY <2>1, <2>4, ShortSeqs DEF OutcomeOK, drop, Outcome
  <1> QED BY <1>1, <1>2

\* InitiateXAUTH asks once.
LEMMA InitiateGood ==
    ASSUME NEW p, p.mode \in {"main1", "aggr1"}, NEW k, NEW s, NEW n, SessionOK(p, k, s), s.nextMsgID = 0
    PROVE  OutcomeOK(p, k, s, n, InitiateXAUTH(s, n))
  <1> DEFINE t == [s EXCEPT !.nextMsgID = @ + 1, !.state = "XAUTHSent"]
             r == Reply("xauthRequest", s.attempt, n, s.nextMsgID + 1)
  <1>1. CASE s.state # "Established" BY <1>1, Dropped DEF InitiateXAUTH
  <1>2. CASE s.state = "Established"
    <2>1. InitiateXAUTH(s, n) = Outcome(t, <<r>>) BY <1>2 DEF InitiateXAUTH
    <2>2. DOMAIN s = SessionFields /\ IsSeq(s.children) BY DEF SessionOK
    <2>3. /\ DOMAIN t = SessionFields /\ t.state = "XAUTHSent" /\ t.nextMsgID \in 0 .. 1
          /\ t.keys = s.keys /\ t.attempt = s.attempt /\ t.config = s.config /\ t.psk = s.psk
          /\ t.iv = s.iv /\ t.peerID = s.peerID /\ t.children = s.children /\ t.xauthUser = s.xauthUser
      BY <2>2 DEF SessionFields
    <2>4. SessionOK(p, k, t) /\ Moves(p, s, t)
      <3> HIDE DEF t
      <3> QED BY <1>2, <2>2, <2>3, StateMoves DEF Settled
    <2>5. r.n = n /\ r.kind = "xauthRequest" BY DEF Reply
    <2> HIDE DEF t, r
    <2>6. ReplyFor(p, r, t) BY <2>5 DEF ReplyFor
    <2> QED BY <2>1, <2>4, <2>5, <2>6, ShortSeqs DEF OutcomeOK, Outcome
  <1> QED BY <1>1, <1>2

\* HandleTransaction answers and, if the credentials are good, goes on.
LEMMA TransactionGood ==
    ASSUME NEW p, p.mode \in {"main1", "aggr1"}, NEW k, NEW s, NEW n, NEW msg, NEW count, SessionOK(p, k, s),
           MsgOK(p, k, count, msg), msg.kind = "xauth", NEW out \in HandleTransaction(s, n, msg)
    PROVE  OutcomeOK(p, k, s, n, out)
  <1>1. CASE out = drop(s) BY <1>1, Dropped
  <1>2. ASSUME NEW m \in readings(s, msg), s.state = "XAUTHSent", out = handleXAUTHReply(s, n, m)
        PROVE  OutcomeOK(p, k, s, n, out)
    <2> DEFINE t == [s EXCEPT !.xauthUser = m.user, !.state = "XAUTHDone"]
               yes == Reply("xauthOK", s.attempt, n, m.mid)
               no == Reply("xauthFail", s.attempt, n, m.mid)
    <2>1. \/ <<m.user, m.password>> \in Credentials /\ out = Outcome(t, <<yes>>)
          \/ out = Outcome(s, <<no>>)
      BY <1>2 DEF handleXAUTHReply
    <2>2. CASE <<m.user, m.password>> \in Credentials /\ out = Outcome(t, <<yes>>)
      <3>1. DOMAIN s = SessionFields /\ IsSeq(s.children) /\ s.nextMsgID \in 0 .. 1 BY DEF SessionOK
      <3>2. /\ DOMAIN t = SessionFields /\ t.state = "XAUTHDone" /\ t.nextMsgID \in 0 .. 1
            /\ t.keys = s.keys /\ t.attempt = s.attempt /\ t.config = s.config /\ t.psk = s.psk
            /\ t.iv = s.iv /\ t.peerID = s.peerID /\ t.children = s.children /\ t.xauthUser = m.user
        BY <3>1 DEF SessionFields
      <3>3. m.user = p.user /\ m.password = p.password
        <4>1. DOMAIN msg = MsgFields /\ msg.user = p.user /\ msg.password = p.password BY DEF MsgOK
        <4>2. m.user # "junk" /\ m.password # "junk"
          <5>1. PICK c : c = <<m.user, m.password>> OBVIOUS
          <5>2. "junk" \notin {c[1], c[2]} BY <2>2, <5>1, CredentialsAssumption
          <5> QED BY <5>1, <5>2
        <4>3. m = msg \/ m = [msg EXCEPT !.user = "junk"] \/ m = [msg EXCEPT !.password = "junk"]
          BY DEF readings, garbled
        <4> QED BY <4>1, <4>2, <4>3 DEF MsgFields
      <3>4. UserOK(p, t) BY <2>2, <3>2, <3>3 DEF UserOK
      <3>5. SessionOK(p, k, t) /\ Moves(p, s, t)
        <4> HIDE DEF t
        <4> QED BY <1>2, <3>1, <3>2, <3>4, StateMoves DEF Settled
      <3>6. yes.n = n /\ yes.kind = "xauthOK" BY DEF Reply
      <3> HIDE DEF t, yes
      <3>7. ReplyFor(p, yes, t) BY <3>6 DEF ReplyFor
      <3> QED BY <2>2, <3>5, <3>6, <3>7, ShortSeqs DEF OutcomeOK, Outcome
    <2>3. CASE out = Outcome(s, <<no>>)
      <3>1. no.n = n /\ no.kind = "xauthFail" BY DEF Reply
      <3>2. Moves(p, s, s) BY DEF Moves
      <3> HIDE DEF no
      <3>3. ReplyFor(p, no, s) BY <3>1 DEF ReplyFor
      <3> QED BY <2>3, <3>1, <3>2, <3>3, ShortSeqs DEF OutcomeOK, Outcome
    <2> QED BY <2>1, <2>2, <2>3
  <1> QED BY <1>1, <1>2 DEF HandleTransaction

\* HandleModeConfig only answers.
LEMMA ModeConfigGood ==
    ASSUME NEW p, NEW k, NEW s, NEW n, NEW m, SessionOK(p, k, s), NEW out \in HandleModeConfig(s, n, m)
    PROVE  OutcomeOK(p, k, s, n, out)
  <1> DEFINE r == Reply("modeConfig", s.attempt, n, m.mid)
  <1>1. CASE out = drop(s) BY <1>1, Dropped
  <1>2. CASE out # drop(s)
    <2>1. out = Outcome(s, <<r>>) BY <1>2 DEF HandleModeConfig
    <2>2. r.n = n /\ r.kind = "modeConfig" BY DEF Reply
    <2>3. Moves(p, s, s) BY DEF Moves
    <2> HIDE DEF r
    <2>4. ReplyFor(p, r, s) BY <2>2 DEF ReplyFor
    <2> QED BY <2>1, <2>2, <2>3, <2>4, ShortSeqs DEF OutcomeOK, Outcome
  <1> QED BY <1>1, <1>2

\* HandleQuickMode1 adds a child SA behind those there are, and names its nonce.
LEMMA QuickGood ==
    ASSUME NEW p \in Profiles, NEW k, NEW s, NEW n, NEW m, NEW count, NEW fresh,
           SessionOK(p, k, s), MsgOK(p, k, count, m), NEW out \in HandleQuickMode1(s, n, m, fresh)
    PROVE  OutcomeOK(p, k, s, n, out)
  <1> DEFINE new == childSA(m, fresh)
             kids == Append(s.children, new)
             t == [s EXCEPT !.children = kids]
             r == [Reply("quick2", s.attempt, n, m.mid) EXCEPT !.nonce = fresh, !.esp = m.esp]
  <1>1. CASE out = drop(s) BY <1>1, Dropped
  <1>2. CASE out # drop(s)
    <2>1. s.state = "Established" /\ out = Outcome(t, <<r>>)
      BY <1>2 DEF HandleQuickMode1, anotherChild
    <2>2. DOMAIN s = SessionFields /\ s.nextMsgID \in 0 .. 1 /\ IsSeq(s.children) BY DEF SessionOK
    <2>3. p.mode \in {"main1", "aggr1"} /\ p.esp \in Seq(Nat) /\ p.esp # <<>> /\ m.esp = p.esp
      BY ProfilesAssumption DEF MsgOK
    <2>4. new = TheChild(p, m.mid, fresh)
      <3>1. p.esp[1] \in Nat BY <2>3
      <3> QED BY <2>3, <3>1 DEF childSA, extractV1ChildKeyLens, TheChild
    <2> HIDE DEF new
    <2>5. /\ IsSeq(kids)
          /\ \A i \in DOMAIN s.children : i \in DOMAIN kids /\ kids[i] = s.children[i]
          /\ \E i \in DOMAIN kids : kids[i] = new
      <3>1. PICK c : c = s.children OBVIOUS
      <3>2. IsSeq(c) /\ IsSeq(<<new>>) /\ Len(<<new>>) = 1 BY <2>2, <3>1, ShortSeqs
      <3>3. Len(c) \in Nat /\ DOMAIN c = 1 .. Len(c) BY <3>2, SeqFacts
      <3>4. c \in Seq(Elems(c) \cup {new}) BY <3>2 DEF IsSeq
      <3>5. Append(c, new) = c \o <<new>> BY <3>4, <3>3, AppendIsConcat
      <3>6. /\ IsSeq(c \o <<new>>) /\ DOMAIN (c \o <<new>>) = 1 .. Len(c) + 1
            /\ \A i \in DOMAIN c : (c \o <<new>>)[i] = c[i]
            /\ (c \o <<new>>)[Len(c) + 1] = new
        BY <3>2, Joined
      <3>7. PICK d : d = c \o <<new>> OBVIOUS
      <3>8. /\ IsSeq(d) /\ \A i \in DOMAIN c : i \in DOMAIN d /\ d[i] = c[i]
            /\ \E i \in DOMAIN d : d[i] = new
        <4>1. Len(c) + 1 \in DOMAIN d BY <3>3, <3>6, <3>7
        <4>2. \A i \in DOMAIN c : i \in DOMAIN d BY <3>3, <3>6, <3>7
        <4> QED BY <4>1, <4>2, <3>6, <3>7
      <3>9. kids = d BY <3>1, <3>5, <3>7
      <3> QED BY ONLY <3>1, <3>8, <3>9
    <2> HIDE DEF kids
    <2>6. /\ DOMAIN t = SessionFields /\ t.state = "Established" /\ t.nextMsgID \in 0 .. 1
          /\ t.keys = s.keys /\ t.attempt = s.attempt /\ t.config = s.config /\ t.psk = s.psk
          /\ t.iv = s.iv /\ t.peerID = s.peerID /\ t.children = kids /\ t.xauthUser = s.xauthUser
      BY <2>1, <2>2 DEF SessionFields
    <2>7. r.n = n /\ r.kind = "quick2" /\ r.mid = m.mid /\ r.nonce = fresh BY DEF Reply
    <2> HIDE DEF t, r
    <2>8. SessionOK(p, k, t) /\ Moves(p, s, t)
      <3>1. /\ IsSeq(t.children)
            /\ \A i \in DOMAIN s.children : i \in DOMAIN t.children /\ t.children[i] = s.children[i]
        BY ONLY <2>5, <2>6
      <3>2. s.state \in Settled \cup {"AggrRecv"} /\ t.state \in Settled BY <2>1, <2>6 DEF Settled
      <3>3. p.mode \in {"main1", "aggr1"} BY <2>3
      <3> QED BY <2>1, <2>6, <3>1, <3>2, <3>3, StateMoves
    <2>9. ReplyFor(p, r, t) BY <2>4, <2>5, <2>6, <2>7 DEF ReplyFor, HasChild
    <2> QED BY <2>1, <2>7, <2>8, <2>9, ShortSeqs DEF OutcomeOK, Outcome
  <1> QED BY <1>1, <1>2

\* What message 1 makes: nothing, or one session and a response that is true of it.
MadeOK(p, k, n, out) ==
    \/ out.made = <<>> /\ out.replies = <<>>
    \/ \E s, r : /\ out.made = <<s>> /\ out.replies = <<r>>
                 /\ SessionOK(p, k, s) /\ r.n = n /\ ReplyFor(p, r, s)

\* HandleMainMode1 answers with a transform of the client's.
LEMMA Main1Good ==
    ASSUME NEW p, NEW k, NEW n, NEW m, NEW count, MsgOK(p, k, count, m), p.mode = "main1"
    PROVE  MadeOK(p, k, n, HandleMainMode1(m, n))
  <1> DEFINE s == IKEv1Session("MainSARecv", m.attempt, Choice(p).config, PSKs[m.addr])
             r == [Reply("main2", m.attempt, n, 0) EXCEPT !.sa = <<Choice(p).xf>>]
             out == HandleMainMode1(m, n)
  <1>1. m.sa = p.sa /\ m.attempt \in 1 .. k BY DEF MsgOK
  <1>2. \/ out = [made |-> <<>>, replies |-> <<>>]
        \/ selectedV1[p.sa] # <<>> /\ out = [made |-> <<s>>, replies |-> <<r>>]
    BY <1>1 DEF HandleMainMode1, Choice
  <1>3. /\ DOMAIN s = SessionFields /\ s.state = "MainSARecv" /\ s.attempt = m.attempt
        /\ s.config = Choice(p).config /\ s.iv = "none" /\ s.nextMsgID = 0 /\ s.children = <<>>
        /\ s.xauthUser = ""
    BY DEF IKEv1Session, SessionFields
  <1>4. r.n = n /\ r.kind = "main2" /\ r.sa = <<Choice(p).xf>> BY DEF Reply
  <1> HIDE DEF s, r, out
  <1>5. selectedV1[p.sa] # <<>> => SessionOK(p, k, s)
    <2>1. ~ (s.xauthUser # "" \/ s.state = "XAUTHDone") /\ s.state \notin Settled BY <1>3 DEF Settled
    <2>2. IsSeq(s.children) BY <1>3, ShortSeqs
    <2>3. s.nextMsgID \in 0 .. 1 /\ s.iv \in IVs
      <3>1. s.nextMsgID = 0 BY <1>3
      <3>2. s.nextMsgID \in 0 .. 1 BY <3>1
      <3>3. s.iv \in IVs BY <1>3 DEF IVs
      <3> QED BY <3>2, <3>3
    <2> QED BY <1>1, <1>3, <2>1, <2>2, <2>3 DEF SessionOK
  <1>6. ReplyFor(p, r, s) BY <1>4 DEF ReplyFor
  <1> QED BY <1>2, <1>4, <1>5, <1>6 DEF MadeOK, out

\* HandleAggressive1 makes keys at once, and its hash is made with them.
LEMMA Aggressive1Good ==
    ASSUME NEW p, NEW k, NEW n, NEW m, NEW count, NEW fresh, MsgOK(p, k, count, m), p.mode = "aggr1"
    PROVE  MadeOK(p, k, n, HandleAggressive1(m, n, fresh))
  <1> DEFINE psk == PSKs[m.addr]
             keys == DeriveIKEv1Keys(psk, fresh, Choice(p).config)
             new == IKEv1Session("AggrRecv", m.attempt, Choice(p).config, psk)
             s == [new EXCEPT !.peerID = m.id, !.iv = "init", !.keys = keys]
             r == [Reply("aggr2", m.attempt, n, 0) EXCEPT
                      !.sa = <<Choice(p).xf>>, !.nonce = fresh, !.hash = HASH_R(keys, n)]
             out == HandleAggressive1(m, n, fresh)
  <1>1. m.sa = p.sa /\ m.attempt \in 1 .. k /\ m.id = p.id BY DEF MsgOK
  <1>2. \/ out = [made |-> <<>>, replies |-> <<>>]
        \/ selectedV1[p.sa] # <<>> /\ out = [made |-> <<s>>, replies |-> <<r>>]
    BY <1>1 DEF HandleAggressive1, Choice
  <1>3. keys.nonce = fresh BY DEF DeriveIKEv1Keys, Keys
  <1>4. /\ DOMAIN s = SessionFields /\ s.state = "AggrRecv" /\ s.attempt = m.attempt
        /\ s.config = Choice(p).config /\ s.iv = "init" /\ s.nextMsgID = 0 /\ s.children = <<>>
        /\ s.peerID = p.id /\ s.keys = keys /\ s.psk = psk /\ s.xauthUser = ""
    BY <1>1 DEF IKEv1Session, SessionFields
  <1>5. r.n = n /\ r.kind = "aggr2" /\ r.sa = <<Choice(p).xf>> /\ r.hash = HASH_R(keys, n) BY DEF Reply
  <1>6. s.keys = DeriveIKEv1Keys(s.psk, s.keys.nonce, s.config) BY <1>3, <1>4
  <1> HIDE DEF s, r, out, keys, psk
  <1>7. selectedV1[p.sa] # <<>> => SessionOK(p, k, s)
    <2>1. ~ (s.xauthUser # "" \/ s.state = "XAUTHDone") /\ s.state \notin Settled BY <1>4 DEF Settled
    <2>2. IsSeq(s.children) BY <1>4, ShortSeqs
    <2>3. s.nextMsgID \in 0 .. 1 /\ s.iv \in IVs
      <3>1. s.nextMsgID = 0 BY <1>4
      <3>2. s.nextMsgID \in 0 .. 1 BY <3>1
      <3>3. s.iv \in IVs BY <1>4 DEF IVs
      <3> QED BY <3>2, <3>3
    <2> QED BY <1>1, <1>4, <1>6, <2>1, <2>2, <2>3 DEF SessionOK
  <1>8. ReplyFor(p, r, s) BY <1>4, <1>5 DEF ReplyFor
  <1> QED BY <1>2, <1>5, <1>7, <1>8 DEF MadeOK, out

-----------------------------------------------------------------------------

\* The clients are in one of the two modes.
LEMMA TwoModes ==
    ASSUME IInv PROVE profile \in Profiles /\ profile.mode \in {"main1", "aggr1"}
  BY ProfilesAssumption DEF IInv

\* A child SA is still there after a move.
LEMMA ChildStays ==
    ASSUME NEW p, NEW s, NEW t, NEW mid, NEW nonce, Moves(p, s, t), HasChild(p, s, mid, nonce)
    PROVE  HasChild(p, t, mid, nonce)
  BY DEF Moves, HasChild

\* A response stays true of its session.
LEMMA ReplyStays ==
    ASSUME NEW p, NEW k, NEW s, NEW t, NEW r, SessionOK(p, k, s), Moves(p, s, t), ReplyFor(p, r, s)
    PROVE  ReplyFor(p, r, t)
  <1>1. r.kind \in {"main6", "aggr2"} => s.state # "MainSARecv"
    BY DEF ReplyFor, SessionOK, Settled
  <1>2. r.kind \in {"main6", "aggr2"} => t.keys = s.keys BY <1>1 DEF Moves
  <1>3. r.kind = "main6" => t.state \in Settled BY DEF ReplyFor, Moves
  <1>4. r.kind = "quick2" => HasChild(p, t, r.mid, r.nonce) BY ChildStays DEF ReplyFor
  <1> QED BY <1>2, <1>3, <1>4 DEF ReplyFor

\* A client stays in step with its session.
LEMMA ClientStays ==
    ASSUME NEW p, p.mode \in {"main1", "aggr1"}, NEW c, NEW all, NEW more, IsSeq(all), IsSeq(more),
           ClientOK(p, c, all), Len(all) <= Len(more),
           \A n \in DOMAIN all : Moves(p, all[n], more[n])
    PROVE  ClientOK(p, c, more)
  <1>1. Len(all) \in Nat /\ Len(more) \in Nat /\ DOMAIN all = 1 .. Len(all) BY SeqFacts
  <1>2. c.n \in 0 .. Len(all) /\ c.n \in 0 .. Len(more) BY <1>1 DEF ClientOK
  <1>3. c.phase \in Phase2 => c.n # 0 /\ InStep(p, c, all[c.n]) BY DEF ClientOK
  <1>4. c.phase \in Phase2 => Moves(p, all[c.n], more[c.n]) BY <1>1, <1>2, <1>3
  <1>5. c.phase \in Phase2 => InStep(p, c, more[c.n]) BY <1>3, <1>4 DEF InStep, Moves
  <1>6. c.phase = "done" => HasChild(p, more[c.n], 2, c.child)
    <2>1. c.phase = "done" => c.phase \in Phase2 BY DEF Phase2
    <2> QED BY <2>1, <1>4, ChildStays DEF ClientOK
  <1> QED BY <1>2, <1>5, <1>6 DEF ClientOK

(***************************************************************************)
(* The steps of the server: sessions move or are made, responses are       *)
(* added, and messages are taken.                                          *)
(***************************************************************************)
LEMMA ServerKeeps ==
    ASSUME IInv, UNCHANGED <<profile, client>>, drawn' \in Nat, faults' \in 0 .. MaxFaults,
           IsSeq(net'), Elems(net') \subseteq Elems(net),
           IsSeq(sessions'), Len(sessions) <= Len(sessions'), v1Sessions' \subseteq DOMAIN sessions',
           \A n \in DOMAIN sessions : Moves(profile, sessions[n], sessions'[n]),
           \A n \in DOMAIN sessions' : SessionOK(profile, client.attempt, sessions'[n]),
           IsSeq(replies'),
           \A r \in Elems(replies') \ Elems(replies) :
              r.n \in DOMAIN sessions' /\ ReplyFor(profile, r, sessions'[r.n])
    PROVE  IInv'
  <1>1. IsSeq(sessions) /\ \A n \in DOMAIN sessions : SessionOK(profile, client.attempt, sessions[n])
    BY DEF IInv, SessionsOK
  <1>2. /\ Len(sessions) \in Nat /\ DOMAIN sessions = 1 .. Len(sessions)
        /\ Len(sessions') \in Nat /\ DOMAIN sessions' = 1 .. Len(sessions')
    BY <1>1, SeqFacts
  <1>3. SessionsOK' BY DEF SessionsOK
  <1>4. NetOK'
    <2>1. \A m \in Elems(net') : MsgOK(profile, client.attempt, Len(sessions), m) BY DEF IInv, NetOK
    <2>2. ASSUME NEW m, MsgOK(profile, client.attempt, Len(sessions), m)
          PROVE  MsgOK(profile, client.attempt, Len(sessions'), m)
      BY <1>2, <2>2 DEF MsgOK
    <2>3. \A m \in Elems(net') : MsgOK(profile, client.attempt, Len(sessions'), m) BY <2>1, <2>2
    <2> QED BY <2>3 DEF NetOK, Elems
  <1>5. ASSUME NEW r \in Elems(replies) PROVE r.n \in DOMAIN sessions' /\ ReplyFor(profile, r, sessions'[r.n])
    <2>1. r.n \in DOMAIN sessions /\ ReplyFor(profile, r, sessions[r.n]) BY DEF IInv, RepliesOK
    <2>2. r.n \in DOMAIN sessions' BY <1>2, <2>1
    <2> QED BY <1>1, <2>1, <2>2, ReplyStays
  <1>6. RepliesOK' BY <1>5 DEF RepliesOK, Elems
  <1>7. ClientOK(profile, client, sessions') BY <1>1, TwoModes, ClientStays DEF IInv
  <1> QED BY <1>3, <1>4, <1>6, <1>7 DEF IInv

\* A handler that moves the session of a message.
LEMMA InSessionKeeps ==
    ASSUME IInv, NEW n \in DOMAIN sessions, NEW out,
           OutcomeOK(profile, client.attempt, sessions[n], n, out),
           sessions' = [sessions EXCEPT ![n] = out.s], replies' = replies \o out.replies,
           drawn' \in Nat, faults' \in 0 .. MaxFaults, UNCHANGED <<v1Sessions, profile, client>>,
           IsSeq(net'), Elems(net') \subseteq Elems(net)
    PROVE  IInv'
  <1>1. IsSeq(sessions) /\ \A i \in DOMAIN sessions : SessionOK(profile, client.attempt, sessions[i])
    BY DEF IInv, SessionsOK
  <1>2. /\ IsSeq(sessions') /\ Len(sessions') = Len(sessions) /\ DOMAIN sessions' = DOMAIN sessions
        /\ sessions'[n] = out.s /\ \A i \in DOMAIN sessions : i # n => sessions'[i] = sessions[i]
    BY <1>1, Replaced
  <1>3. Len(sessions) <= Len(sessions') BY <1>1, <1>2, SeqFacts
  <1>4. /\ SessionOK(profile, client.attempt, out.s) /\ Moves(profile, sessions[n], out.s)
        /\ IsSeq(out.replies)
        /\ \A r \in Elems(out.replies) : r.n = n /\ ReplyFor(profile, r, out.s)
    BY DEF OutcomeOK
  <1>5. ASSUME NEW i \in DOMAIN sessions
        PROVE  Moves(profile, sessions[i], sessions'[i]) /\ SessionOK(profile, client.attempt, sessions'[i])
    <2>1. Moves(profile, sessions[i], sessions[i]) BY DEF Moves
    <2> QED BY <1>1, <1>2, <1>4, <2>1
  <1>6. IsSeq(replies') /\ Elems(replies') = Elems(replies) \cup Elems(out.replies)
    BY <1>4, Joined DEF IInv, RepliesOK
  <1>7. ASSUME NEW r \in Elems(replies') \ Elems(replies)
        PROVE  r.n \in DOMAIN sessions' /\ ReplyFor(profile, r, sessions'[r.n])
    BY <1>2, <1>4, <1>6
  <1>8. v1Sessions' \subseteq DOMAIN sessions' BY <1>2 DEF IInv
  <1> QED BY <1>2, <1>3, <1>5, <1>6, <1>7, <1>8, ServerKeeps

\* A handler that makes a session for message 1.
LEMMA AnsweredKeeps ==
    ASSUME IInv, NEW out, MadeOK(profile, client.attempt, Len(sessions) + 1, out),
           Answered(out.made, out.replies),
           faults' \in 0 .. MaxFaults, UNCHANGED <<profile, client>>,
           IsSeq(net'), Elems(net') \subseteq Elems(net)
    PROVE  IInv'
  <1>1. IsSeq(sessions) /\ \A i \in DOMAIN sessions : SessionOK(profile, client.attempt, sessions[i])
    BY DEF IInv, SessionsOK
  <1>2. Len(sessions) \in Nat /\ DOMAIN sessions = 1 .. Len(sessions) BY <1>1, SeqFacts
  <1>3. drawn \in Nat /\ IsSeq(replies) /\ v1Sessions \subseteq DOMAIN sessions BY DEF IInv, RepliesOK
  <1>4. \A i \in DOMAIN sessions : Moves(profile, sessions[i], sessions[i]) BY DEF Moves
  <1>5. /\ sessions' = sessions \o out.made /\ replies' = replies \o out.replies
        /\ v1Sessions' = v1Sessions \cup (Len(sessions) + 1 .. Len(sessions'))
        /\ drawn' = drawn + Len(out.replies)
    BY DEF Answered
  <1>6. CASE out.made = <<>> /\ out.replies = <<>>
    <2>1. IsSeq(<<>>) /\ Elems(<<>>) = {} /\ Len(<<>>) = 0 /\ DOMAIN <<>> = {} BY ShortSeqs
    <2>2. /\ IsSeq(sessions') /\ Len(sessions') = Len(sessions) /\ DOMAIN sessions' = DOMAIN sessions
          /\ \A i \in DOMAIN sessions : sessions'[i] = sessions[i]
      BY <1>1, <1>2, <1>5, <1>6, <2>1, Joined
    <2>3. IsSeq(replies') /\ Elems(replies') = Elems(replies) BY <1>3, <1>5, <1>6, <2>1, Joined
    <2>4. drawn' \in Nat /\ v1Sessions' \subseteq DOMAIN sessions' /\ Len(sessions) <= Len(sessions')
      BY <1>2, <1>3, <1>5, <1>6, <2>1, <2>2
    <2>5. \A i \in DOMAIN sessions : Moves(profile, sessions[i], sessions'[i]) BY <1>4, <2>2
    <2>6. \A i \in DOMAIN sessions' : SessionOK(profile, client.attempt, sessions'[i]) BY <1>1, <2>2
    <2> QED BY <2>2, <2>3, <2>4, <2>5, <2>6, ServerKeeps
  <1>7. CASE ~ (out.made = <<>> /\ out.replies = <<>>)
    <2>1. PICK s, r : /\ out.made = <<s>> /\ out.replies = <<r>> /\ SessionOK(profile, client.attempt, s)
                      /\ r.n = Len(sessions) + 1 /\ ReplyFor(profile, r, s)
      BY <1>7 DEF MadeOK
    <2>2. /\ IsSeq(<<s>>) /\ Len(<<s>>) = 1 /\ DOMAIN <<s>> = {1} /\ <<s>>[1] = s
          /\ IsSeq(<<r>>) /\ Elems(<<r>>) = {r} /\ Len(<<r>>) = 1
      BY ShortSeqs
    <2>3. /\ IsSeq(sessions') /\ Len(sessions') = Len(sessions) + 1
          /\ DOMAIN sessions' = 1 .. Len(sessions) + 1
          /\ \A i \in DOMAIN sessions : sessions'[i] = sessions[i]
      BY <1>1, <1>5, <2>1, <2>2, Joined
    <2>4. sessions'[Len(sessions) + 1] = s BY <1>1, <1>5, <2>1, <2>2, Joined
    <2>5. IsSeq(replies') /\ Elems(replies') = Elems(replies) \cup {r} BY <1>3, <1>5, <2>1, <2>2, Joined
    <2>6. drawn' \in Nat /\ v1Sessions' \subseteq DOMAIN sessions' /\ Len(sessions) <= Len(sessions')
      BY <1>2, <1>3, <1>5, <2>1, <2>2, <2>3
    <2>7. \A i \in DOMAIN sessions : Moves(profile, sessions[i], sessions'[i]) BY <1>4, <2>3
    <2>8. ASSUME NEW i \in DOMAIN sessions' PROVE SessionOK(profile, client.attempt, sessions'[i])
      <3>1. i \in DOMAIN sessions \/ i = Len(sessions) + 1 BY <1>2, <2>3
      <3> QED BY <1>1, <2>1, <2>3, <2>4, <3>1
    <2>9. Len(sessions) + 1 \in DOMAIN sessions' BY <1>2, <2>3
    <2>10. ASSUME NEW q \in Elems(replies') \ Elems(replies)
           PROVE  q.n \in DOMAIN sessions' /\ ReplyFor(profile, q, sessions'[q.n])
      BY <2>1, <2>4, <2>5, <2>9
    <2> QED BY <2>3, <2>5, <2>6, <2>7, <2>8, <2>10, ServerKeeps
  <1> QED BY <1>6, <1>7

\* Every handler that a message in a session is given to leaves a good session.
LEMMA LaterGood ==
    ASSUME IInv, NEW m, MsgOK(profile, client.attempt, Len(sessions), m), m.n \in DOMAIN sessions,
           m.kind \notin {"main1", "xauth", "aggr1"}, NEW out \in Later(sessions[m.n], m)
    PROVE  OutcomeOK(profile, client.attempt, sessions[m.n], m.n, out)
  <1> DEFINE s == sessions[m.n]
  <1>1. SessionOK(profile, client.attempt, s) BY DEF IInv, SessionsOK
  <1>2. profile \in Profiles /\ profile.mode \in {"main1", "aggr1"} BY TwoModes
  <1>3. m.kind \in {"main3", "main5", "aggr3", "config", "quick1", "quick3"} BY DEF MsgOK, Kinds
  <1>4. CASE m.kind = "main3"
    <2>1. out = HandleMainMode3(s, m.n, drawn + 1) BY <1>4 DEF Later
    <2> QED BY <1>1, <1>2, <2>1, Main3Good
  <1>5. CASE m.kind = "main5"
    <2>1. out \in HandleMainMode5(s, m.n, m) BY <1>5 DEF Later
    <2>2. m.n # 0 BY SeqFacts DEF IInv, SessionsOK
    <2> QED BY <1>1, <1>2, <1>5, <2>1, <2>2, Main5Good
  <1>6. CASE m.kind = "aggr3"
    <2>1. out = HandleAggressive3(s, m.n, m) BY <1>6 DEF Later
    <2> QED BY <1>1, <1>2, <1>6, <2>1, Aggressive3Good
  <1>7. CASE m.kind = "config"
    <2>1. out \in HandleModeConfig(s, m.n, m) BY <1>7 DEF Later
    <2> QED BY <1>1, <2>1, ModeConfigGood
  <1>8. CASE m.kind = "quick1"
    <2>1. out \in HandleQuickMode1(s, m.n, m, drawn + 1) BY <1>8 DEF Later
    <2> QED BY <1>1, <1>2, <2>1, QuickGood
  <1>9. CASE m.kind = "quick3"
    <2>1. out = drop(s) BY <1>9 DEF Later, HandleQuickMode3
    <2> QED BY <1>1, <2>1, Dropped
  <1> QED BY <1>3, <1>4, <1>5, <1>6, <1>7, <1>8, <1>9

\* Nothing but the messages on their way, the faults or the known sessions changes.
LEMMA QuietKeeps ==
    ASSUME IInv, UNCHANGED <<sessions, drawn, profile, client>>, v1Sessions' \subseteq v1Sessions,
           faults' \in 0 .. MaxFaults, IsSeq(net'), IsSeq(replies'), Elems(replies') \subseteq Elems(replies),
           \A m \in Elems(net') : MsgOK(profile, client.attempt, Len(sessions), m)
    PROVE  IInv'
  <1>1. SessionsOK' BY DEF IInv, SessionsOK
  <1>2. NetOK' BY DEF NetOK, Elems
  <1>3. RepliesOK' BY DEF IInv, RepliesOK, Elems
  <1> QED BY <1>1, <1>2, <1>3 DEF IInv

\* The responder takes a message, in order or not, or a copy of it.
LEMMA TakeKeeps ==
    ASSUME IInv, NEW i \in DOMAIN net, NEW copy \in BOOLEAN, Take(i, copy), faults' \in 0 .. MaxFaults
    PROVE  IInv'
  <1>1. PICK m : m = net[i] OBVIOUS
  <1>2. IsSeq(net) /\ \A q \in Elems(net) : MsgOK(profile, client.attempt, Len(sessions), q)
    BY DEF IInv, NetOK
  <1>3. MsgOK(profile, client.attempt, Len(sessions), m) BY <1>1, <1>2 DEF Elems
  <1>4. IsSeq(net') /\ Elems(net') \subseteq Elems(net)
    <2>1. IsSeq(Without(net, i)) /\ Elems(Without(net, i)) \subseteq Elems(net) BY <1>2, Removed
    <2>2. net' = net \/ net' = Without(net, i) BY DEF Take
    <2> QED BY <1>2, <2>1, <2>2
  <1>5. UNCHANGED <<profile, client>> /\ (handleIKEv1(m) \/ Dispatch(m)) BY <1>1 DEF Take
  <1>6. v1Sessions \subseteq DOMAIN sessions /\ drawn \in Nat /\ IsSeq(replies) BY DEF IInv, RepliesOK
  <1>7. CASE UNCHANGED <<serverVars, replies>>
    <2>1. UNCHANGED <<sessions, drawn, profile, client, v1Sessions, replies>> BY <1>5, <1>7 DEF serverVars
    <2>2. IsSeq(replies') /\ Elems(replies') \subseteq Elems(replies) BY <1>6, <2>1
    <2>3. \A q \in Elems(net') : MsgOK(profile, client.attempt, Len(sessions), q) BY <1>2, <1>4
    <2> QED BY <1>4, <2>1, <2>2, <2>3, QuietKeeps
  <1>8. ASSUME NEW outcomes, InSession(m, outcomes), m.n \in DOMAIN sessions,
               \A out \in outcomes : OutcomeOK(profile, client.attempt, sessions[m.n], m.n, out)
        PROVE  IInv'
    <2>1. PICK out \in outcomes :
             /\ sessions' = [sessions EXCEPT ![m.n] = out.s]
             /\ replies' = replies \o out.replies
             /\ drawn' = drawn + Len(out.replies)
             /\ UNCHANGED v1Sessions
      BY <1>8 DEF InSession
    <2>2. OutcomeOK(profile, client.attempt, sessions[m.n], m.n, out) BY <1>8
    <2>3. Len(out.replies) \in Nat BY <2>2, SeqFacts DEF OutcomeOK
    <2>4. drawn' \in Nat BY <1>6, <2>1, <2>3
    <2> QED BY <1>4, <1>5, <1>8, <2>1, <2>2, <2>4, InSessionKeeps
  <1>9. CASE m.kind = "main1" /\ ~ UNCHANGED <<serverVars, replies>>
    <2> DEFINE out == HandleMainMode1(m, Len(sessions) + 1)
    <2>1. Answered(out.made, out.replies) BY <1>5, <1>9 DEF handleIKEv1, Dispatch
    <2>2. profile.mode = "main1" BY <1>3, <1>9 DEF MsgOK
    <2>3. MadeOK(profile, client.attempt, Len(sessions) + 1, out) BY <1>3, <2>2, Main1Good
    <2> HIDE DEF out
    <2> QED BY <1>4, <1>5, <2>1, <2>3, AnsweredKeeps
  <1>10. CASE m.kind = "aggr1" /\ ~ UNCHANGED <<serverVars, replies>>
    <2> DEFINE out == HandleAggressive1(m, Len(sessions) + 1, drawn + 1)
    <2>1. Answered(out.made, out.replies) BY <1>5, <1>10 DEF handleIKEv1, Dispatch
    <2>2. profile.mode = "aggr1" BY <1>3, <1>10 DEF MsgOK
    <2>3. MadeOK(profile, client.attempt, Len(sessions) + 1, out) BY <1>3, <2>2, Aggressive1Good
    <2> HIDE DEF out
    <2> QED BY <1>4, <1>5, <2>1, <2>3, AnsweredKeeps
  <1>11. CASE m.kind = "xauth" /\ ~ UNCHANGED <<serverVars, replies>>
    <2>1. m.n \in v1Sessions /\ InSession(m, HandleTransaction(sessions[m.n], m.n, m))
      BY <1>5, <1>11 DEF handleIKEv1, Dispatch
    <2>2. m.n \in DOMAIN sessions BY <1>6, <2>1
    <2>3. SessionOK(profile, client.attempt, sessions[m.n]) BY <2>2 DEF IInv, SessionsOK
    <2>4. ASSUME NEW out \in HandleTransaction(sessions[m.n], m.n, m)
          PROVE  OutcomeOK(profile, client.attempt, sessions[m.n], m.n, out)
      BY <1>3, <1>11, <2>3, TwoModes, TransactionGood
    <2> QED BY <1>8, <2>1, <2>2, <2>4
  <1>12. CASE m.kind \notin {"main1", "xauth", "aggr1"} /\ ~ UNCHANGED <<serverVars, replies>>
    <2>1. m.n \in v1Sessions /\ InSession(m, Later(sessions[m.n], m))
      BY <1>5, <1>12 DEF handleIKEv1, Dispatch
    <2>2. m.n \in DOMAIN sessions BY <1>6, <2>1
    <2> QED BY <1>3, <1>8, <1>12, <2>1, <2>2, LaterGood
  <1> QED BY <1>7, <1>9, <1>10, <1>11, <1>12

\* The responder asks for a name and a password.
LEMMA StartXAUTHKeeps ==
    ASSUME IInv, NEW n \in v1Sessions, StartXAUTH(n)
    PROVE  IInv'
  <1> DEFINE out == InitiateXAUTH(sessions[n], n)
  <1>1. n \in DOMAIN sessions /\ drawn \in Nat /\ faults \in 0 .. MaxFaults /\ IsSeq(net)
    BY DEF IInv, NetOK
  <1>2. /\ sessions' = [sessions EXCEPT ![n] = out.s] /\ replies' = replies \o out.replies
        /\ UNCHANGED <<v1Sessions, drawn, net, profile, client, faults>>
        /\ sessions[n].nextMsgID = 0
    BY DEF StartXAUTH, AwaitsXAUTH
  <1>3. OutcomeOK(profile, client.attempt, sessions[n], n, out)
    BY <1>1, <1>2, TwoModes, InitiateGood DEF IInv, SessionsOK
  <1>4. IsSeq(net') /\ Elems(net') \subseteq Elems(net) /\ drawn' \in Nat /\ faults' \in 0 .. MaxFaults
    BY <1>1, <1>2
  <1> HIDE DEF out
  <1> QED BY <1>1, <1>2, <1>3, <1>4, InSessionKeeps

-----------------------------------------------------------------------------

\* What the client's steps leave to the server and the network.
ClientFrame ==
    /\ UNCHANGED <<sessions, v1Sessions, drawn, profile>> /\ faults' \in 0 .. MaxFaults
    /\ IsSeq(replies') /\ Elems(replies') \subseteq Elems(replies)

\* The requests of a client are its own.
LEMMA RequestsGood ==
    ASSUME profile.mode \in {"main1", "aggr1"}, NEW c, NEW all, ClientOK(profile, c, all), c.phase # "failed"
    PROVE  IsSeq(Requests(c)) /\ \A m \in Elems(Requests(c)) : MsgOK(profile, c.attempt, Len(all), m)
  <1>1. c.phase \in Phases /\ c.attempt \in 1 .. MaxFaults + 1 /\ c.n \in 0 .. Len(all)
        /\ (c.phase \in {"main1", "aggr1"} => c.phase = profile.mode)
    BY DEF ClientOK
  <1>2. c.attempt \in 1 .. c.attempt BY <1>1, MaxFaultsAssumption
  <1>3. ASSUME NEW kind \in Kinds, kind \in {"main1", "aggr1"} => kind = profile.mode,
               kind \in {"main5", "aggr3"} => c.phase \in {"main5"} \cup Phase2
        PROVE  MsgOK(profile, c.attempt, Len(all), Msg(kind, c))
    <2> DEFINE m == Msg(kind, c)
    <2>1. /\ DOMAIN m = MsgFields /\ m.kind = kind /\ m.attempt = c.attempt /\ m.n = c.n
          /\ m.sa = profile.sa /\ m.esp = profile.esp /\ m.id = profile.id
          /\ m.user = profile.user /\ m.password = profile.password
          /\ m.hash.psk = c.keys.psk /\ m.hash.id = profile.id
      BY DEF Msg, MsgFields, computeV1Hash
    <2> HIDE DEF m
    <2>2. kind \in {"main5", "aggr3"} => m.hash.psk = profile.psk
      <3>1. kind \in {"main5", "aggr3"} => c.keys = KeysOf(profile, c.xf, c.keys.nonce)
        BY <1>3 DEF ClientOK
      <3> QED BY <2>1, <3>1 DEF KeysOf, Keys
    <2>3. MsgOK(profile, c.attempt, Len(all), m) BY <1>1, <1>2, <1>3, <2>1, <2>2 DEF MsgOK
    <2> QED BY <2>3 DEF m
  <1>4. \/ Requests(c) = <<>>
        \/ Requests(c) = <<Msg("aggr3", c), Msg("quick1", c)>> /\ c.phase = "quick"
        \/ Requests(c) = <<Msg("quick1", c)>>
        \/ Requests(c) = <<Msg("quick3", c)>>
        \/ /\ Requests(c) = <<Msg(c.phase, c)>>
           /\ c.phase \in {"main1", "main3", "main5", "aggr1", "xauth", "config"}
    BY <1>1 DEF Requests, Phases, Phase2
  <1>5. CASE Requests(c) = <<>> BY <1>5, ShortSeqs
  <1>6. CASE Requests(c) = <<Msg("aggr3", c), Msg("quick1", c)>> /\ c.phase = "quick"
    <2>1. /\ MsgOK(profile, c.attempt, Len(all), Msg("aggr3", c))
          /\ MsgOK(profile, c.attempt, Len(all), Msg("quick1", c))
      BY <1>3, <1>6 DEF Kinds, Phase2
    <2>2. IsSeq(Requests(c)) /\ Elems(Requests(c)) = {Msg("aggr3", c), Msg("quick1", c)}
      BY <1>6, ShortSeqs
    <2> QED BY <2>1, <2>2
  <1>7. ASSUME NEW kind \in Kinds, Requests(c) = <<Msg(kind, c)>>,
               kind \in {"main1", "aggr1"} => kind = profile.mode,
               kind \in {"main5", "aggr3"} => c.phase = "main5"
        PROVE  IsSeq(Requests(c)) /\ \A m \in Elems(Requests(c)) : MsgOK(profile, c.attempt, Len(all), m)
    <2>1. IsSeq(Requests(c)) /\ Elems(Requests(c)) = {Msg(kind, c)} BY <1>7, ShortSeqs
    <2>2. MsgOK(profile, c.attempt, Len(all), Msg(kind, c)) BY <1>3, <1>7
    <2> QED BY <2>1, <2>2
  <1>8. {"quick1", "quick3", "main1", "main3", "main5", "aggr1", "xauth", "config"} \subseteq Kinds
    BY DEF Kinds
  <1> QED BY <1>1, <1>4, <1>5, <1>6, <1>7, <1>8

\* A client that enters a phase, or repeats a request.
LEMMA SendKeeps ==
    ASSUME IInv, ClientFrame, NEW c, ClientOK(profile, c, sessions), c.phase # "failed",
           client.attempt <= c.attempt, Send(c)
    PROVE  IInv'
  <1>1. client' = c /\ net' = net \o Requests(c) BY DEF Send
  <1>2. IsSeq(Requests(c)) /\ \A m \in Elems(Requests(c)) : MsgOK(profile, c.attempt, Len(sessions), m)
    BY TwoModes, RequestsGood
  <1>3. client.attempt \in Nat /\ c.attempt \in Nat BY MaxFaultsAssumption DEF IInv, ClientOK
  <1>4. SessionsOK'
    <2>1. ASSUME NEW n \in DOMAIN sessions PROVE SessionOK(profile, c.attempt, sessions[n])
      <3>1. PICK s : s = sessions[n] OBVIOUS
      <3>2. SessionOK(profile, client.attempt, s) BY <3>1 DEF IInv, SessionsOK
      <3>3. s.attempt \in 1 .. client.attempt BY <3>2 DEF SessionOK
      <3>4. s.attempt \in 1 .. c.attempt BY <1>3, <3>3
      <3>5. SessionOK(profile, c.attempt, s) BY <3>2, <3>4 DEF SessionOK
      <3> QED BY <3>1, <3>5
    <2> QED BY <1>1, <2>1 DEF IInv, SessionsOK, ClientFrame
  <1>5. NetOK'
    <2>1. IsSeq(net') /\ Elems(net') = Elems(net) \cup Elems(Requests(c))
      BY <1>1, <1>2, Joined DEF IInv, NetOK
    <2>2. ASSUME NEW m \in Elems(net) PROVE MsgOK(profile, c.attempt, Len(sessions), m)
      <3>1. MsgOK(profile, client.attempt, Len(sessions), m) BY DEF IInv, NetOK
      <3>2. m.attempt \in 1 .. client.attempt BY <3>1 DEF MsgOK
      <3>3. m.attempt \in 1 .. c.attempt BY <1>3, <3>2
      <3> QED BY <3>1, <3>3 DEF MsgOK
    <2>3. \A m \in Elems(net') : MsgOK(profile, c.attempt, Len(sessions), m) BY <1>2, <2>1, <2>2
    <2> QED BY <1>1, <2>1, <2>3 DEF NetOK, Elems, ClientFrame
  <1>6. RepliesOK' BY DEF IInv, RepliesOK, Elems, ClientFrame
  <1>7. ClientOK(profile, client, sessions)' BY <1>1 DEF ClientFrame
  <1> QED BY <1>4, <1>5, <1>6, <1>7 DEF IInv, ClientFrame

\* A client that connects again or gives up.
LEMMA RetryKeeps ==
    ASSUME IInv, ClientFrame, Retry
    PROVE  IInv'
  <1>1. /\ client.attempt \in 1 .. MaxFaults + 1 /\ DOMAIN client = ClientFields
        /\ client.n \in 0 .. Len(sessions)
    BY DEF IInv, ClientOK
  <1>2. CASE client.attempt <= MaxFaults
    <2> DEFINE c == NewAttempt(client.attempt + 1)
    <2>1. Send(c) BY <1>2 DEF Retry
    <2>2. /\ DOMAIN c = ClientFields /\ c.phase = profile.mode /\ c.attempt = client.attempt + 1
          /\ c.n = 0
      BY DEF NewAttempt, ClientFields
    <2> HIDE DEF c
    <2>3. c.phase \in {"main1", "aggr1"} BY <2>2, TwoModes
    <2>4. c.attempt \in 1 .. MaxFaults + 1 /\ client.attempt <= c.attempt /\ c.n \in 0 .. Len(sessions)
      BY <1>1, <1>2, <2>2, MaxFaultsAssumption
    <2>5. ClientOK(profile, c, sessions) BY <2>2, <2>3, <2>4 DEF ClientOK, Phases, Phase2
    <2> QED BY <2>1, <2>3, <2>4, <2>5, SendKeeps
  <1>3. CASE ~ (client.attempt <= MaxFaults)
    <2> DEFINE c == [client EXCEPT !.phase = "failed"]
    <2>1. client' = c /\ net' = net BY <1>3 DEF Retry
    <2>2. DOMAIN c = ClientFields /\ c.phase = "failed" /\ c.attempt = client.attempt /\ c.n = client.n
      BY <1>1 DEF ClientFields
    <2> HIDE DEF c
    <2>3. ClientOK(profile, c, sessions) BY <1>1, <2>2 DEF ClientOK, Phases, Phase2
    <2>4. SessionsOK' BY <2>1, <2>2 DEF IInv, SessionsOK, ClientFrame
    <2>5. NetOK' BY <2>1, <2>2 DEF IInv, NetOK, ClientFrame
    <2>6. RepliesOK' BY DEF IInv, RepliesOK, Elems, ClientFrame
    <2> QED BY <2>1, <2>3, <2>4, <2>5, <2>6 DEF IInv, ClientFrame
  <1> QED BY <1>2, <1>3

\* What a client expects, phase by phase.
LEMMA Expected ==
    ASSUME NEW r, Answers(r)
    PROVE  \/ client.phase = "main1" /\ r.kind = "main2"
           \/ client.phase = "main3" /\ r.kind = "main4"
           \/ client.phase = "main5" /\ r.kind = "main6"
           \/ client.phase = "aggr1" /\ r.kind = "aggr2"
           \/ client.phase = "wait" /\ r.kind = "xauthRequest"
           \/ client.phase = "xauth" /\ r.kind \in {"xauthOK", "xauthFail"}
           \/ client.phase = "config" /\ r.kind = "modeConfig"
           \/ client.phase = "quick" /\ r.kind = "quick2"
  BY DEF Answers, Waiting, ExpectedKinds

\* A client that goes on in phase 2 stays in step.
LEMMA GoesOn ==
    ASSUME NEW p, NEW all, NEW b, NEW c, ClientOK(p, b, all), b.phase \in Phase2,
           DOMAIN c = ClientFields, c.phase \in Phase2, c.attempt = b.attempt, c.n = b.n, c.xf = b.xf,
           c.keys = b.keys, c.iv = b.iv,
           c.phase = "done" => HasChild(p, all[c.n], 2, c.child)
    PROVE  ClientOK(p, c, all)
  <1>1. c.phase \in Phases /\ c.phase \notin {"main1", "aggr1"} BY DEF Phases, Phase2
  <1>2. InStep(p, c, all[c.n]) BY DEF ClientOK, InStep
  <1> QED BY <1>1, <1>2 DEF ClientOK

\* A client that accepts the responder's hash has its keys and IV.
LEMMA Verified ==
    ASSUME IInv, NEW c, NEW r, DOMAIN c = ClientFields, c.phase \in Phase2, c.phase # "done",
           c.attempt = client.attempt, c.n = r.n, r.n \in DOMAIN sessions,
           c.xf = Choice(profile).xf, c.keys = KeysOf(profile, c.xf, c.keys.nonce),
           ReplyFor(profile, r, sessions[r.n]), r.hash = HASH_R(c.keys, c.n),
           \/ r.kind = "main6" /\ c.iv = "main6"
           \/ r.kind = "aggr2" /\ c.iv = "init"
    PROVE  ClientOK(profile, c, sessions)
  <1>1. PICK s : s = sessions[r.n] OBVIOUS
  <1>2. SessionOK(profile, client.attempt, s) /\ ReplyFor(profile, r, s)
    BY <1>1 DEF IInv, SessionsOK
  <1>3. r.hash = HASH_R(s.keys, r.n) BY <1>2 DEF ReplyFor
  <1>4. s.keys.psk = c.keys.psk /\ s.keys.nonce = c.keys.nonce
    BY <1>3 DEF HASH_R, computeV1Hash
  <1>5. c.keys.psk = profile.psk BY DEF KeysOf, Keys
  <1>6. /\ s.state # "MainSARecv" /\ (profile.mode = "main1" => s.state \in Settled)
        /\ s.iv = c.iv /\ s.peerID = profile.id
    BY <1>2 DEF SessionOK, ReplyFor, Settled
  <1>7. InStep(profile, c, s) BY <1>4, <1>5, <1>6 DEF InStep
  <1>8. Len(sessions) \in Nat /\ DOMAIN sessions = 1 .. Len(sessions) BY SeqFacts DEF IInv, SessionsOK
  <1>9. c.n \in 0 .. Len(sessions) /\ c.n # 0 BY <1>8
  <1>10. c.attempt \in 1 .. MaxFaults + 1 BY DEF IInv, ClientOK
  <1>11. c.phase \in Phases /\ c.phase \notin {"main1", "aggr1"} BY DEF Phases, Phase2
  <1> QED BY <1>1, <1>7, <1>9, <1>10, <1>11 DEF ClientOK

\* A client that has an answer goes on, or starts again.
LEMMA AdvanceKeeps ==
    ASSUME IInv, ClientFrame, NEW r \in Elems(replies), Answers(r), Advance(r)
    PROVE  IInv'
  <1> DEFINE next(phase) == [client EXCEPT !.phase = phase, !.repeated = FALSE]
  <1>1. r.n \in DOMAIN sessions /\ ReplyFor(profile, r, sessions[r.n]) BY DEF IInv, RepliesOK
  <1>2. ClientOK(profile, client, sessions) BY DEF IInv
  <1>3. DOMAIN client = ClientFields /\ client.attempt \in 1 .. MaxFaults + 1 BY <1>2 DEF ClientOK
  <1>4. client.attempt <= client.attempt BY <1>3, MaxFaultsAssumption
  <1>5. ASSUME NEW phase
        PROVE  /\ DOMAIN next(phase) = ClientFields /\ next(phase).phase = phase
               /\ next(phase).attempt = client.attempt /\ next(phase).n = client.n
               /\ next(phase).xf = client.xf /\ next(phase).keys = client.keys
               /\ next(phase).iv = client.iv
    BY <1>3 DEF ClientFields
  <1>6. Len(sessions) \in Nat /\ DOMAIN sessions = 1 .. Len(sessions) BY SeqFacts DEF IInv, SessionsOK
  <1>7. r.n \in 0 .. Len(sessions) /\ r.n # 0 BY <1>1, <1>6
  <1>8. client.n # 0 => r.n = client.n BY DEF Answers
  <1>9. ASSUME NEW c, ClientOK(profile, c, sessions), c.phase # "failed", c.attempt = client.attempt, Send(c)
        PROVE  IInv'
    BY <1>4, <1>9, SendKeeps
  <1>10. CASE client.phase = "main1" /\ r.kind = "main2"
    <2> DEFINE c == [next("main3") EXCEPT !.n = r.n, !.xf = r.sa[1]]
    <2>1. Send(c) BY <1>10 DEF Advance
    <2>2. /\ DOMAIN c = ClientFields /\ c.phase = "main3" /\ c.attempt = client.attempt
          /\ c.n = r.n /\ c.xf = r.sa[1]
      BY <1>5 DEF ClientFields
    <2>3. r.sa[1] = Choice(profile).xf BY <1>1, <1>10 DEF ReplyFor
    <2> HIDE DEF c
    <2>4. ClientOK(profile, c, sessions) BY <1>3, <1>7, <2>2, <2>3 DEF ClientOK, Phases, Phase2
    <2> QED BY <1>9, <2>1, <2>2, <2>4
  <1>11. CASE client.phase = "main3" /\ r.kind = "main4"
    <2> DEFINE c == [next("main5") EXCEPT !.keys = ClientKeys(client.xf, r.nonce), !.iv = "init"]
    <2>1. Send(c) BY <1>11 DEF Advance
    <2>2. /\ DOMAIN c = ClientFields /\ c.phase = "main5" /\ c.attempt = client.attempt
          /\ c.n = client.n /\ c.xf = client.xf /\ c.keys = KeysOf(profile, client.xf, r.nonce)
      BY <1>5 DEF ClientFields, ClientKeys, KeysOf
    <2>3. c.keys.nonce = r.nonce BY <2>2 DEF KeysOf, Keys
    <2> HIDE DEF c
    <2>4. client.n \in 0 .. Len(sessions) /\ client.n # 0 /\ client.xf = Choice(profile).xf
      BY <1>2, <1>11 DEF ClientOK
    <2>5. ClientOK(profile, c, sessions) BY <1>3, <2>2, <2>3, <2>4 DEF ClientOK, Phases, Phase2
    <2> QED BY <1>9, <2>1, <2>2, <2>5
  <1>12. CASE client.phase = "main5" /\ r.kind = "main6"
    <2>1. CASE r.hash = HASH_R(client.keys, client.n)
      <3> DEFINE c == [next(AfterPhase1) EXCEPT !.iv = "main6"]
      <3>1. Send(c) BY <1>12, <2>1 DEF Advance
      <3>2. /\ DOMAIN c = ClientFields /\ c.phase = AfterPhase1 /\ c.attempt = client.attempt
            /\ c.n = client.n /\ c.xf = client.xf /\ c.keys = client.keys /\ c.iv = "main6"
        BY <1>5 DEF ClientFields
      <3>3. AfterPhase1 \in Phase2 /\ AfterPhase1 \notin {"done", "failed"} BY DEF AfterPhase1, Phase2
      <3>4. /\ client.n # 0 /\ client.xf = Choice(profile).xf
            /\ client.keys = KeysOf(profile, client.xf, client.keys.nonce)
        BY <1>2, <1>12 DEF ClientOK
      <3> HIDE DEF c
      <3>5. ClientOK(profile, c, sessions) BY <1>1, <1>8, <1>12, <2>1, <3>2, <3>3, <3>4, Verified
      <3> QED BY <1>9, <3>1, <3>2, <3>3, <3>5
    <2>2. CASE r.hash # HASH_R(client.keys, client.n)
      <3>1. Retry BY <1>12, <2>2 DEF Advance
      <3> QED BY <3>1, RetryKeeps
    <2> QED BY <2>1, <2>2
  <1>13. CASE client.phase = "aggr1" /\ r.kind = "aggr2"
    <2> DEFINE keys == ClientKeys(r.sa[1], r.nonce)
    <2>1. CASE r.hash = HASH_R(keys, r.n)
      <3> DEFINE c == [next("quick") EXCEPT !.n = r.n, !.xf = r.sa[1], !.keys = keys, !.iv = "init"]
      <3>1. Send(c) BY <1>13, <2>1 DEF Advance
      <3>2. /\ DOMAIN c = ClientFields /\ c.phase = "quick" /\ c.attempt = client.attempt
            /\ c.n = r.n /\ c.xf = r.sa[1] /\ c.keys = keys /\ c.iv = "init"
        BY <1>5 DEF ClientFields
      <3>3. keys = KeysOf(profile, r.sa[1], r.nonce) /\ keys.nonce = r.nonce
        BY DEF ClientKeys, KeysOf, Keys
      <3>4. r.sa[1] = Choice(profile).xf BY <1>1, <1>13 DEF ReplyFor
      <3>5. c.phase \in Phase2 /\ c.phase \notin {"done", "failed"} BY <3>2 DEF Phase2
      <3> HIDE DEF c, keys
      <3>6. ClientOK(profile, c, sessions) BY <1>1, <1>13, <2>1, <3>2, <3>3, <3>4, <3>5, Verified
      <3> QED BY <1>9, <3>1, <3>2, <3>5, <3>6
    <2>2. CASE r.hash # HASH_R(keys, r.n)
      <3>1. Retry BY <1>13, <2>2 DEF Advance
      <3> QED BY <3>1, RetryKeeps
    <2> QED BY <2>1, <2>2
  <1>14. ASSUME NEW c, Send(c), client.phase \in Phase2,
                DOMAIN c = ClientFields, c.phase \in Phase2, c.attempt = client.attempt, c.n = client.n,
                c.xf = client.xf, c.keys = client.keys, c.iv = client.iv,
                c.phase = "done" => HasChild(profile, sessions[c.n], 2, c.child)
         PROVE  IInv'
    <2>1. ClientOK(profile, c, sessions) BY <1>2, <1>14, GoesOn
    <2>2. c.phase # "failed" BY <1>14 DEF Phase2
    <2> QED BY <1>9, <1>14, <2>1, <2>2
  <1>15. CASE client.phase = "wait" /\ r.kind = "xauthRequest"
    <2> DEFINE c == [next("xauth") EXCEPT !.asked = r.mid]
    <2>1. Send(c) BY <1>15 DEF Advance
    <2>2. /\ DOMAIN c = ClientFields /\ c.phase = "xauth" /\ c.attempt = client.attempt
          /\ c.n = client.n /\ c.xf = client.xf /\ c.keys = client.keys /\ c.iv = client.iv
      BY <1>5 DEF ClientFields
    <2> HIDE DEF c
    <2> QED BY <1>14, <1>15, <2>1, <2>2 DEF Phase2
  <1>16. CASE client.phase = "xauth" /\ r.kind = "xauthOK"
    <2> DEFINE phase == IF profile.config THEN "config" ELSE "quick"
               c == next(phase)
    <2>1. Send(c) BY <1>16 DEF Advance
    <2>2. phase \in Phase2 /\ phase # "done" BY DEF Phase2
    <2> HIDE DEF phase
    <2>3. /\ DOMAIN c = ClientFields /\ c.phase = phase /\ c.attempt = client.attempt
          /\ c.n = client.n /\ c.xf = client.xf /\ c.keys = client.keys /\ c.iv = client.iv
      BY <1>5 DEF ClientFields
    <2>4. client.phase \in Phase2 BY <1>16 DEF Phase2
    <2> HIDE DEF c
    <2> QED BY <1>14, <2>1, <2>2, <2>3, <2>4
  <1>17. CASE client.phase = "config" /\ r.kind = "modeConfig"
    <2> DEFINE c == next("quick")
    <2>1. Send(c) BY <1>17 DEF Advance
    <2>2. /\ DOMAIN c = ClientFields /\ c.phase = "quick" /\ c.attempt = client.attempt
          /\ c.n = client.n /\ c.xf = client.xf /\ c.keys = client.keys /\ c.iv = client.iv
      BY <1>5
    <2> HIDE DEF c
    <2> QED BY <1>14, <1>17, <2>1, <2>2 DEF Phase2
  <1>18. CASE client.phase = "quick" /\ r.kind = "quick2"
    <2> DEFINE c == [next("done") EXCEPT !.child = r.nonce]
    <2>1. Send(c) BY <1>18 DEF Advance
    <2>2. /\ DOMAIN c = ClientFields /\ c.phase = "done" /\ c.attempt = client.attempt
          /\ c.n = client.n /\ c.xf = client.xf /\ c.keys = client.keys /\ c.iv = client.iv
          /\ c.child = r.nonce
      BY <1>5 DEF ClientFields
    <2>3. r.mid = 2 BY <1>18 DEF Answers, MidOf
    <2>4. client.phase \in Phase2 /\ c.phase \in Phase2 BY <1>18, <2>2 DEF Phase2
    <2>5. client.n # 0 BY <1>2, <2>4 DEF ClientOK
    <2>6. HasChild(profile, sessions[c.n], 2, c.child)
      BY <1>1, <1>8, <1>18, <2>2, <2>3, <2>5 DEF ReplyFor
    <2> HIDE DEF c
    <2> QED BY <1>14, <2>1, <2>2, <2>4, <2>6
  <1>19. CASE r.kind = "xauthFail"
    <2>1. Retry BY <1>19 DEF Advance
    <2> QED BY <2>1, RetryKeeps
  <1> QED BY <1>10, <1>11, <1>12, <1>13, <1>15, <1>16, <1>17, <1>18, <1>19, Expected

\* The client takes a response, in order or not, or a copy of it.
LEMMA ReceiveKeeps ==
    ASSUME IInv, NEW i \in DOMAIN replies, NEW copy \in BOOLEAN, Receive(i, copy), faults' \in 0 .. MaxFaults
    PROVE  IInv'
  <1>1. PICK r : r = replies[i] OBVIOUS
  <1>2. r \in Elems(replies) /\ IsSeq(replies) BY <1>1 DEF Elems, IInv, RepliesOK
  <1>3. IsSeq(Without(replies, i)) /\ Elems(Without(replies, i)) \subseteq Elems(replies) BY <1>2, Removed
  <1>4. ClientFrame BY <1>2, <1>3 DEF ClientFrame, Receive, serverVars
  <1>5. CASE Answers(r)
    <2>1. Advance(r) BY <1>1, <1>5 DEF Receive
    <2> QED BY <1>2, <1>4, <1>5, <2>1, AdvanceKeeps
  <1>6. CASE ~ Answers(r)
    <2>1. UNCHANGED <<client, net>> BY <1>1, <1>6 DEF Receive
    <2>2. IsSeq(net') /\ \A m \in Elems(net') : MsgOK(profile, client.attempt, Len(sessions), m)
      BY <2>1 DEF IInv, NetOK
    <2> QED BY <1>4, <2>1, <2>2, QuietKeeps DEF ClientFrame
  <1> QED BY <1>5, <1>6

\* A client that waits in vain repeats its request or starts again.
LEMMA TimeoutKeeps ==
    ASSUME IInv, Timeout
    PROVE  IInv'
  <1>1. ClientFrame BY DEF Timeout, ClientFrame, IInv, RepliesOK, serverVars
  <1>2. CASE Retry BY <1>1, <1>2, RetryKeeps
  <1>3. CASE ~ Retry
    <2> DEFINE c == [client EXCEPT !.repeated = TRUE]
    <2>1. Send(c) BY <1>3 DEF Timeout
    <2>2. ClientOK(profile, client, sessions) /\ DOMAIN client = ClientFields BY DEF IInv, ClientOK
    <2>3. /\ DOMAIN c = ClientFields /\ c.phase = client.phase /\ c.attempt = client.attempt
          /\ c.n = client.n /\ c.xf = client.xf /\ c.keys = client.keys /\ c.iv = client.iv
          /\ c.child = client.child
      BY <2>2 DEF ClientFields
    <2>4. client.phase # "failed" BY DEF Timeout, Waiting, ExpectedKinds
    <2>5. client.attempt \in 1 .. MaxFaults + 1 BY <2>2 DEF ClientOK
    <2>6. client.attempt <= c.attempt BY <2>3, <2>5, MaxFaultsAssumption
    <2> HIDE DEF c
    <2>7. ClientOK(profile, c, sessions) BY <2>2, <2>3 DEF ClientOK, InStep
    <2> QED BY <1>1, <2>1, <2>3, <2>4, <2>6, <2>7, SendKeeps
  <1> QED BY <1>2, <1>3

\* A message is lost.
LEMMA LoseKeeps ==
    ASSUME IInv, Lose, faults' \in 0 .. MaxFaults
    PROVE  IInv'
  <1>1. /\ IsSeq(net) /\ IsSeq(replies)
        /\ \A m \in Elems(net) : MsgOK(profile, client.attempt, Len(sessions), m)
    BY DEF IInv, NetOK, RepliesOK
  <1>2. UNCHANGED <<sessions, v1Sessions, drawn, profile, client>> BY DEF Lose, serverVars
  <1>3. CASE \E i \in DOMAIN net : net' = Without(net, i) /\ UNCHANGED replies
    <2>1. IsSeq(net') /\ Elems(net') \subseteq Elems(net) BY <1>1, <1>3, Removed
    <2>2. \A m \in Elems(net') : MsgOK(profile, client.attempt, Len(sessions), m) BY <1>1, <2>1
    <2>3. IsSeq(replies') /\ Elems(replies') \subseteq Elems(replies) BY <1>1, <1>3
    <2> QED BY <1>2, <2>1, <2>2, <2>3, QuietKeeps
  <1>4. CASE \E i \in DOMAIN replies : replies' = Without(replies, i) /\ UNCHANGED net
    <2>1. IsSeq(replies') /\ Elems(replies') \subseteq Elems(replies) BY <1>1, <1>4, Removed
    <2>2. IsSeq(net') /\ \A m \in Elems(net') : MsgOK(profile, client.attempt, Len(sessions), m)
      BY <1>1, <1>4
    <2> QED BY <1>2, <2>1, <2>2, QuietKeeps
  <1> QED BY <1>3, <1>4 DEF Lose

\* A message is damaged.
LEMMA DamageKeeps ==
    ASSUME IInv, Damage, faults' \in 0 .. MaxFaults
    PROVE  IInv'
  <1>1. /\ IsSeq(net) /\ IsSeq(replies)
        /\ \A m \in Elems(net) : MsgOK(profile, client.attempt, Len(sessions), m)
    BY DEF IInv, NetOK, RepliesOK
  <1>2. UNCHANGED <<sessions, v1Sessions, drawn, profile, client, replies>> BY DEF Damage, serverVars
  <1>3. PICK i \in DOMAIN net : net' = [net EXCEPT ![i].damaged = TRUE] BY DEF Damage
  <1>4. PICK m : m = net[i] OBVIOUS
  <1>5. MsgOK(profile, client.attempt, Len(sessions), m) BY <1>1, <1>4 DEF Elems
  <1> DEFINE d == [m EXCEPT !.damaged = TRUE]
  <1>6. net' = [net EXCEPT ![i] = d] BY <1>3, <1>4
  <1>7. DOMAIN m = MsgFields BY <1>5 DEF MsgOK
  <1>8. /\ DOMAIN d = MsgFields /\ d.kind = m.kind /\ d.attempt = m.attempt /\ d.n = m.n
        /\ d.sa = m.sa /\ d.esp = m.esp /\ d.id = m.id /\ d.hash = m.hash
        /\ d.user = m.user /\ d.password = m.password
    BY <1>7 DEF MsgFields
  <1> HIDE DEF d
  <1>9. MsgOK(profile, client.attempt, Len(sessions), d) BY <1>5, <1>8 DEF MsgOK
  <1>10. IsSeq(net') /\ Elems(net') \subseteq Elems(net) \cup {d} BY <1>1, <1>6, Replaced
  <1>11. \A q \in Elems(net') : MsgOK(profile, client.attempt, Len(sessions), q) BY <1>1, <1>9, <1>10
  <1>12. IsSeq(replies') /\ Elems(replies') \subseteq Elems(replies) BY <1>1, <1>2
  <1> QED BY <1>2, <1>10, <1>11, <1>12, QuietKeeps

\* The daemon forgets its sessions.
LEMMA RestartKeeps ==
    ASSUME IInv, Restart, faults' \in 0 .. MaxFaults
    PROVE  IInv'
  <1>1. UNCHANGED <<sessions, drawn, net, replies, profile, client>> /\ v1Sessions' = {} BY DEF Restart
  <1>2. /\ IsSeq(net') /\ \A m \in Elems(net') : MsgOK(profile, client.attempt, Len(sessions), m)
        /\ IsSeq(replies') /\ Elems(replies') \subseteq Elems(replies)
    BY <1>1 DEF IInv, NetOK, RepliesOK
  <1> QED BY <1>1, <1>2, QuietKeeps

\* The invariant holds at the start.
LEMMA InitIInv == Init => IInv
  <1> SUFFICES ASSUME Init PROVE IInv
    OBVIOUS
  <1>1. /\ sessions = <<>> /\ v1Sessions = {} /\ drawn = 0 /\ profile \in Profiles
        /\ net = Requests(client) /\ replies = <<>> /\ faults = 0 /\ client = NewAttempt(1)
    BY DEF Init
  <1>2. profile.mode \in {"main1", "aggr1"} BY <1>1, ProfilesAssumption
  <1>3. DOMAIN client = ClientFields /\ client.phase = profile.mode /\ client.attempt = 1 /\ client.n = 0
    BY <1>1 DEF NewAttempt, ClientFields
  <1>4. IsSeq(<<>>) /\ Elems(<<>>) = {} /\ Len(<<>>) = 0 /\ DOMAIN <<>> = {} BY ShortSeqs
  <1>5. client.attempt \in 1 .. MaxFaults + 1 /\ client.n \in 0 .. Len(sessions) /\ faults \in 0 .. MaxFaults
    BY <1>1, <1>3, <1>4, MaxFaultsAssumption
  <1>6. ClientOK(profile, client, sessions) BY <1>2, <1>3, <1>5 DEF ClientOK, Phases, Phase2
  <1>7. client.phase # "failed" BY <1>2, <1>3
  <1>8. NetOK BY <1>1, <1>2, <1>6, <1>7, RequestsGood DEF NetOK
  <1>9. SessionsOK BY <1>1, <1>4 DEF SessionsOK
  <1>10. RepliesOK BY <1>1, <1>4 DEF RepliesOK
  <1>11. v1Sessions \subseteq DOMAIN sessions /\ drawn \in Nat BY <1>1
  <1> QED BY <1>1, <1>5, <1>6, <1>8, <1>9, <1>10, <1>11 DEF IInv

\* Every step keeps the invariant.
LEMMA NextKeeps == IInv /\ [Next]_vars => IInv'
  <1> SUFFICES ASSUME IInv, [Next]_vars PROVE IInv'
    OBVIOUS
  <1>1. faults \in 0 .. MaxFaults /\ IsSeq(net) /\ IsSeq(replies) BY DEF IInv, NetOK, RepliesOK
  <1>2. CASE Serve
    <2>1. net # <<>> /\ Take(1, FALSE) /\ faults' \in 0 .. MaxFaults BY <1>1, <1>2 DEF Serve
    <2>2. 1 \in DOMAIN net BY <1>1, <2>1, SeqFacts DEF IsSeq
    <2> QED BY <2>1, <2>2, TakeKeeps
  <1>3. CASE Hear
    <2>1. replies # <<>> /\ Receive(1, FALSE) /\ faults' \in 0 .. MaxFaults BY <1>1, <1>3 DEF Hear
    <2>2. 1 \in DOMAIN replies BY <1>1, <2>1, SeqFacts DEF IsSeq
    <2> QED BY <2>1, <2>2, ReceiveKeeps
  <1>4. CASE Timeout BY <1>4, TimeoutKeeps
  <1>5. CASE \E n \in v1Sessions : StartXAUTH(n) BY <1>5, StartXAUTHKeeps
  <1>6. CASE Fault
    <2>1. faults' \in 0 .. MaxFaults BY <1>1, <1>6, MaxFaultsAssumption DEF Fault
    <2>2. CASE Lose BY <2>1, <2>2, LoseKeeps
    <2>3. CASE Damage BY <2>1, <2>3, DamageKeeps
    <2>4. CASE Restart BY <2>1, <2>4, RestartKeeps
    <2>5. CASE \E i \in DOMAIN net, copy \in BOOLEAN : Take(i, copy) BY <2>1, <2>5, TakeKeeps
    <2>6. CASE \E i \in DOMAIN replies, copy \in BOOLEAN : Receive(i, copy) BY <2>1, <2>6, ReceiveKeeps
    <2> QED BY <1>6, <2>2, <2>3, <2>4, <2>5, <2>6 DEF Fault
  <1>7. CASE UNCHANGED vars
    <2>1. UNCHANGED <<sessions, v1Sessions, drawn, profile, client, net, replies, faults>>
      BY <1>7 DEF vars, serverVars
    <2>2. \A m \in Elems(net') : MsgOK(profile, client.attempt, Len(sessions), m)
      BY <2>1 DEF IInv, NetOK
    <2> QED BY <1>1, <2>1, <2>2, QuietKeeps
  <1> QED BY <1>2, <1>3, <1>4, <1>5, <1>6, <1>7 DEF Next, Progress

-----------------------------------------------------------------------------

(***************************************************************************)
(* The inductive invariant: sessions, requests, responses and the client   *)
(* agree, through every loss, copy, overtaking, damage and restart.        *)
(***************************************************************************)
THEOREM ExchangeInvariant == Spec => []IInv
  BY InitIInv, NextKeeps, PTL DEF Spec

(***************************************************************************)
(* TypeOK, for every set of clients and any number of faults: a session is *)
(* in one of the states that some handler sets, and every message names a  *)
(* session that was made.                                                  *)
(***************************************************************************)
THEOREM ExchangeTypes == Spec => []TypeOK
  <1>1. ASSUME IInv PROVE TypeOK
    <2>1. Len(sessions) \in Nat /\ DOMAIN sessions = 1 .. Len(sessions)
      BY <1>1, SeqFacts DEF IInv, SessionsOK
    <2>2. client.attempt \in 1 .. MaxFaults + 1 BY <1>1 DEF IInv, ClientOK
    <2>3. ASSUME NEW n \in DOMAIN sessions
          PROVE  /\ sessions[n].state \in {"MainSARecv", "MainKERecv", "AggrRecv", "Established",
                                           "XAUTHSent", "XAUTHDone"}
                 /\ sessions[n].attempt \in 1 .. MaxFaults + 1
                 /\ sessions[n].iv \in {"none", "init", "junk", "main5", "main6"}
                 /\ sessions[n].nextMsgID \in 0 .. 1
      <3>1. PICK s : s = sessions[n] OBVIOUS
      <3>2. SessionOK(profile, client.attempt, s) BY <1>1, <3>1 DEF IInv, SessionsOK
      <3>3. s.attempt \in 1 .. client.attempt /\ s.nextMsgID \in 0 .. 1 BY <3>2 DEF SessionOK
      <3>4. s.attempt \in 1 .. MaxFaults + 1 BY <2>2, <3>3, MaxFaultsAssumption
      <3>5. s.state \in {"MainSARecv", "MainKERecv", "AggrRecv", "Established", "XAUTHSent", "XAUTHDone"}
        BY <1>1, <3>2, TwoModes DEF SessionOK, Settled
      <3>6. s.iv \in {"none", "init", "junk", "main5", "main6"} BY <3>2 DEF SessionOK, IVs
      <3> QED BY <3>1, <3>3, <3>4, <3>5, <3>6
    <2>4. \A i \in DOMAIN net : net[i].n \in 0 .. Len(sessions) BY <1>1 DEF IInv, NetOK, MsgOK, Elems
    <2>5. \A i \in DOMAIN replies : replies[i].n \in DOMAIN sessions BY <1>1 DEF IInv, RepliesOK, Elems
    <2>6. client.phase \in DOMAIN ExpectedKinds \cup {"done", "failed"}
      BY <1>1 DEF IInv, ClientOK, Phases, Phase2, ExpectedKinds
    <2> QED BY <1>1, <2>3, <2>4, <2>5, <2>6 DEF TypeOK, IInv
  <1>2. IInv => TypeOK BY <1>1
  <1> QED BY <1>2, ExchangeInvariant, PTL

(***************************************************************************)
(* EndsInStep, for every set of clients and any number of faults: once the *)
(* client has accepted the responder's hash, no copy of a phase 1 message  *)
(* and no damaged one moves the keys, the IV or the identity (the states   *)
(* that HandleMainMode3, HandleMainMode5 and HandleAggressive3 ask for).   *)
(***************************************************************************)
THEOREM EndsStayInStep == Spec => []EndsInStep
  <1>1. ASSUME IInv PROVE EndsInStep
    <2> SUFFICES ASSUME client.phase \in {"wait", "xauth", "config", "quick", "done"},
                        client.xf.id = "AES", client.xf.len > 0
                 PROVE  /\ sessions[client.n].keys = client.keys
                        /\ sessions[client.n].iv = client.iv
                        /\ sessions[client.n].peerID = profile.id
      BY DEF EndsInStep
    <2>1. PICK s : s = sessions[client.n] OBVIOUS
    <2>2. client.phase \in Phase2 BY DEF Phase2
    <2>3. /\ client.n \in 0 .. Len(sessions) /\ client.n # 0 /\ client.xf = Choice(profile).xf
          /\ client.keys = KeysOf(profile, client.xf, client.keys.nonce)
          /\ InStep(profile, client, s)
      BY <1>1, <2>1, <2>2 DEF IInv, ClientOK
    <2>4. Len(sessions) \in Nat /\ DOMAIN sessions = 1 .. Len(sessions)
      BY <1>1, SeqFacts DEF IInv, SessionsOK
    <2>5. client.n \in DOMAIN sessions BY <2>3, <2>4
    <2>6. SessionOK(profile, client.attempt, s) BY <1>1, <2>1, <2>5 DEF IInv, SessionsOK
    <2>7. /\ selectedV1[profile.sa] # <<>> /\ s.config = Choice(profile).config
          /\ s.keys = DeriveIKEv1Keys(s.psk, s.keys.nonce, s.config)
      BY <2>3, <2>6 DEF SessionOK, InStep
    <2>8. v1EncKeySize(s.config) = client.xf.len
      BY <1>1, <2>3, <2>7, TwoModes, SameKeys
    <2>9. s.keys = Keys(s.psk, s.keys.nonce, "AES", client.xf.len)
      BY <2>7, <2>8 DEF DeriveIKEv1Keys, NewIKEEncryptor
    <2>10. s.keys.psk = s.psk BY <2>9 DEF Keys
    <2>11. client.keys = Keys(profile.psk, client.keys.nonce, "AES", client.xf.len)
      BY <2>3 DEF KeysOf
    <2>12. s.psk = profile.psk /\ s.keys.nonce = client.keys.nonce BY <2>3, <2>10 DEF InStep
    <2>13. s.keys = client.keys BY <2>9, <2>11, <2>12
    <2> QED BY <2>1, <2>3, <2>13 DEF InStep
  <1>2. IInv => EndsInStep BY <1>1
  <1> QED BY <1>2, ExchangeInvariant, PTL

(***************************************************************************)
(* ChildKept, for every set of clients and any number of faults: a child   *)
(* SA that HandleQuickMode1 has answered is never forgotten, and its       *)
(* session has the client's pre-shared key.                                *)
(***************************************************************************)
THEOREM ChildIsKept == Spec => []ChildKept
  <1>1. ASSUME IInv PROVE ChildKept
    <2> SUFFICES ASSUME client.phase = "done"
                 PROVE  /\ \E i \in DOMAIN sessions[client.n].children :
                              LET c == sessions[client.n].children[i] IN
                              /\ c.nonce = client.child /\ c.mid = 2
                              /\ c.len = IF profile.esp[1] > 0 THEN profile.esp[1] ELSE 128
                        /\ profile.psk = sessions[client.n].psk
      BY DEF ChildKept
    <2>1. PICK s : s = sessions[client.n] OBVIOUS
    <2>2. client.phase \in Phase2 BY DEF Phase2
    <2>3. /\ client.n \in 0 .. Len(sessions) /\ client.n # 0
          /\ InStep(profile, client, s) /\ HasChild(profile, s, 2, client.child)
      BY <1>1, <2>1, <2>2 DEF IInv, ClientOK
    <2>4. Len(sessions) \in Nat /\ DOMAIN sessions = 1 .. Len(sessions)
      BY <1>1, SeqFacts DEF IInv, SessionsOK
    <2>5. client.n \in DOMAIN sessions BY <2>3, <2>4
    <2>6. SessionOK(profile, client.attempt, s) BY <1>1, <2>1, <2>5 DEF IInv, SessionsOK
    <2>7. s.keys = DeriveIKEv1Keys(s.psk, s.keys.nonce, s.config) BY <2>3, <2>6 DEF SessionOK, InStep
    <2>8. s.keys.psk = s.psk BY <2>7 DEF DeriveIKEv1Keys, Keys
    <2>9. profile.psk = s.psk BY <2>3, <2>8 DEF InStep
    <2>10. PICK i \in DOMAIN s.children : s.children[i] = TheChild(profile, 2, client.child)
      BY <2>3 DEF HasChild
    <2>11. /\ s.children[i].nonce = client.child /\ s.children[i].mid = 2
           /\ s.children[i].len = IF profile.esp[1] > 0 THEN profile.esp[1] ELSE 128
      BY <2>10 DEF TheChild
    <2> QED BY <2>1, <2>9, <2>10, <2>11
  <1>2. IInv => ChildKept BY <1>1
  <1> QED BY <1>2, ExchangeInvariant, PTL

(***************************************************************************)
(* PeerIsProved, for every set of clients and any number of faults: of     *)
(* every session past phase 1 the peer has proved its pre-shared key and   *)
(* its identity, and of every one with a user the password (the hashes     *)
(* that HandleMainMode5 and HandleAggressive3 verify, handleXAUTHReply).   *)
(***************************************************************************)
THEOREM PeersAreProved == Spec => []PeerIsProved
  <1>1. ASSUME IInv PROVE PeerIsProved
    <2>1. ASSUME NEW n \in DOMAIN sessions PROVE SessionOK(profile, client.attempt, sessions[n])
      BY <1>1 DEF IInv, SessionsOK
    <2>2. profile.mode \in {"main1", "aggr1"} BY <1>1, TwoModes
    <2> QED BY <2>1, <2>2 DEF PeerIsProved, SessionOK, UserOK, Settled
  <1>2. IInv => PeerIsProved BY <1>1
  <1> QED BY <1>2, ExchangeInvariant, PTL
=============================================================================
