--------------------------- MODULE IkeV1Responder ---------------------------
(***************************************************************************)
(* The IKEv1 responder (internal/ike/ikev1_main.go, ikev1_aggr.go,         *)
(* ikev1_quick.go, ikev1_xauth.go): main and aggressive mode, XAUTH, mode  *)
(* config and quick mode.  server.go calls HandleMainMode1 and             *)
(* HandleTransaction only; the other handlers are here as their callers    *)
(* would use them, one per message, each under the mutex of its session.   *)
(*                                                                         *)
(* A handler maps the session s, number n, and the message to the session  *)
(* it leaves and the response.  A session's number stands for its cookies. *)
(* Keys are the pre-shared key they come from, the responder's nonce, the  *)
(* cipher and its key length in bits; an IV is named for the message whose *)
(* last cipher block it is.  fresh is what the handler draws at random.    *)
(***************************************************************************)
EXTENDS Integers, Sequences, FiniteSets

CONSTANTS
    PSKs,        \* the addresses getConnPSK knows, with their keys
    Credentials, \* the pairs <<user, password>> getXAUTHCredentials accepts
    SAPayloads   \* the SA payloads clients send: the transforms in order

ASSUME SAPayloadsAssumption ==
    \A sa \in SAPayloads :
        /\ Len(sa) \in Nat /\ DOMAIN sa = 1 .. Len(sa)
        /\ \A i \in DOMAIN sa : sa[i].len \in Nat
ASSUME CredentialsAssumption == \A c \in Credentials : "junk" \notin {c[1], c[2]}

V1Config(enc, hash, auth, dh, len) ==
    [enc |-> enc, hash |-> hash, auth |-> auth, dh |-> dh, len |-> len]

DefaultV1Phase1Configs ==
    LET AES(hash, auth, len) == V1Config("AES", hash, auth, "DH14", len)
    IN  << AES("SHA256", "XAUTH", 256), AES("SHA256", "XAUTH", 128),
           AES("SHA1", "XAUTH", 256), AES("SHA1", "XAUTH", 128),
           V1Config("3DES", "SHA1", "XAUTH", "DH2", 0),
           AES("SHA256", "PSK", 256), AES("SHA256", "PSK", 128),
           AES("SHA1", "PSK", 256), AES("SHA1", "PSK", 128),
           V1Config("AES", "SHA1", "PSK", "DH2", 128),
           V1Config("3DES", "SHA1", "PSK", "DH2", 0), V1Config("3DES", "SHA1", "PSK", "DH14", 0) >>

(***************************************************************************)
(* The cipher is read from the transform ID, which replaces the encryption *)
(* attribute.  A key length matches if either side leaves it out, and ours *)
(* is then the one used.                                                   *)
(***************************************************************************)
parseV1TransformAttrs(xf) == V1Config(xf.id, xf.hash, xf.auth, xf.dh, xf.len)

v1ConfigMatch(sup, parsed) ==
    /\ [sup EXCEPT !.len = 0] = [parsed EXCEPT !.len = 0]
    /\ sup.len /= 0 /\ parsed.len /= 0 => sup.len = parsed.len

\* The peer's order decides, then ours.
SelectV1Proposal(sa) ==
    LET sup == DefaultV1Phase1Configs
        pairs == {p \in (DOMAIN sa) \X (DOMAIN sup) :
                     v1ConfigMatch(sup[p[2]], parseV1TransformAttrs(sa[p[1]]))}
        best == CHOOSE p \in pairs :
                   \A q \in pairs : p[1] < q[1] \/ (p[1] = q[1] /\ p[2] <= q[2])
    IN  IF pairs = {} THEN <<>> ELSE <<[config |-> sup[best[2]], xf |-> sa[best[1]]]>>
selectedV1 == [sa \in SAPayloads |-> SelectV1Proposal(sa)]

v1EncKeySize(config) ==
    IF config.len > 0 THEN config.len ELSE IF config.enc = "3DES" THEN 192 ELSE 128
\* AES serves 3DES too, with a key of 192 bits.
NewIKEEncryptor(enc) == "AES"

Keys(psk, nonce, cipher, len) == [psk |-> psk, nonce |-> nonce, cipher |-> cipher, len |-> len]
NoKeys == Keys("", 0, "", 0)
DeriveIKEv1Keys(psk, nonce, config) ==
    Keys(psk, nonce, NewIKEEncryptor(config.enc), v1EncKeySize(config))

IKEv1Session(state, attempt, config, psk) ==
    [state |-> state, attempt |-> attempt, config |-> config, psk |-> psk, keys |-> NoKeys,
     iv |-> "none", peerID |-> "", xauthUser |-> "", nextMsgID |-> 0, children |-> <<>>]

\* HASH_I and HASH_R cover both key exchange values, the cookies and an identity payload.
computeV1Hash(keys, n, idType, id) ==
    [psk |-> keys.psk, nonce |-> keys.nonce, n |-> n, idType |-> idType, id |-> id]
NoHash == computeV1Hash(NoKeys, 0, "", "")
HASH_R(keys, n) == computeV1Hash(keys, n, "local", "local")

Reply(kind, attempt, n, mid) ==
    [kind |-> kind, attempt |-> attempt, n |-> n, mid |-> mid, nonce |-> 0, sa |-> <<>>, esp |-> <<>>,
     hash |-> NoHash]
Outcome(s, replies) == [s |-> s, replies |-> replies]
drop(s) == Outcome(s, <<>>)

(***************************************************************************)
(* An encrypted message makes sense only under the keys and the IV it was  *)
(* made with; the IV of a quick mode, mode config or transaction message   *)
(* is derived from the session's and the message ID.  Damage garbles some  *)
(* of the plaintext: if it is the padding or the shape of a payload the    *)
(* message is refused, otherwise one field is read wrongly.  Message 5     *)
(* holds nothing but the identity and the hash; in the later messages it   *)
(* may be one that no handler looks at, such as the value of the hash of a *)
(* transaction or of mode config, or the identities of quick mode, which   *)
(* its hash leaves out.                                                    *)
(***************************************************************************)
opens(s, msg) == msg.keys = s.keys /\ msg.iv = s.iv

garbled(msg) ==
    IF msg.kind = "main5"
    THEN {[msg EXCEPT !.id = "junk"], [msg EXCEPT !.hash = NoHash]}
    ELSE {msg, [msg EXCEPT !.user = "junk"], [msg EXCEPT !.password = "junk"]}

\* What the payloads of a message are read as, if they can be read, and whether they may not be.
readings(s, msg) ==
    IF ~opens(s, msg) THEN {} ELSE IF msg.damaged THEN garbled(msg) ELSE {msg}
unreadable(s, msg) == ~opens(s, msg) \/ msg.damaged

-----------------------------------------------------------------------------

(***************************************************************************)
(* Message 1 of both modes: the sessions made (none or one) and the        *)
(* response.  n is the number the session will have.                       *)
(***************************************************************************)
HandleMainMode1(msg, n) ==
    LET choice == selectedV1[msg.sa] IN
    IF choice = <<>> \/ msg.addr \notin DOMAIN PSKs THEN [made |-> <<>>, replies |-> <<>>]
    ELSE [made    |-> <<IKEv1Session("MainSARecv", msg.attempt, choice[1].config, PSKs[msg.addr])>>,
          replies |-> <<[Reply("main2", msg.attempt, n, 0) EXCEPT !.sa = <<choice[1].xf>>]>>]

HandleAggressive1(msg, n, fresh) ==
    LET choice == selectedV1[msg.sa]
        psk == PSKs[msg.addr]
        keys == DeriveIKEv1Keys(psk, fresh, choice[1].config)
        new == IKEv1Session("AggrRecv", msg.attempt, choice[1].config, psk)
    IN  IF choice = <<>> \/ msg.addr \notin DOMAIN PSKs THEN [made |-> <<>>, replies |-> <<>>]
        ELSE [made    |-> <<[new EXCEPT !.peerID = msg.id, !.iv = "init", !.keys = keys]>>,
              replies |-> <<[Reply("aggr2", msg.attempt, n, 0) EXCEPT
                              !.sa = <<choice[1].xf>>, !.nonce = fresh, !.hash = HASH_R(keys, n)]>>]

rekeyed(s, n, fresh) ==
    Outcome([s EXCEPT !.keys = DeriveIKEv1Keys(s.psk, fresh, s.config), !.iv = "init",
                      !.state = "MainKERecv"],
            <<[Reply("main4", s.attempt, n, 0) EXCEPT !.nonce = fresh]>>)
HandleMainMode3AnyState(s, n, fresh) == rekeyed(s, n, fresh)
HandleMainMode3(s, n, fresh) ==
    IF s.state /= "MainSARecv" THEN drop(s) ELSE rekeyed(s, n, fresh)

(***************************************************************************)
(* Message 5.  One that cannot be read is refused for its padding, if that *)
(* happens to be wrong, and otherwise for its payloads, after the IV has   *)
(* followed it; one that can moves the IV and the identity before its hash *)
(* is verified.  From here on a handler gives the set of possible results. *)
(***************************************************************************)
establishedMain(s, n, id) ==
    Outcome([s EXCEPT !.iv = "main6", !.peerID = id, !.state = "Established"],
            <<[Reply("main6", s.attempt, n, 0) EXCEPT !.hash = HASH_R(s.keys, n)]>>)
verifyMain5Not(s, n, msg) == establishedMain(s, n, msg.id)
verifyMain5(s, n, msg) ==
    IF msg.hash = computeV1Hash(s.keys, n, msg.idType, msg.id) THEN establishedMain(s, n, msg.id)
    ELSE drop([s EXCEPT !.iv = "main5", !.peerID = msg.id])
HandleMainMode5(s, n, msg) ==
    IF s.state /= "MainKERecv" THEN {drop(s)}
    ELSE {verifyMain5(s, n, m) : m \in readings(s, msg)}
         \cup IF unreadable(s, msg) THEN {drop(s), drop([s EXCEPT !.iv = "junk"])} ELSE {}

\* The identity is taken for an IPv4 address, whatever type message 1 gave it.
HandleAggressive3Done(s, n, msg) ==
    IF s.state /= "AggrRecv" \/ msg.hash /= computeV1Hash(s.keys, n, "IPv4", s.peerID)
    THEN drop(s) ELSE drop([s EXCEPT !.state = "AggrDone"])
HandleAggressive3(s, n, msg) ==
    IF s.state /= "AggrRecv" \/ msg.hash /= computeV1Hash(s.keys, n, "IPv4", s.peerID)
    THEN drop(s) ELSE drop([s EXCEPT !.state = "Established"])

-----------------------------------------------------------------------------

(***************************************************************************)
(* XAUTH: the responder asks for a name and a password in a transaction of *)
(* its own.  A refused answer leaves the session waiting for another.      *)
(***************************************************************************)
InitiateXAUTH(s, n) ==
    IF s.state /= "Established" THEN drop(s)
    ELSE Outcome([s EXCEPT !.nextMsgID = @ + 1, !.state = "XAUTHSent"],
                 <<Reply("xauthRequest", s.attempt, n, s.nextMsgID + 1)>>)

handleXAUTHReply(s, n, msg) ==
    IF msg.user /= "" /\ <<msg.user, msg.password>> \in Credentials
    THEN Outcome([s EXCEPT !.xauthUser = msg.user, !.state = "XAUTHDone"],
                 <<Reply("xauthOK", s.attempt, n, msg.mid)>>)
    ELSE Outcome(s, <<Reply("xauthFail", s.attempt, n, msg.mid)>>)

\* Of the hash it only asks that there is one.
HandleTransaction(s, n, msg) ==
    IF s.state /= "XAUTHSent" THEN {drop(s)}
    ELSE {handleXAUTHReply(s, n, m) : m \in readings(s, msg)}
         \cup IF unreadable(s, msg) THEN {drop(s)} ELSE {}

(***************************************************************************)
(* Mode config and quick mode, in the state Established only.  Neither     *)
(* remembers the exchanges it has answered: a repeated mode config request *)
(* takes another address, a repeated quick mode message makes another      *)
(* child SA.  Mode config does not look at the hash and is dropped when    *)
(* assignIP finds no address.  Quick mode accepts what the peer proposes:  *)
(* it answers with the transforms of the first proposal and takes the key  *)
(* length from the first of them.                                          *)
(***************************************************************************)
HandleModeConfig(s, n, msg) ==
    {drop(s)} \cup IF s.state = "Established" /\ readings(s, msg) /= {}
                   THEN {Outcome(s, <<Reply("modeConfig", s.attempt, n, msg.mid)>>)} ELSE {}

extractV1ChildKeyLens(transforms) ==
    IF transforms = <<>> \/ transforms[1] = 0 THEN 128 ELSE transforms[1]

childSA(msg, fresh) ==
    [mid |-> msg.mid, nonce |-> fresh, len |-> extractV1ChildKeyLens(msg.esp)]

anotherChild(s, n, msg, fresh, kept) ==
    Outcome([s EXCEPT !.children = Append(kept, childSA(msg, fresh))],
            <<[Reply("quick2", s.attempt, n, msg.mid) EXCEPT !.nonce = fresh, !.esp = msg.esp]>>)
HandleQuickMode1Replace(s, n, msg, fresh) ==
    LET other(c) == c.mid /= msg.mid IN
    IF s.state /= "Established" \/ ~opens(s, msg) THEN {drop(s)}
    ELSE {anotherChild(s, n, msg, fresh, SelectSeq(s.children, other))}
HandleQuickMode1(s, n, msg, fresh) ==
    IF s.state /= "Established" \/ ~opens(s, msg) THEN {drop(s)}
    ELSE {anotherChild(s, n, msg, fresh, s.children)} \cup IF msg.damaged THEN {drop(s)} ELSE {}

\* Message 3 of quick mode is accepted without a look at it.
HandleQuickMode3(s) == drop(s)
=============================================================================
