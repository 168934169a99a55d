---------------------------- MODULE IkeProposal -----------------------------
(***************************************************************************)
(* The choice of algorithms by an IKEv2 responder (internal/ike/           *)
(* proposal.go) and the length of the keys of a child SA                   *)
(* (ikev2_auth.go, session.go).                                            *)
(*                                                                         *)
(* One of our proposals has one transform for each type it names, so it is *)
(* a function from transform types; a proposal of the peer may have        *)
(* several of a type and is a set of transforms with an SPI.  len 0 stands *)
(* for a transform without a key length attribute.                         *)
(***************************************************************************)
EXTENDS Integers, Sequences

Xf(id, len) == [id |-> id, len |-> len]

DefaultIKEProposals ==
    LET proposal(encr, prf, intg, dh) ==
            [type \in {"ENCR", "PRF", "DH", "ESN"} \cup (IF intg = "" THEN {} ELSE {"INTG"}) |->
                CASE type = "ENCR" -> encr
                  [] type = "PRF"  -> Xf(prf, 0)
                  [] type = "INTG" -> Xf(intg, 0)
                  [] type = "DH"   -> Xf(dh, 0)
                  [] type = "ESN"  -> Xf("ESN_NONE", 0)]
    IN  << proposal(Xf("AES_GCM", 256), "SHA256", "", "DH20"),
           proposal(Xf("AES_GCM", 128), "SHA256", "", "DH14"),
           proposal(Xf("AES_CBC", 256), "SHA256", "SHA256_128", "DH14"),
           proposal(Xf("AES_CBC", 128), "SHA1", "SHA1_96", "DH14") >>

DefaultESPProposals ==
    LET proposal(encr, intg) ==
            [type \in {"ENCR", "ESN"} \cup (IF intg = "" THEN {} ELSE {"INTG"}) |->
                CASE type = "ENCR" -> encr
                  [] type = "INTG" -> Xf(intg, 0)
                  [] type = "ESN"  -> Xf("ESN_NONE", 0)]
    IN  << proposal(Xf("AES_GCM", 256), ""), proposal(Xf("AES_GCM", 128), ""),
           proposal(Xf("AES_CBC", 256), "SHA256_128"), proposal(Xf("AES_CBC", 128), "SHA1_96") >>

transformMatchByID(ours, theirs) == ours.id = theirs.id
transformMatch(ours, theirs) ==
    /\ ours.id = theirs.id
    /\ ours.len /= 0 /\ theirs.len /= 0 => ours.len = theirs.len

\* What a peer's proposal offers of a type, and the part of it that matches ours.
Offered(theirs, type) == {t \in theirs.transforms : t.type = type}
Matching(ours, theirs, type) == {t \in Offered(theirs, type) : transformMatch(ours[type], t)}

\* A missing integrity transform is passed over, for every cipher.
proposalMatch(ours, theirs) ==
    \A type \in DOMAIN ours :
        \/ Matching(ours, theirs, type) /= {}
        \/ type = "INTG" /\ Offered(theirs, type) = {}

(***************************************************************************)
(* SelectProposal: the first of ours that some proposal of the peer        *)
(* matches, and the first of the peer's that matches it.  Both lists are   *)
(* of one protocol.  NoChoice is the error of an empty or unmatched offer. *)
(***************************************************************************)
NoChoice == [ours |-> 0, theirs |-> 0]

SelectProposal(ours, theirs) ==
    LET matches(i, j) == proposalMatch(ours[i], theirs[j])
        pairs == {p \in (DOMAIN ours) \X (DOMAIN theirs) : matches(p[1], p[2])}
        best  == CHOOSE p \in pairs :
                    \A q \in pairs : p[1] < q[1] \/ (p[1] = q[1] /\ p[2] <= q[2])
    IN  IF pairs = {} THEN NoChoice ELSE [ours |-> best[1], theirs |-> best[2]]

(***************************************************************************)
(* extractSelected and buildSelectedProposal: for each of our types the    *)
(* transform that matched, with the peer's key length where ours has none. *)
(***************************************************************************)
selected(ours, theirs) ==
    [type \in {ty \in DOMAIN ours : Matching(ours, theirs, ty) /= {}} |->
        Xf(ours[type].id,
           IF ours[type].len /= 0 THEN ours[type].len
           ELSE (CHOOSE t \in Matching(ours, theirs, type) : TRUE).len)]

(***************************************************************************)
(* The length in bytes of the encryption key of a child SA, the salt of an *)
(* AEAD cipher included, and whether buildESPSA can make an SA from it.    *)
(***************************************************************************)
childKeyLength(sel) ==
    IF sel["ENCR"].id = "AES_GCM"
    THEN (IF sel["ENCR"].len = 0 THEN 32 ELSE sel["ENCR"].len \div 8) + 4
    ELSE IF sel["ENCR"].len = 0 THEN 16 ELSE sel["ENCR"].len \div 8

buildESPSA(sel) == sel["ENCR"].id = "AES_GCM" /\ childKeyLength(sel) \in {20, 36}
=============================================================================
