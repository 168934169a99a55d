-------------------------- MODULE MC_IkeV1Exchange --------------------------
(***************************************************************************)
(* Instance of IkeV1Exchange for TLC: clients that differ from one that is *)
(* served in one respect each.                                             *)
(***************************************************************************)
EXTENDS IkeV1Exchange

Xf(id, auth, dh, len) == [id |-> id, hash |-> "SHA1", auth |-> auth, dh |-> dh, len |-> len]

\* The first transform is not supported, the second is.
MainClient ==
    [mode |-> "main1", sa |-> <<Xf("AES", "PSK", "DH5", 256), Xf("AES", "PSK", "DH14", 128)>>,
     esp |-> <<256, 128>>, addr |-> "a1", psk |-> "k1", id |-> "alice", idType |-> "FQDN",
     config |-> FALSE, user |-> "bob", password |-> "pw"]
AggressiveClient == [MainClient EXCEPT !.mode = "aggr1", !.idType = "IPv4", !.esp = <<0>>]
XauthClient == [MainClient EXCEPT !.sa = <<Xf("AES", "XAUTH", "DH14", 256)>>]

MCProfiles ==
    {MainClient, AggressiveClient, XauthClient,
     [MainClient EXCEPT !.config = TRUE], [MainClient EXCEPT !.psk = "bad"],
     [MainClient EXCEPT !.addr = "a2"], [MainClient EXCEPT !.sa = <<Xf("KEY_IKE", "PSK", "DH14", 128)>>],
     [MainClient EXCEPT !.sa = <<Xf("AES", "PSK", "DH14", 0)>>],
     [AggressiveClient EXCEPT !.idType = "FQDN"], [AggressiveClient EXCEPT !.psk = "bad"],
     [AggressiveClient EXCEPT !.sa = <<Xf("3DES", "PSK", "DH2", 0)>>],
     [XauthClient EXCEPT !.password = "bad"], [XauthClient EXCEPT !.user = ""]}

MCSAPayloads == {p.sa : p \in MCProfiles}
MCPSKs == [addr \in {"a1"} |-> "k1"]
MCCredentials == {<<"bob", "pw">>}
=============================================================================
