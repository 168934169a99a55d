-------------------------- MODULE MC_IkeV2Exchange --------------------------
(***************************************************************************)
(* Instances of IkeV2Exchange for TLC: clients that differ from one that   *)
(* is served in one respect each.                                          *)
(***************************************************************************)
EXTENDS IkeV2Exchange

T(type, id, len) == [type |-> type, id |-> id, len |-> len]
Offer(spi, transforms) == [spi |-> spi, transforms |-> transforms]

IkeOffer(len, groups) ==
    Offer("", {T("ENCR", "AES_GCM", len), T("PRF", "SHA256", 0), T("ESN", "ESN_NONE", 0)}
              \cup {T("DH", g, 0) : g \in groups})
EspOffer(spi, len) == Offer(spi, {T("ENCR", "AES_GCM", len), T("ESN", "ESN_NONE", 0)})

\* Asks for AES-128 only, and begins with a group the responder does not choose.
PskClient ==
    [method |-> "psk", id |-> "alice", key |-> "k1", user |-> "", eapType |-> "Response",
     ike |-> <<IkeOffer(128, {"DH19", "DH14"})>>, group |-> "DH19",
     esp |-> <<EspOffer("c1", 128)>>, complete |-> TRUE, framing |-> "own"]

\* Offers two child proposals, the weaker first, under two SPIs.
EapClient ==
    [PskClient EXCEPT !.method = "eap", !.user = "bob", !.key = "pw", !.group = "DH14",
                      !.esp = <<EspOffer("c1", 128), EspOffer("c2", 256)>>]

MCProfiles ==
    {PskClient, EapClient,
     [PskClient EXCEPT !.framing = "rfc"], [PskClient EXCEPT !.complete = FALSE],
     [PskClient EXCEPT !.method = "cert", !.key = ""], [PskClient EXCEPT !.key = "bad"],
     [PskClient EXCEPT !.id = "carol"], [PskClient EXCEPT !.esp = <<EspOffer("c1", 192)>>],
     [PskClient EXCEPT !.ike = <<IkeOffer(192, {"DH14"})>>],
     [EapClient EXCEPT !.key = "bad"], [EapClient EXCEPT !.user = "dave"],
     [EapClient EXCEPT !.eapType = "NAK"], [EapClient EXCEPT !.eapType = "TLS"]}

MCSAPayloads == UNION {{p.ike, p.esp} : p \in MCProfiles}
RfcProfiles == {[p EXCEPT !.framing = "rfc"] : p \in {PskClient, EapClient}}

MCPSKs == [id \in {"alice"} |-> "k1"]
MCPasswords == [user \in {"bob"} |-> "pw"]
MCConfigs == [cookieMode : {"busy", "auto"}, eap : {TRUE}] \cup [cookieMode : {"auto"}, eap : {FALSE}]
=============================================================================
