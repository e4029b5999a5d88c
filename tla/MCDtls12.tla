------------------------------ MODULE MCDtls12 ------------------------------
(* Scenarios of Dtls12 for TLC. *)
EXTENDS Dtls12

Endpoint(cert, psk, suites, groups, cookie, requireCert, hint) ==
    [cert |-> cert, psk |-> psk, suites |-> suites, groups |-> groups,
     cookie |-> cookie, requireCert |-> requireCert, hint |-> hint]

CertClient == Endpoint(TRUE, "off", <<"aes128", "aes256">>, <<"x25519", "p256">>, FALSE, FALSE, FALSE)
CertServer == Endpoint(TRUE, "off", <<"aes256">>, <<"p256">>, TRUE, TRUE, FALSE)
PskClient == Endpoint(FALSE, "known", <<"aes128", "psk">>, <<"p256">>, FALSE, FALSE, FALSE)
PskServer == Endpoint(FALSE, "known", <<"psk">>, <<"p256">>, TRUE, FALSE, TRUE)

Scenario(client, server, losses, repeats, early, sends, closes) ==
    [client |-> client, server |-> server, losses |-> losses, repeats |-> repeats,
     early |-> early, sends |-> sends, closes |-> closes, rearms |-> TRUE]

\* Callers that follow the loop of the library's documentation.
Documented(s) == [s EXCEPT !.rearms = FALSE]

\* The default, certificates on both sides and a cookie, on a bad network.
Default == Scenario(CertClient, CertServer, 1, 1, 0, 0, {})

\* A short handshake with data, closes and a timer that fires too soon.
NoCookiePsk == [PskServer EXCEPT !.cookie = FALSE, !.hint = FALSE]

Handshakes ==
    {Default,
     Scenario(CertClient, CertServer, 0, 0, 1, 0, {}),
     Scenario(CertClient, [CertServer EXCEPT !.cookie = FALSE, !.requireCert = FALSE], 2, 0, 0, 0, {}),
     Scenario(PskClient, PskServer, 1, 1, 0, 0, {}),
     Scenario(PskClient, NoCookiePsk, 1, 1, 0, 1, {}),
     Scenario(PskClient, NoCookiePsk, 0, 1, 0, 1, {"client", "server"}),
     Scenario(PskClient, NoCookiePsk, 0, 1, 0, 2, {}),
     Documented(Scenario(CertClient, CertServer, 0, 1, 0, 0, {})),
     \* these cannot succeed
     Documented(Scenario([PskClient EXCEPT !.psk = "unknown"], PskServer, 1, 0, 0, 0, {})),
     Scenario([PskClient EXCEPT !.psk = "unknown"], PskServer, 1, 0, 0, 1, {}),
     Scenario(CertClient, [CertServer EXCEPT !.groups = <<"p384">>], 1, 0, 0, 1, {}),
     Scenario(CertClient, PskServer, 1, 0, 0, 1, {}),
     Scenario(PskClient, CertServer, 1, 0, 0, 1, {})}

\* The server's first data overtakes its last flight and is repeated.
OneRepeat == {Scenario(PskClient, NoCookiePsk, 0, 1, 0, 1, {})}

\* The documented loop, and one lost datagram.
DocumentedLoop == {Documented(Scenario(CertClient, CertServer, 1, 0, 0, 0, {}))}
=============================================================================
