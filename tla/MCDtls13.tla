------------------------------ MODULE MCDtls13 ------------------------------
(* Scenarios of Dtls13 for TLC. *)
EXTENDS Dtls13

Client13(groups, certLen) ==
    [suites |-> <<"aes128", "aes256">>, groups |-> groups, certLen |-> certLen]
Server13(groups, certLen, cookie, requireCert) ==
    [suites |-> <<"aes256">>, groups |-> groups, certLen |-> certLen,
     cookie |-> cookie, requireCert |-> requireCert]

Scenario(client, server, losses, repeats, early, acks, sends, patient, limit, closes) ==
    [client |-> client, server |-> server, losses |-> losses, repeats |-> repeats,
     early |-> early, acks |-> acks,
     sends |-> sends, patient |-> patient, limit |-> limit, closes |-> closes,
     rearms |-> TRUE]

Sends(client, server) == [client |-> client, server |-> server]

AnyGroup == <<"x25519", "p256">>
Plain == Server13(<<"x25519">>, 1, FALSE, FALSE)
Asking == Server13(<<"p256">>, 1, TRUE, TRUE)

NoData == Sends(0, 0)

\* Callers that follow the loop of the library's documentation.
Documented(s) == [s EXCEPT !.rearms = FALSE]

\* Both update their keys after two records, on a network that may be bad.
Updating(losses, repeats, early, sends) ==
    Scenario(Client13(AnyGroup, 1), Plain, losses, repeats, early, 0, sends, TRUE, 2, {})

Handshakes ==
    {Scenario(Client13(AnyGroup, 1), Plain, 1, 1, 0, 0, Sends(1, 1), FALSE, INFINITE, {}),
     Scenario(Client13(AnyGroup, 1), Asking, 2, 0, 0, 0, NoData, FALSE, INFINITE, {}),
     Scenario(Client13(AnyGroup, 0), Asking, 1, 1, 0, 0, NoData, FALSE, INFINITE, {}),
     Scenario(Client13(AnyGroup, 1), Asking, 0, 0, 1, 0, NoData, FALSE, INFINITE, {}),
     \* certificates that are cut, with an acknowledgement in between: that of the
     \* last fills a datagram of its own
     Scenario(Client13(AnyGroup, 6), [Asking EXCEPT !.certLen = 6], 0, 1, 0, 1, NoData, FALSE, INFINITE, {}),
     Scenario(Client13(AnyGroup, 6), [Asking EXCEPT !.certLen = 6], 1, 0, 0, 0, NoData, FALSE, INFINITE, {}),
     Scenario(Client13(AnyGroup, 1), [Plain EXCEPT !.certLen = 12], 0, 1, 0, 1, NoData, FALSE, INFINITE, {}),
     \* acknowledgements while a datagram is lost
     Scenario(Client13(AnyGroup, 7), [Asking EXCEPT !.certLen = 6], 1, 0, 0, 2, NoData, FALSE, INFINITE, {}),
     Scenario(Client13(AnyGroup, 1), [Plain EXCEPT !.certLen = 12], 1, 0, 0, 2, NoData, FALSE, INFINITE, {}),
     Documented(Scenario(Client13(AnyGroup, 1), [Plain EXCEPT !.certLen = 6], 0, 1, 0, 1, NoData, FALSE, INFINITE, {})),
     Updating(0, 0, 0, Sends(2, 1)), Updating(1, 0, 0, Sends(2, 0)),
     Updating(0, 1, 0, Sends(2, 0)), Updating(1, 0, 1, Sends(0, 1)),
     Scenario(Client13(AnyGroup, 1), Plain, 0, 1, 0, 0, Sends(1, 1), TRUE, INFINITE, P),
     \* these cannot succeed
     Scenario(Client13(AnyGroup, 1), [Plain EXCEPT !.groups = <<"p384">>], 1, 0, 0, 0, Sends(1, 1), FALSE, INFINITE, {}),
     Scenario(Client13(AnyGroup, 1), [Asking EXCEPT !.suites = <<"chacha">>], 1, 0, 0, 0, Sends(1, 1), FALSE, INFINITE, {})}

\* The last fragment of a certificate fits into one datagram with the ServerHello.
CutCertificate ==
    {Scenario(Client13(AnyGroup, 1), [Plain EXCEPT !.certLen = 5], 1, 0, 0, 1, NoData, FALSE, INFINITE, {})}

\* A key update is lost while the endpoint answers that of its peer.
LostUpdate == {Updating(1, 0, 0, Sends(2, 0))}
=============================================================================
