------------------------------- MODULE MCStun -------------------------------
(* Scenarios of StunExchange for TLC: the configuration of DtlsSession::new and
   servers with and without cookies and certificate requests. *)
EXTENDS StunExchange

Endpoint(cert, suites, cookie, requireCert) ==
    [cert |-> cert, psk |-> "off", suites |-> suites, groups |-> <<"p256">>,
     cookie |-> cookie, requireCert |-> requireCert, hint |-> FALSE]

Session == Endpoint(TRUE, <<"aes128", "aes256">>, FALSE, FALSE)
StunServer == Endpoint(TRUE, <<"aes256">>, TRUE, FALSE)
Plain == [StunServer EXCEPT !.cookie = FALSE]

Scenario(server, calls, losses, repeats, repeated, early, resends, refused) ==
    [client |-> Session, server |-> server, calls |-> calls, losses |-> losses,
     repeats |-> repeats, repeated |-> repeated, early |-> early, resends |-> resends,
     refused |-> refused, rearms |-> TRUE]

\* A TURN session: permissions after the allocation, and a closed session.
Turn == <<"allocate", "permission", "permission", "close", "permission">>
Permissions == <<"allocate", "permission", "permission", "permission">>

Exchanges ==
    {Scenario([StunServer EXCEPT !.requireCert = TRUE], <<"binding">>, 0, 0, {}, 0, 0, {}),
     Scenario(StunServer, <<"binding">>, 1, 1, P, 0, 0, {}),
     Scenario(StunServer, <<"binding">>, 2, 0, {}, 0, 0, {}),
     Scenario(Plain, <<"binding">>, 1, 0, {}, 1, 1, {1}),
     Scenario([Plain EXCEPT !.suites = <<"psk">>], <<"binding">>, 1, 0, {}, 0, 0, {}),
     Scenario(StunServer, Turn, 1, 0, {}, 0, 0, {2}),
     Scenario(Plain, Turn, 0, 1, P, 1, 0, {3}),
     Scenario(Plain, Permissions, 0, 2, {"client"}, 0, 0, {})}
=============================================================================
