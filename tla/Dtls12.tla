------------------------------- MODULE Dtls12 -------------------------------
(***************************************************************************)
(* A DTLS 1.2 client (dtls12/client.rs) and server (dtls12/server.rs) over *)
(* a network that loses, repeats and reorders datagrams. Each state        *)
(* handler of the two state machines is an action. A call - handle_packet, *)
(* handle_timeout, send_application_data, close - makes its endpoint       *)
(* "busy"; its handlers then run until one stays in its state, and the     *)
(* caller drains poll_output, as the library asks of it (lib.rs:94-103).   *)
(***************************************************************************)
EXTENDS Dtls12Engine

CONSTANT
    SCENARIOS   \* configurations of the endpoints and bounds of their surroundings

VARIABLES
    cfg,        \* the scenario: "client" and "server" are the configurations;
                \* "losses", "repeats", "early" (timers that fire while answers
                \* are on their way), "sends" (messages of each application) and
                \* "closes" (applications that may close) are bounds; "rearms"
                \* says that callers call handle_timeout after each new flight
    ep,         \* the endpoints
    net,        \* datagrams under way
    busy,       \* the endpoint inside a call, or "nobody"
    used        \* what the network and the applications have used up

vars == <<cfg, ep, net, busy, used>>

P == {"client", "server"}
Peer(p) == IF p = "client" THEN "server" ELSE "client"

IsPsk(suite) == suite = "psk"

NewEndpoint(p) ==
    Joined(NewEngine,
    [state |-> IF p = "client" THEN "SendClientHello" ELSE "AwaitClientHello",
     ready |-> FALSE,           \* the random is drawn
     cookie |-> "none", suite |-> "none", groups |-> <<>>,
     peerCert |-> FALSE, certVerify |-> FALSE,
     pskValid |-> "unset", queued |-> <<>>, events |-> <<>>,
     accepted |-> <<>>,         \* history: messages the application has sent
     told |-> <<>>])            \* history: what poll_output has handed out

Init ==
    /\ cfg \in SCENARIOS
    /\ ep = [p \in P |-> NewEndpoint(p)]
    /\ net = {}
    /\ busy = "nobody"
    /\ used = [losses |-> 0, repeats |-> 0, early |-> 0, fired |-> {}]

---------------------------------------------------------------------------
(* A call and the steps in it.                                             *)

Connected(e) == \E i \in DOMAIN e.told : e.told[i] = "Connected"

\* One step of make_progress: an error ends the call and the endpoint's use.
Move(p, e) ==
    /\ ep' = [ep EXCEPT ![p] = e]
    /\ busy' = IF e.err = "none" THEN p ELSE "nobody"

\* The caller takes events, application data and datagrams until none is left.
Drained(e) ==
    LET data == [i \in DOMAIN Readable(e) |-> Readable(e)[i].rec.val.args[1]]
        closed == IF e.closeSeen /\ ~e.closeTold THEN <<"CloseNotify">> ELSE <<>>
    IN  [Polled(e) EXCEPT !.told = @ \o e.events \o data \o closed, !.events = <<>>]

Wanted(e) ==
    CASE e.state = "AwaitHelloVerifyRequest" -> {"ServerHello", "HelloVerifyRequest"}
      [] e.state = "AwaitServerHello" -> {"ServerHello"}
      [] e.state = "AwaitCertificate" -> {"Certificate"}
      [] e.state = "AwaitServerKeyExchange" ->
            {"ServerKeyExchange"} \cup IF IsPsk(e.suite) THEN {"ServerHelloDone"} ELSE {}
      [] e.state = "AwaitCertificateRequest" -> {"CertificateRequest", "ServerHelloDone"}
      [] e.state = "AwaitServerHelloDone" -> {"ServerHelloDone"}
      [] e.state = "AwaitNewSessionTicket" -> {"Finished"}
      [] e.state = "AwaitFinished" -> {"Finished"}
      [] e.state = "AwaitClientHello" -> {"ClientHello"}
      [] e.state = "AwaitClientKeyExchange" -> {"ClientKeyExchange"}
      [] e.state = "AwaitCertificateVerify" -> {"CertificateVerify"}
      [] OTHER -> {}

\* The handler has nothing to do and stays: the call returns.
Blocked(p) ==
    LET e == ep[p]
    IN  /\ busy = p
        /\ \A m \in Wanted(e) : ~HasCompleteHandshake(e, m)
        /\ \/ Wanted(e) # {}
           \/ e.state = "AwaitChangeCipherSpec" /\ ~HasCCS(e)
           \/ e.state = "AwaitApplicationData" /\ ~e.closeSeen /\ e.queued = <<>>
           \/ e.state = "Closed"

\* ... and the caller drains what it left.
Yield(p) ==
    LET e == ep[p]
    IN  /\ Blocked(p)
        /\ ep' = [ep EXCEPT ![p] = Drained(e)]
        /\ net' = net \cup {[to |-> Peer(p), records |-> e.tx[i]] : i \in DOMAIN e.tx}
        /\ busy' = "nobody"
        /\ UNCHANGED <<cfg, used>>

At(p, state) == busy = p /\ ep[p].state = state

\* The complete message a handler waits for is there.
Got(p, type) == HasCompleteHandshake(ep[p], type)

Arg(p) == MessageBody(ep[p]).args

\* A handler that takes message "type", applies F and goes to "state".
Take(p, type, F(_), state) ==
    LET e == NextHandshake(ep[p], type)
    IN  /\ Got(p, type)
        /\ Move(p, IF e.err = "none" THEN [F(e) EXCEPT !.state = state] ELSE e)
        /\ UNCHANGED <<cfg, net, used>>

\* A handler that changes the endpoint to e and goes to "state".
Go(p, e, state) ==
    /\ Move(p, IF e.err = "none" THEN [e EXCEPT !.state = state] ELSE e)
    /\ UNCHANGED <<cfg, net, used>>

Same(e) == e

\* close_notify has arrived: answer it and drop what was not sent.
AnswerClose(e) == CreateRecord(DiscardPendingWrites(e), CloseNotify, FALSE)

SendQueued(e) ==
    FoldLeft(LAMBDA acc, d : CreateRecord(acc, AppData(d), FALSE),
             [e EXCEPT !.queued = <<>>], e.queued)

AwaitApplicationData(p) ==
    /\ At(p, "AwaitApplicationData")
    /\ \/ ep[p].closeSeen /\ Go(p, AnswerClose(ep[p]), "Closed")
       \/ /\ ~ep[p].closeSeen /\ ep[p].queued # <<>>
          /\ Go(p, SendQueued(ep[p]), "AwaitApplicationData")

\* Extra repetitions of the ChangeCipherSpec are dropped with the one taken.
AwaitChangeCipherSpec(p, state) ==
    /\ At(p, "AwaitChangeCipherSpec")
    /\ HasCCS(ep[p])
    /\ Go(p, EnablePeerEncryption(DropPendingCCS(ep[p])), state)

Finish(e) ==
    ReleaseApplicationData(
        [FlightStopResendTimers(e) EXCEPT !.events = @ \o <<"Connected", "KeyingMaterial">>])

---------------------------------------------------------------------------
(* The client.                                                             *)

\* All certificate suites are offered; PSK suites only by a PSK client.
OfferedSuites ==
    SelectSeq(cfg.client.suites, LAMBDA s : IsPsk(s) => cfg.client.psk # "off")

CreateClientHello(e) ==
    CreateHandshake(e, "ClientHello", Body(<<e.cookie, OfferedSuites, cfg.client.groups>>, <<>>))

SendClientHello ==
    LET e == ep["client"]
    IN  /\ At("client", "SendClientHello")
        /\ Go("client", CreateClientHello(FlightBegin(e)),
              IF e.cookie = "none" THEN "AwaitHelloVerifyRequest" ELSE "AwaitServerHello")

AwaitHelloVerifyRequest ==
    /\ At("client", "AwaitHelloVerifyRequest")
    /\ \/ /\ Got("client", "ServerHello")
          /\ Go("client", ep["client"], "AwaitServerHello")
       \/ /\ ~Got("client", "ServerHello")
          /\ Take("client", "HelloVerifyRequest",
                  LAMBDA e : ResetClientForHelloVerifyRequest([e EXCEPT !.cookie = Arg("client")[1]]),
                  "SendClientHello")

\* Mutant of AwaitServerHello: the client goes on with its own first suite.
AwaitServerHelloOwnSuite ==
    LET suite == Arg("client")[1]
        own == SelectSeq(OfferedSuites, LAMBDA s : IsPsk(s) = IsPsk(suite))
    IN  /\ At("client", "AwaitServerHello")
        /\ Take("client", "ServerHello", LAMBDA e : [e EXCEPT !.suite = own[1]],
                IF IsPsk(suite) THEN "AwaitServerKeyExchange" ELSE "AwaitCertificate")

\* The suite must be one this client supports and its configuration allows.
AwaitServerHello ==
    LET suite == Arg("client")[1]
        fits == IsPsk(suite) => cfg.client.psk # "off"
        allowed == suite \in ToSet(cfg.client.suites)
    IN  /\ At("client", "AwaitServerHello")
        /\ Take("client", "ServerHello",
                LAMBDA e : IF fits /\ allowed THEN [e EXCEPT !.suite = suite]
                           ELSE Fail(e, "SecurityError"),
                IF IsPsk(suite) THEN "AwaitServerKeyExchange" ELSE "AwaitCertificate")

AwaitServerCertificate ==
    /\ At("client", "AwaitCertificate") /\ busy = "client"
    /\ Take("client", "Certificate", LAMBDA e : [e EXCEPT !.peerCert = TRUE],
            "AwaitServerKeyExchange")

AwaitServerKeyExchangeEcdhe ==
    LET group == Arg("client")[1]
    IN  /\ At("client", "AwaitServerKeyExchange") /\ ~IsPsk(ep["client"].suite)
        /\ Take("client", "ServerKeyExchange",
                LAMBDA e : ProcessEcdhParams(e, group),
                "AwaitCertificateRequest")

\* The hint is not looked at.
AwaitServerKeyExchangePsk ==
    /\ At("client", "AwaitServerKeyExchange") /\ IsPsk(ep["client"].suite)
    /\ \/ Got("client", "ServerHelloDone") /\ Go("client", ep["client"], "AwaitServerHelloDone")
       \/ Take("client", "ServerKeyExchange", Same, "AwaitServerHelloDone")

\* The hash of the private key is asked for; a PSK client has none and panics.
AwaitCertificateRequest ==
    /\ At("client", "AwaitCertificateRequest")
    /\ \/ Got("client", "ServerHelloDone") /\ Go("client", ep["client"], "AwaitServerHelloDone")
       \/ Take("client", "CertificateRequest",
               LAMBDA e : IF cfg.client.cert THEN [e EXCEPT !.certVerify = TRUE]
                          ELSE Fail(e, "panic"),
               "AwaitServerHelloDone")

AwaitServerHelloDone ==
    LET e == ep["client"]
    IN  /\ At("client", "AwaitServerHelloDone")
        /\ Take("client", "ServerHelloDone",
                LAMBDA f : IF IsPsk(f.suite) THEN f
                           ELSE [f EXCEPT !.events = Append(@, "PeerCert")],
                IF e.certVerify THEN "SendCertificate" ELSE "SendClientKeyExchange")

SendClientCertificate ==
    /\ At("client", "SendCertificate")
    /\ Go("client", CreateHandshake(FlightBegin(ep["client"]), "Certificate", NoBody),
          "SendClientKeyExchange")

\* The client's share of the group, or the identity of its PSK.
CreateClientKeyExchange(e) ==
    LET psk == IsPsk(e.suite)
        keyed == IF psk THEN ComputePskPreMasterSecret(e, cfg.client.psk) ELSE e
    IN  CreateHandshake(keyed, "ClientKeyExchange",
                        Body(<<IF psk THEN cfg.client.psk ELSE e.group>>, <<>>))

\* The session hash is taken here, after the ClientKeyExchange is hashed.
SendClientKeyExchange ==
    LET e == ep["client"]
        sent == CreateClientKeyExchange(IF e.certVerify THEN e ELSE FlightBegin(e))
    IN  /\ At("client", "SendClientKeyExchange")
        /\ Go("client",
              [sent EXCEPT !.session = sent.transcript],
              IF e.certVerify THEN "SendCertificateVerify" ELSE "SendChangeCipherSpec")

CreateCertificateVerify(e) ==
    CreateHandshake(e, "CertificateVerify", Body(<<>>, e.transcript))

SendCertificateVerify ==
    /\ At("client", "SendCertificateVerify")
    /\ Go("client", CreateCertificateVerify(ep["client"]), "SendChangeCipherSpec")

SendClientChangeCipherSpec ==
    /\ At("client", "SendChangeCipherSpec")
    /\ Go("client", CreateRecord(DeriveKeys(ep["client"]), CCS, TRUE), "SendFinished")

\* Mutant of SendClientFinished: the connection is reported with the own Finished.
SendClientFinishedConnects ==
    LET e == ep["client"]
        sent == CreateHandshake(e, "Finished", Body(<<>>, GenerateVerifyData(e, "client")))
    IN  /\ At("client", "SendFinished")
        /\ Go("client", [sent EXCEPT !.events = Append(@, "Connected")], "AwaitChangeCipherSpec")

SendClientFinished ==
    LET e == ep["client"]
    IN  /\ At("client", "SendFinished")
        /\ Go("client", CreateHandshake(e, "Finished", Body(<<>>, GenerateVerifyData(e, "client"))),
              "AwaitChangeCipherSpec")

\* This server never sends a NewSessionTicket.
AwaitNewSessionTicket ==
    /\ At("client", "AwaitNewSessionTicket")
    /\ Got("client", "Finished")
    /\ Go("client", ep["client"], "AwaitFinished")

AwaitServerFinished ==
    LET e == ep["client"]
        right == MessageBody(e).hash = GenerateVerifyData(e, "server")
    IN  /\ At("client", "AwaitFinished")
        /\ Take("client", "Finished",
                LAMBDA f : IF right THEN Finish(f) ELSE Fail(f, "SecurityError"),
                "AwaitApplicationData")

Client ==
    \/ SendClientHello \/ AwaitHelloVerifyRequest \/ AwaitServerHello
    \/ AwaitServerCertificate \/ AwaitServerKeyExchangeEcdhe \/ AwaitServerKeyExchangePsk
    \/ AwaitCertificateRequest \/ AwaitServerHelloDone \/ SendClientCertificate
    \/ SendClientKeyExchange \/ SendCertificateVerify \/ SendClientChangeCipherSpec
    \/ SendClientFinished \/ AwaitChangeCipherSpec("client", "AwaitNewSessionTicket")
    \/ AwaitNewSessionTicket \/ AwaitServerFinished \/ AwaitApplicationData("client")

---------------------------------------------------------------------------
(* The server.                                                             *)

\* The first suite of the client's that is allowed here and fits the key.
SelectSuite(offered) ==
    SelectSeq(offered, LAMBDA s : s \in ToSet(cfg.server.suites)
                                  /\ IsPsk(s) = ~cfg.server.cert)

\* The first group of the server's that the client offers.
SelectNamedGroup(offered) ==
    SelectSeq(cfg.server.groups, LAMBDA g : g \in ToSet(offered))

VerifyCookie(cookie) == cookie = "cookie"

\* Without the cookie: answer with it, forget the hello and stay.
AwaitClientHelloNoCookie ==
    LET e == NextHandshake(ep["server"], "ClientHello")
        asked == CreateHandshake(FlightBegin(e), "HelloVerifyRequest", Body(<<"cookie">>, <<>>))
    IN  /\ At("server", "AwaitClientHello") /\ Got("server", "ClientHello")
        /\ cfg.server.cookie /\ ~VerifyCookie(Arg("server")[1])
        /\ Go("server", ResetServerForHelloVerifyRequest(asked), "AwaitClientHello")

AwaitClientHello ==
    LET hello == Arg("server")
        suites == SelectSuite(hello[2])
    IN  /\ At("server", "AwaitClientHello") /\ Got("server", "ClientHello")
        /\ cfg.server.cookie => VerifyCookie(hello[1])
        /\ Take("server", "ClientHello",
                LAMBDA e : IF suites = <<>> THEN Fail(e, "SecurityError")
                           ELSE [e EXCEPT !.suite = suites[1], !.groups = hello[3]],
                "SendServerHello")

CreateServerHello(e) == CreateHandshake(e, "ServerHello", Body(<<e.suite>>, <<>>))

SendServerHello ==
    LET e == ep["server"]
    IN  /\ At("server", "SendServerHello")
        /\ Go("server", CreateServerHello(FlightBegin(e)),
              IF IsPsk(e.suite) THEN "SendServerKeyExchange" ELSE "SendCertificate")

SendServerCertificate ==
    /\ At("server", "SendCertificate")
    /\ Go("server", CreateHandshake(ep["server"], "Certificate", NoBody), "SendServerKeyExchange")

CreateServerKeyExchange(e, group) ==
    CreateHandshake(InitEcdhServer(e, group), "ServerKeyExchange", Body(<<group>>, <<>>))

SendServerKeyExchangeEcdhe ==
    LET e == ep["server"]
        groups == SelectNamedGroup(e.groups)
    IN  /\ At("server", "SendServerKeyExchange") /\ ~IsPsk(e.suite)
        /\ Go("server",
              IF groups = <<>> THEN Fail(e, "SecurityError")
              ELSE CreateServerKeyExchange(e, groups[1]),
              IF cfg.server.requireCert THEN "SendCertificateRequest" ELSE "SendServerHelloDone")

\* Without a hint the message is left out.
SendServerKeyExchangePsk ==
    LET e == ep["server"]
    IN  /\ At("server", "SendServerKeyExchange") /\ IsPsk(e.suite)
        /\ Go("server",
              IF cfg.server.hint THEN CreateHandshake(e, "ServerKeyExchange", NoBody) ELSE e,
              "SendServerHelloDone")

CreateCertificateRequest(e) == CreateHandshake(e, "CertificateRequest", NoBody)

SendCertificateRequest ==
    /\ At("server", "SendCertificateRequest")
    /\ Go("server", CreateCertificateRequest(ep["server"]), "SendServerHelloDone")

SendServerHelloDone ==
    LET e == ep["server"]
    IN  /\ At("server", "SendServerHelloDone")
        /\ Go("server", CreateHandshake(e, "ServerHelloDone", NoBody),
              IF ~IsPsk(e.suite) /\ cfg.server.requireCert THEN "AwaitCertificate"
              ELSE "AwaitClientKeyExchange")

AwaitClientCertificate ==
    /\ At("server", "AwaitCertificate")
    /\ Take("server", "Certificate",
            LAMBDA e : [e EXCEPT !.peerCert = TRUE, !.events = Append(@, "PeerCert")],
            "AwaitClientKeyExchange")

\* An unknown identity goes on with a random key, so that only the Finished fails.
AwaitClientKeyExchange ==
    LET psk == IsPsk(ep["server"].suite)
        known == Arg("server")[1] = "known"
        Shared(e) ==
            IF psk THEN ComputePskPreMasterSecret(e, IF known THEN "known" ELSE "dummy")
            ELSE ComputeSharedSecret(e)
        Keyed(e) == DeriveKeys([Shared(e) EXCEPT
            !.pskValid = IF ~psk THEN @ ELSE IF known THEN "yes" ELSE "no",
            !.session = e.transcript])
    IN  /\ At("server", "AwaitClientKeyExchange")
        /\ Take("server", "ClientKeyExchange", Keyed,
                IF ep["server"].peerCert THEN "AwaitCertificateVerify" ELSE "AwaitChangeCipherSpec")

AwaitCertificateVerify ==
    LET e == ep["server"]
        right == MessageBody(e).hash = e.transcript
    IN  /\ At("server", "AwaitCertificateVerify")
        /\ Take("server", "CertificateVerify",
                LAMBDA f : IF right THEN f ELSE Fail(f, "CryptoError"), "AwaitChangeCipherSpec")

AwaitClientFinished ==
    LET e == ep["server"]
        right == MessageBody(e).hash = GenerateVerifyData(e, "client")
    IN  /\ At("server", "AwaitFinished")
        /\ Take("server", "Finished",
                LAMBDA f : IF ~right THEN Fail(f, "SecurityError")
                           ELSE IF IsPsk(f.suite) /\ f.pskValid = "unset" THEN Fail(f, "panic")
                           ELSE IF f.pskValid = "no" THEN Fail(f, "SecurityError")
                           ELSE f,
                "SendChangeCipherSpec")

SendServerChangeCipherSpec ==
    /\ At("server", "SendChangeCipherSpec")
    /\ Go("server", CreateRecord(FlightBegin(ep["server"]), CCS, TRUE), "SendFinished")

\* The last flight is repeated only when the client repeats its own.
SendServerFinished ==
    LET e == ep["server"]
    IN  /\ At("server", "SendFinished")
        /\ Go("server",
              Finish(CreateHandshake(e, "Finished", Body(<<>>, GenerateVerifyData(e, "server")))),
              "AwaitApplicationData")

Server ==
    \/ AwaitClientHelloNoCookie \/ AwaitClientHello \/ SendServerHello
    \/ SendServerCertificate \/ SendServerKeyExchangeEcdhe \/ SendServerKeyExchangePsk
    \/ SendCertificateRequest \/ SendServerHelloDone \/ AwaitClientCertificate
    \/ AwaitClientKeyExchange \/ AwaitCertificateVerify
    \/ AwaitChangeCipherSpec("server", "AwaitFinished") \/ AwaitClientFinished
    \/ SendServerChangeCipherSpec \/ SendServerFinished \/ AwaitApplicationData("server")

---------------------------------------------------------------------------
(* The calls of the two applications, the timers and the network.          *)

Idle(p) == busy = "nobody" /\ ep[p].err = "none"

Underway == {m \in net : ep[m.to].err = "none"}

\* What poll_timeout makes the caller do: it asks for an immediate call only
\* while no timer runs, and for the later deadline of the other one if just the
\* flight timer is not armed.
AsksNow(e) == "armed" \notin {e.connectTimer, e.flightTimer}
              /\ "unarmed" \in {e.connectTimer, e.flightTimer}

MayArm(p) ==
    ep[p].err = "none" /\ (AsksNow(ep[p]) \/ (cfg.rearms /\ ep[p].flightTimer = "unarmed"))

\* The first call also draws the random.
Arm(p) ==
    /\ Idle(p) /\ MayArm(p)
    /\ Move(p, [HandleEngineTimeout(ep[p], FALSE) EXCEPT !.ready = TRUE])
    /\ UNCHANGED <<cfg, net, used>>

Armed == {p \in P : ep[p].err = "none" /\ ep[p].flightTimer = "armed"}

\* The flight timers of the two run at the same pace; both are longer than a
\* round trip, but for a few exceptions.
MayFire(p) ==
    /\ Idle(p) /\ p \in Armed /\ (p \in used.fired => Armed \subseteq used.fired)
    /\ \A q \in P : ~MayArm(q)
    /\ Underway # {} => used.early < cfg.early

FlightTimerFires(p) ==
    LET fired == used.fired \cup {p}
    IN  /\ MayFire(p)
        /\ Move(p, HandleEngineTimeout(ep[p], FALSE))
        /\ used' = [used EXCEPT !.early = @ + IF Underway # {} THEN 1 ELSE 0,
                                !.fired = IF Armed \subseteq fired THEN {} ELSE fired]
        /\ UNCHANGED <<cfg, net>>

\* The connect timer is longer than all retransmissions together.
ConnectTimerFires(p) ==
    /\ Idle(p) /\ ep[p].connectTimer = "armed" /\ ep[p].flightTimer # "armed"
    /\ Underway = {} /\ Armed = {} /\ \A q \in P : ~MayArm(q)
    /\ Move(p, HandleEngineTimeout(ep[p], TRUE))
    /\ UNCHANGED <<cfg, net, used>>

\* handle_packet. The server's random must be there before its first packet.
Deliver(m) ==
    /\ Idle(m.to) /\ ep[m.to].ready
    /\ Move(m.to, ParsePacket(ep[m.to], m.records))
    /\ net' = net \ {m}
    /\ UNCHANGED <<cfg, used>>

Repeat(m) ==
    /\ used.repeats < cfg.repeats
    /\ Idle(m.to) /\ ep[m.to].ready
    /\ Move(m.to, ParsePacket(ep[m.to], m.records))
    /\ used' = [used EXCEPT !.repeats = @ + 1]
    /\ UNCHANGED <<cfg, net>>

Lose(m) ==
    /\ busy = "nobody" /\ used.losses < cfg.losses
    /\ net' = net \ {m}
    /\ used' = [used EXCEPT !.losses = @ + 1]
    /\ UNCHANGED <<cfg, ep, busy>>

DATA == [client |-> <<"c1", "c2", "c3", "c4">>, server |-> <<"s1", "s2", "s3", "s4">>]

\* Before the handshake is over the data waits in the endpoint.
SendApplicationData(p) ==
    LET e == ep[p]
        d == DATA[p][Len(e.accepted) + 1]
        taken == [e EXCEPT !.accepted = Append(@, d)]
    IN  /\ Idle(p) /\ e.ready /\ e.state # "Closed"
        /\ Len(e.accepted) < cfg.sends /\ Len(e.accepted) < Len(DATA[p])
        /\ Move(p, IF e.state = "AwaitApplicationData"
                   THEN CreateRecord(taken, AppData(d), FALSE)
                   ELSE [taken EXCEPT !.queued = Append(@, d)])
        /\ UNCHANGED <<cfg, net, used>>

Closing(e) ==
    LET left == IF e.state = "AwaitApplicationData" THEN CreateRecord(e, CloseNotify, FALSE)
                ELSE Abort(e)
    IN  IF left.err = "none" THEN [left EXCEPT !.state = "Closed"] ELSE left

Close(p) ==
    /\ Idle(p) /\ p \in cfg.closes /\ ep[p].ready /\ ep[p].state # "Closed"
    /\ Move(p, Closing(ep[p]))
    /\ UNCHANGED <<cfg, net, used>>

Runs == Client \/ Server \/ \E p \in P : Yield(p)

Timers == \E p \in P : Arm(p) \/ FlightTimerFires(p) \/ ConnectTimerFires(p)

Next ==
    \/ Runs
    \/ Timers
    \/ \E m \in net : Deliver(m) \/ Repeat(m) \/ Lose(m)
    \/ \E p \in P : SendApplicationData(p) \/ Close(p)

\* A call returns, a caller keeps the timers and the network delivers what it
\* does not lose. Where a step always ends its own guard, weak fairness says that
\* the guard does not hold forever.
Fairness ==
    /\ []<>(busy = "nobody")
    /\ []<>~(\E m \in Underway : Idle(m.to) /\ ep[m.to].ready)
    /\ \A p \in P : /\ []<>~MayFire(p)
                    /\ WF_vars(Arm(p)) /\ WF_vars(ConnectTimerFires(p))

Spec == Init /\ [][Next]_vars /\ Fairness

---------------------------------------------------------------------------
(* Properties.                                                             *)

\* The suites both sides know and have the means for.
CommonSuites ==
    {s \in ToSet(cfg.client.suites) \cap ToSet(cfg.server.suites) :
        IF cfg.server.cert THEN ~IsPsk(s) ELSE IsPsk(s) /\ cfg.client.psk # "off"}

\* A client without a certificate is not asked for one, see AwaitCertificateRequest.
Compatible ==
    /\ CommonSuites # {}
    /\ IF cfg.server.cert
       THEN /\ ToSet(cfg.client.groups) \cap ToSet(cfg.server.groups) # {}
            /\ cfg.server.requireCert => cfg.client.cert
       ELSE cfg.client.psk = "known"

\* Two connected endpoints hold the same keys, drawn from the same handshake, use
\* the same suite and group, and the certificates were shown that are asked for
\* (dtls12/client.rs:1060, dtls12/server.rs:966).
KeysAgree ==
    LET c == ep["client"]
        s == ep["server"]
    IN  Connected(c) /\ Connected(s) =>
            /\ c.keys = s.keys /\ c.transcript = s.transcript
            /\ c.suite = s.suite /\ c.group = s.group
            /\ c.peerCert = ~IsPsk(c.suite)
            /\ s.peerCert = (~IsPsk(c.suite) /\ cfg.server.requireCert)

\* The client reports the connection only after the server has: its last flight
\* needs no other acknowledgement (dtls12/engine.rs flight_stop_resend_timers).
ClientConnectsLast == Connected(ep["client"]) => Connected(ep["server"])

\* The application hears of the peer's certificate and of the connection before
\* any data, gets each message of the peer at most once and nothing after the
\* close_notify, whatever is repeated or comes early.
OutputsInOrder ==
    \A p \in P :
        LET told == ep[p].told
            At1(x) == {i \in DOMAIN told : told[i] = x}
            first == At1("Connected")
        IN  /\ \A i \in DOMAIN told : Cardinality(At1(told[i])) = 1
            /\ \A i \in DOMAIN told :
                  /\ told[i] \in ToSet(DATA[Peer(p)]) =>
                        /\ told[i] \in ToSet(ep[Peer(p)].accepted)
                        /\ \E j \in first : j < i
                  /\ told[i] = "PeerCert" => \A j \in first : i < j
                  /\ told[i] = "CloseNotify" => i = Len(told)

\* The comment above the assertion of dtls12/engine.rs:304: "For epoch 1, we have
\* the replay window and there should be no duplicates." A record that waits for
\* its keys has not met the window yet.
NoDuplicates == \A p \in P : ep[p].err # "panic"

\* An endpoint that has ended before its peer, by itself or by a repeated record
\* that waited for its keys.
Left(p) == ep[p].state = "Closed" \/ ep[p].err = "Timeout"
           \/ (ep[p].err = "panic" /\ used.repeats > 0)

\* Between compatible endpoints nothing the network does within its bounds makes
\* a call fail, but for the panic that NoDuplicates is about; only the peer's
\* early end lets a timer run out.
NoFalseFailure ==
    Compatible => \A p \in P :
        \/ ep[p].err = "none"
        \/ ep[p].err = "panic" /\ used.repeats > 0
        \/ ep[p].err = "Timeout" /\ Left(Peer(p))

\* A handshake between compatible endpoints completes in spite of the lost
\* datagrams, unless an application closes or that panic ends it.
HandshakeCompletes ==
    Compatible ~> \/ \A p \in P : Connected(ep[p])
                  \/ \E p \in P : ep[p].state = "Closed" \/ ep[p].err = "panic"

\* After a close before the connection the endpoint sends nothing more
\* (dtls12/engine.rs abort).
AbortIsQuiet ==
    [][\A p \in P : ep[p].state = "Closed" /\ ~ep[p].release =>
          \A m \in net' \ net : m.to # Peer(p)]_vars
=============================================================================
