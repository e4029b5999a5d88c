------------------------------- MODULE Dtls13 -------------------------------
(***************************************************************************)
(* A DTLS 1.3 client (dtls13/client.rs) and server (dtls13/server.rs) over *)
(* a network that loses, repeats and reorders datagrams. Each state        *)
(* handler of the two state machines is an action. A call makes its        *)
(* endpoint "busy"; handlers run until one stays in its state, and the     *)
(* caller drains poll_output, as the library asks of it (lib.rs:94-103).   *)
(***************************************************************************)
EXTENDS Dtls13Engine

CONSTANT
    SCENARIOS   \* configurations of the endpoints and bounds of their surroundings

VARIABLES
    cfg,        \* the scenario: "client" and "server" are the configurations,
                \* "losses", "repeats", "early" (timers that fire while answers
                \* are on their way), "sends" (messages of each application,
                \* with "patient" only after the handshake), "limit" (records
                \* before a key update), "acks" (see MayAck) and "closes"
    ep,         \* the endpoints
    net,        \* datagrams under way
    busy,       \* the endpoint inside a call, or "nobody"
    used        \* what the network has used up

vars == <<cfg, ep, net, busy, used>>

P == {"client", "server"}
Peer(p) == IF p = "client" THEN "server" ELSE "client"

NewEndpoint(p, limit) ==
    Joined([NewEngine EXCEPT !.limit = limit],
    [state |-> IF p = "client" THEN "SendClientHello" ELSE "AwaitClientHello",
     ready |-> FALSE,           \* the random is drawn
     helloRetry |-> FALSE, cookie |-> "none", hrrGroup |-> "none",
     suite |-> "none", group |-> "none",
     authRequested |-> FALSE, peerCert |-> FALSE, pendingResponse |-> FALSE,
     queued |-> <<>>, events |-> <<>>,
     accepted |-> <<>>,         \* history: messages the application has sent
     told |-> <<>>])            \* history: what poll_output has handed out

Init ==
    /\ cfg \in SCENARIOS
    /\ ep = [p \in P |-> NewEndpoint(p, cfg.limit)]
    /\ net = {}
    /\ busy = "nobody"
    /\ used = [losses |-> 0, repeats |-> 0, early |-> 0, acks |-> 0, fired |-> {}]

---------------------------------------------------------------------------
(* A call and the steps in it.                                             *)

Connected(e) == \E i \in DOMAIN e.told : e.told[i] = "Connected"

At(p, state) == busy = p /\ ep[p].state = state

\* The caller takes events, application data and datagrams until none is left.
Drained(e) ==
    LET data == [i \in DOMAIN Readable(e) |-> Readable(e)[i].rec.val.args[1]]
        closed == IF e.closeAt # <<>> /\ ~e.closeTold THEN <<"CloseNotify">> ELSE <<>>
    IN  [Polled(e) EXCEPT !.told = @ \o e.events \o data \o closed, !.events = <<>>]

\* The handler leaves the endpoint as e and stays in its state: the call ends.
Return(p, e) ==
    /\ ep' = [ep EXCEPT ![p] = IF e.err = "none" THEN Drained(e) ELSE e]
    /\ net' = IF e.err = "none"
              THEN net \cup {[to |-> Peer(p), records |-> e.tx[i]] : i \in DOMAIN e.tx}
              ELSE net
    /\ busy' = "nobody"
    /\ UNCHANGED <<cfg, used>>

\* An error ends the call and the endpoint's use.
Move(p, e) ==
    /\ ep' = [ep EXCEPT ![p] = e]
    /\ busy' = IF e.err = "none" THEN p ELSE "nobody"

\* The handler changes the endpoint to e and goes to another state.
Go(p, e, state) ==
    /\ Move(p, IF e.err = "none" THEN [e EXCEPT !.state = state] ELSE e)
    /\ UNCHANGED <<cfg, net, used>>

Wanted(e) ==
    CASE e.state = "AwaitServerHello" -> {"ServerHello"}
      [] e.state = "AwaitEncryptedExtensions" -> {"EncryptedExtensions"}
      [] e.state = "AwaitCertificateRequest" -> {"CertificateRequest", "Certificate"}
      [] e.state = "AwaitCertificate" -> {"Certificate"}
      [] e.state = "AwaitCertificateVerify" -> {"CertificateVerify"}
      [] e.state = "AwaitFinished" -> {"Finished"}
      [] e.state = "AwaitClientHello" -> {"ClientHello"}
      [] OTHER -> {}

\* Nothing to do: the message a handler waits for is not there, or all is over.
Stay(p) ==
    LET e == ep[p]
    IN  /\ busy = p
        /\ Wanted(e) # {} \/ e.state = "Closed"
        /\ \A m \in Wanted(e) : ~HasCompleteHandshake(e, m)
        /\ Return(p, e)

\* The complete message a handler waits for is there.
Got(p, type) == HasCompleteHandshake(ep[p], type)

Arg(p) == MessageBody(ep[p]).args

Accepted(e) == IF e.err = "none" THEN AdvancePeerHandshakeSeq(e) ELSE e

OnSuccess(e, F(_)) == IF e.err = "none" THEN F(e) ELSE e

\* A handler that takes message "type", applies F, accepts it and goes on.
Take(p, type, F(_), state) ==
    /\ Got(p, type)
    /\ Go(p, Accepted(OnSuccess(NextHandshake(ep[p], type), F)), state)

Same(e) == e

FailUnless(ok, e, what) == IF ok THEN e ELSE Fail(e, what)

ReportConnected(e) == [e EXCEPT !.events = @ \o <<"Connected", "KeyingMaterial">>]

---------------------------------------------------------------------------
(* Connected endpoints.                                                    *)

InitiateKeyUpdate(e) ==
    LET asked == [e EXCEPT !.needsUpdate = FALSE]
    IN  IF ~e.needsUpdate THEN e
        ELSE IF e.prev # <<>> THEN asked
        ELSE CreateKeyUpdate(asked, "requested")

SendQueued(e) ==
    FoldLeft(LAMBDA acc, d : CreateRecord(acc, AppData(e, d), FALSE),
             [e EXCEPT !.queued = <<>>], e.queued)

AnswerKeyUpdate(e) ==
    IF e.pendingResponse
    THEN [CreateKeyUpdate(e, "notRequested") EXCEPT !.pendingResponse = FALSE]
    ELSE e

TakeKeyUpdate(e, acked) ==
    LET request == MessageBody(e).args[1]
        taken == UpdateRecvKeys(TakeHandshake(e, "KeyUpdate"))
        told == IF acked THEN [SendAck(taken) EXCEPT
                                  !.pendingResponse = @ \/ request = "requested"]
                ELSE taken
    IN  IF HasCompleteHandshake(e, "KeyUpdate") THEN AdvancePeerHandshakeSeq(told) ELSE e

\* All of it once in every call.
AwaitApplicationData(p) ==
    /\ At(p, "AwaitApplicationData")
    /\ Return(p, TakeKeyUpdate(AnswerKeyUpdate(SendQueued(InitiateKeyUpdate(ep[p]))), TRUE))

\* A key update is still followed, but neither acknowledged nor answered.
HalfClosedLocal(p) ==
    LET e == TakeKeyUpdate(ep[p], FALSE)
    IN  /\ At(p, "HalfClosedLocal")
        /\ IF e.closeAt # <<>> THEN Go(p, e, "Closed") ELSE Return(p, e)

---------------------------------------------------------------------------
(* The client.                                                             *)

\* Suites, groups, one key share and the cookie, if there is one; padded to fill
\* a datagram.
CreateClientHello(e) ==
    Body(<<cfg.client.suites, cfg.client.groups, e.group, e.cookie>>, <<>>)

\* A client without a certificate sends an empty one.
CreateCertificate(len) ==
    Body(<<IF len = 0 THEN "empty" ELSE "certificate">>, <<>>)

\* The signature is over the transcript so far.
CreateCertificateVerify(e) == Body(<<>>, e.transcript)

\* The share is of the group the server asked for, else of the first.
SendClientHello ==
    LET e == ep["client"]
        group == IF e.hrrGroup # "none" THEN e.hrrGroup ELSE cfg.client.groups[1]
        begun == [FlightBegin(e) EXCEPT !.group = group]
    IN  /\ At("client", "SendClientHello")
        /\ Go("client", CreateHandshake(begun, "ClientHello", 1, CreateClientHello(begun)),
              "AwaitServerHello")

IsHelloRetryRequest(hello) == hello[1] = "retry"

\* Mutant of AwaitHelloRetryRequest: the first hello stays in the transcript.
AwaitHelloRetryRequestPlain ==
    LET e == ep["client"]
        hello == Arg("client")
        again == AdvancePeerHandshakeSeq([NextHandshake(e, "ServerHello") EXCEPT
                        !.cookie = hello[4], !.helloRetry = TRUE,
                        !.hrrGroup = IF hello[3] # "none" THEN hello[3] ELSE @])
    IN  /\ At("client", "AwaitServerHello") /\ Got("client", "ServerHello")
        /\ IsHelloRetryRequest(hello)
        /\ IF e.helloRetry THEN Return("client", TakeHandshake(e, "ServerHello"))
           ELSE Go("client", ResetForHelloRetry(again), "SendClientHello")

\* A second HelloRetryRequest is taken for a repetition and forgotten.
AwaitHelloRetryRequest ==
    LET e == ep["client"]
        hello == Arg("client")
        n == Len(e.transcript)
        again == AdvancePeerHandshakeSeq(ReplaceTranscriptWithMessageHash(
                    [NextHandshake(e, "ServerHello") EXCEPT
                        !.cookie = hello[4], !.helloRetry = TRUE,
                        !.hrrGroup = IF hello[3] # "none" THEN hello[3] ELSE @], n))
    IN  /\ At("client", "AwaitServerHello") /\ Got("client", "ServerHello")
        /\ IsHelloRetryRequest(hello)
        /\ IF e.helloRetry THEN Return("client", TakeHandshake(e, "ServerHello"))
           ELSE Go("client",
                   FailUnless(hello[2] \in ToSet(cfg.client.suites),
                              ResetForHelloRetry(again), "SecurityError"),
                   "SendClientHello")

\* The suite must be one of this client's and the share of its group.
AwaitServerHello ==
    LET hello == Arg("client")
        fits == hello[2] \in ToSet(cfg.client.suites) /\ hello[3] = ep["client"].group
        Keyed(e) == EnablePeerEncryption(InstallHandshakeKeys(
                        [e EXCEPT !.suite = hello[2], !.shared = hello[3]]))
    IN  /\ At("client", "AwaitServerHello") /\ Got("client", "ServerHello")
        /\ ~IsHelloRetryRequest(hello)
        /\ Take("client", "ServerHello",
                LAMBDA e : IF fits THEN Keyed(e) ELSE Fail(e, "SecurityError"),
                "AwaitEncryptedExtensions")

AwaitEncryptedExtensions ==
    /\ At("client", "AwaitEncryptedExtensions")
    /\ Take("client", "EncryptedExtensions", Same, "AwaitCertificateRequest")

AwaitCertificateRequest ==
    /\ At("client", "AwaitCertificateRequest")
    /\ \/ Got("client", "Certificate") /\ Go("client", ep["client"], "AwaitCertificate")
       \/ Take("client", "CertificateRequest",
               LAMBDA e : [e EXCEPT !.authRequested = TRUE], "AwaitCertificate")

AwaitServerCertificate ==
    /\ At("client", "AwaitCertificate")
    /\ Take("client", "Certificate",
            LAMBDA e : [e EXCEPT !.peerCert = TRUE, !.events = Append(@, "PeerCert")],
            "AwaitCertificateVerify")

AwaitServerCertificateVerify ==
    LET right == MessageBody(ep["client"]).hash = ep["client"].transcript
    IN  /\ At("client", "AwaitCertificateVerify")
        /\ Take("client", "CertificateVerify",
                LAMBDA e : FailUnless(right, e, "CryptoError"), "AwaitFinished")

AwaitServerFinished ==
    LET e == ep["client"]
        right == MessageBody(e).hash = ComputeVerifyData(e, "server")
    IN  /\ At("client", "AwaitFinished")
        /\ Take("client", "Finished",
                LAMBDA f : IF right THEN InstallApplicationKeys(f) ELSE Fail(f, "SecurityError"),
                IF e.authRequested THEN "SendCertificate" ELSE "SendFinished")

SendClientCertificate ==
    LET len == cfg.client.certLen
    IN  /\ At("client", "SendCertificate")
        /\ Go("client",
              CreateHandshake(FlightBegin(ep["client"]), "Certificate",
                              IF len = 0 THEN 1 ELSE len, CreateCertificate(len)),
              IF len = 0 THEN "SendFinished" ELSE "SendCertificateVerify")

SendClientCertificateVerify ==
    LET e == ep["client"]
    IN  /\ At("client", "SendCertificateVerify")
        /\ Go("client", CreateHandshake(e, "CertificateVerify", 1, CreateCertificateVerify(e)),
              "SendFinished")

\* The client is connected with its own Finished.
SendClientFinished ==
    LET e == IF ep["client"].authRequested THEN ep["client"] ELSE FlightBegin(ep["client"])
        sent == CreateHandshake(e, "Finished", 1, Body(<<>>, ComputeVerifyData(e, "client")))
    IN  /\ At("client", "SendFinished")
        /\ Go("client", ReleaseApplicationData(ReportConnected(sent)), "AwaitApplicationData")

Client ==
    \/ SendClientHello \/ AwaitHelloRetryRequest \/ AwaitServerHello
    \/ AwaitEncryptedExtensions \/ AwaitCertificateRequest \/ AwaitServerCertificate
    \/ AwaitServerCertificateVerify \/ AwaitServerFinished \/ SendClientCertificate
    \/ SendClientCertificateVerify \/ SendClientFinished

---------------------------------------------------------------------------
(* The server.                                                             *)

SelectSuite(offered) == SelectSeq(offered, LAMBDA s : s \in ToSet(cfg.server.suites))

\* The group to ask for when the client's share is of none of the server's.
RetryGroup(share, offered) ==
    IF share \in ToSet(cfg.server.groups) THEN <<>>
    ELSE SelectSeq(cfg.server.groups, LAMBDA g : g \in ToSet(offered))

VerifyCookie(cookie) == cookie = "cookie"

\* Ask for another hello, with the cookie and, if need be, another group.
SendHelloRetryRequest(e, suite, groups) ==
    LET replaced == ReplaceTranscriptWithMessageHash(e, Len(e.transcript))
        hello == Body(<<"retry", suite, IF groups = <<>> THEN "none" ELSE groups[1], "cookie">>, <<>>)
        asked == CreateHandshake(FlightBegin(replaced), "ServerHello", 1, hello)
    IN  [ResetForHelloRetry(AdvancePeerHandshakeSeq(asked)) EXCEPT !.helloRetry = TRUE]

\* What the server makes of a hello: suites and group in common, and the cookie.
Offer(hello) ==
    [suites |-> SelectSuite(hello[1]),
     share |-> hello[3],
     matches |-> hello[3] \in ToSet(cfg.server.groups),
     retry |-> RetryGroup(hello[3], hello[2]),
     missing |-> cfg.server.cookie /\ hello[4] = "none",
     wrong |-> hello[4] # "none" /\ ~VerifyCookie(hello[4])]

\* The share is used up at once: the secret is there before the ServerHello.
AcceptClientHello(e, suite, share) ==
    AdvancePeerHandshakeSeq([e EXCEPT !.suite = suite, !.group = share, !.shared = share])

\* A hello without the cookie that was asked for is an old one and forgotten.
AwaitClientHello ==
    LET e == NextHandshake(ep["server"], "ClientHello")
        offer == Offer(Arg("server"))
        usable == offer.suites # <<>> /\ ~offer.wrong
        Asked == SendHelloRetryRequest(e, offer.suites[1], offer.retry)
    IN  /\ At("server", "AwaitClientHello") /\ Got("server", "ClientHello")
        /\ \/ ~usable /\ Go("server", Fail(e, "SecurityError"), "AwaitClientHello")
           \/ /\ usable /\ offer.missing
              /\ Return("server", IF e.helloRetry THEN TakeHandshake(ep["server"], "ClientHello")
                                  ELSE Asked)
           \/ /\ usable /\ ~offer.missing /\ offer.matches
              /\ Go("server", AcceptClientHello(e, offer.suites[1], offer.share),
                    "SendServerHello")
           \/ /\ usable /\ ~offer.missing /\ ~offer.matches
              /\ Return("server", IF offer.retry = <<>> \/ e.helloRetry
                                  THEN Fail(e, "SecurityError") ELSE Asked)

\* One group and one share: the client's.
CreateServerHello(e) == Body(<<"hello", e.suite, e.group, "none">>, <<>>)

\* Nothing a property is about: SRTP profiles, signature algorithms.
CreateEncryptedExtensions == NoBody
CreateCertificateRequest == NoBody

SendServerHello ==
    LET e == ep["server"]
        sent == CreateHandshake(FlightBegin(e), "ServerHello", 1, CreateServerHello(e))
    IN  /\ At("server", "SendServerHello")
        /\ Go("server", InstallHandshakeKeys(sent),
              "SendEncryptedExtensions")

SendEncryptedExtensions ==
    /\ At("server", "SendEncryptedExtensions")
    /\ Go("server", CreateHandshake(ep["server"], "EncryptedExtensions", 1,
                                   CreateEncryptedExtensions),
          IF cfg.server.requireCert THEN "SendCertificateRequest" ELSE "SendCertificate")

SendCertificateRequest ==
    /\ At("server", "SendCertificateRequest")
    /\ Go("server",
          [CreateHandshake(ep["server"], "CertificateRequest", 1, CreateCertificateRequest)
              EXCEPT !.authRequested = TRUE],
          "SendCertificate")

SendServerCertificate ==
    /\ At("server", "SendCertificate")
    /\ Go("server", CreateHandshake(ep["server"], "Certificate", cfg.server.certLen,
                                   CreateCertificate(cfg.server.certLen)),
          "SendCertificateVerify")

SendServerCertificateVerify ==
    LET e == ep["server"]
    IN  /\ At("server", "SendCertificateVerify")
        /\ Go("server", CreateHandshake(e, "CertificateVerify", 1, CreateCertificateVerify(e)),
              "SendFinished")

\* Mutant of SendServerFinished: the keys are drawn before the Finished counts.
SendServerFinishedEarlyKeys ==
    LET e == InstallApplicationKeys(ep["server"])
        sent == CreateHandshake(e, "Finished", 1, Body(<<>>, ComputeVerifyData(e, "server")))
    IN  /\ At("server", "SendFinished")
        /\ Go("server", EnablePeerEncryption(sent),
              IF e.authRequested THEN "AwaitCertificate" ELSE "AwaitFinished")

\* The server can send data from here on, but waits for the client's Finished.
SendServerFinished ==
    LET e == ep["server"]
        sent == CreateHandshake(e, "Finished", 1, Body(<<>>, ComputeVerifyData(e, "server")))
    IN  /\ At("server", "SendFinished")
        /\ Go("server", EnablePeerEncryption(InstallApplicationKeys(sent)),
              IF e.authRequested THEN "AwaitCertificate" ELSE "AwaitFinished")

AwaitClientCertificate ==
    LET empty == Arg("server")[1] = "empty"
    IN  /\ At("server", "AwaitCertificate")
        /\ Take("server", "Certificate",
                LAMBDA e : IF empty THEN FlightStopResendTimers(e)
                           ELSE [FlightStopResendTimers(e) EXCEPT
                                    !.peerCert = TRUE, !.events = Append(@, "PeerCert")],
                IF empty THEN "AwaitFinished" ELSE "AwaitCertificateVerify")

AwaitClientCertificateVerify ==
    LET right == MessageBody(ep["server"]).hash = ep["server"].transcript
    IN  /\ At("server", "AwaitCertificateVerify")
        /\ Take("server", "CertificateVerify",
                LAMBDA e : FailUnless(right, e, "CryptoError"), "AwaitFinished")

\* The client's flight is acknowledged once, under the application keys.
AwaitClientFinished ==
    LET e == ep["server"]
        right == MessageBody(e).hash = ComputeVerifyData(e, "client")
    IN  /\ At("server", "AwaitFinished")
        /\ Take("server", "Finished",
                LAMBDA f : IF right THEN ReleaseApplicationData(ReportConnected(
                                             FlightStopResendTimers(SendAck(f))))
                           ELSE Fail(f, "SecurityError"),
                "AwaitApplicationData")

Server ==
    \/ AwaitClientHello \/ SendServerHello \/ SendEncryptedExtensions
    \/ SendCertificateRequest \/ SendServerCertificate \/ SendServerCertificateVerify
    \/ SendServerFinished \/ AwaitClientCertificate \/ AwaitClientCertificateVerify
    \/ AwaitClientFinished

---------------------------------------------------------------------------
(* The calls of the two applications, the timers and the network.          *)

Idle(p) == busy = "nobody" /\ ep[p].err = "none"

Underway == {m \in net : ep[m.to].err = "none"}

\* poll_timeout never asks for the call that arms a timer: the first call of all
\* and the one after a new flight ("rearms") are the caller's own idea.
MayArm(p) ==
    ep[p].err = "none" /\ ep[p].flightTimer = "unarmed" /\ (cfg.rearms \/ ~ep[p].ready)

\* The first call also draws the random.
Arm(p) ==
    /\ Idle(p) /\ MayArm(p)
    /\ Move(p, [HandleEngineTimeout(ep[p], {}) EXCEPT !.ready = TRUE])
    /\ UNCHANGED <<cfg, net, used>>

\* Once an acknowledgement has been sent the next poll_output schedules the same
\* one again, until the gap is filled; "acks" bounds how many of them are sent.
MayAck(p) == Idle(p) /\ ep[p].ack # "none" /\ used.acks < cfg.acks

AckTimerFires(p) ==
    /\ MayAck(p)
    /\ Move(p, HandleEngineTimeout(ep[p], {"ack"}))
    /\ used' = [used EXCEPT !.acks = @ + 1]
    /\ UNCHANGED <<cfg, net>>

Armed == {p \in P : ep[p].err = "none" /\ ep[p].flightTimer = "armed"}

Quiet == Underway = {} /\ \A p \in P : ~MayArm(p) /\ ~MayAck(p)

\* The flight timers of the two run at the same pace; both are longer than a
\* round trip, but for a few exceptions.
MayFire(p) ==
    /\ Idle(p) /\ p \in Armed /\ (p \in used.fired => Armed \subseteq used.fired)
    /\ Quiet \/ used.early < cfg.early

FlightTimerFires(p) ==
    LET fired == used.fired \cup {p}
    IN  /\ MayFire(p)
        /\ Move(p, HandleEngineTimeout(ep[p], {"flight"}))
        /\ used' = [used EXCEPT !.early = @ + IF Quiet THEN 0 ELSE 1,
                                !.fired = IF Armed \subseteq fired THEN {} ELSE fired]
        /\ UNCHANGED <<cfg, net>>

\* The connect timer is longer than all repetitions together.
ConnectTimerFires(p) ==
    /\ Idle(p) /\ ep[p].connectTimer = "armed"
    /\ Quiet /\ Armed = {}
    /\ Move(p, HandleEngineTimeout(ep[p], {"connect"}))
    /\ UNCHANGED <<cfg, net, used>>

\* handle_packet. The server's random must be there before its first packet.
Deliver(m) ==
    /\ Idle(m.to) /\ ep[m.to].ready
    /\ Move(m.to, ParsePacket(ep[m.to], m.records))
    /\ net' = net \ {m}
    /\ UNCHANGED <<cfg, used>>

Repeat(m) ==
    /\ used.repeats < cfg.repeats
    /\ Idle(m.to) /\ ep[m.to].ready
    /\ Move(m.to, ParsePacket(ep[m.to], m.records))
    /\ used' = [used EXCEPT !.repeats = @ + 1]
    /\ UNCHANGED <<cfg, net>>

Lose(m) ==
    /\ busy = "nobody" /\ used.losses < cfg.losses
    /\ net' = net \ {m}
    /\ used' = [used EXCEPT !.losses = @ + 1]
    /\ UNCHANGED <<cfg, ep, busy>>

DATA == [client |-> <<"c1", "c2", "c3", "c4">>, server |-> <<"s1", "s2", "s3", "s4">>]

\* A certificate has a length, 0 for none, and there are names for all that the
\* applications send.
ASSUME ScenarioAssumption ==
    \A s \in SCENARIOS :
        /\ {s.client.certLen, s.server.certLen} \subseteq Nat
        /\ s.server.requireCert \in BOOLEAN
        /\ \A p \in P : s.sends[p] \in 0..Len(DATA[p])

\* Before the handshake is over the data waits in the endpoint.
SendApplicationData(p) ==
    LET e == ep[p]
        d == DATA[p][Len(e.accepted) + 1]
        taken == [e EXCEPT !.accepted = Append(@, d)]
    IN  /\ Idle(p) /\ e.ready /\ Len(e.accepted) < cfg.sends[p]
        /\ cfg.patient => \A q \in P : ep[q].release
        /\ e.state \notin {"Closed", "HalfClosedLocal"}
        /\ IF e.state = "AwaitApplicationData"
           THEN Return(p, CreateRecord(taken, AppData(e, d), FALSE))
           ELSE Return(p, [taken EXCEPT !.queued = Append(@, d)])

Close(p) ==
    LET e == ep[p]
        told == CancelFlights(CreateRecord(e, CloseNotify(e), FALSE))
    IN  /\ Idle(p) /\ p \in cfg.closes /\ e.ready
        /\ e.state \notin {"Closed", "HalfClosedLocal"}
        /\ Return(p, IF e.state = "AwaitApplicationData"
                     THEN [told EXCEPT !.state = "HalfClosedLocal"]
                     ELSE [Abort(e) EXCEPT !.state = "Closed"])

Runs ==
    \/ Client \/ Server
    \/ \E p \in P : Stay(p) \/ AwaitApplicationData(p) \/ HalfClosedLocal(p)

Timers == \E p \in P : Arm(p) \/ AckTimerFires(p) \/ FlightTimerFires(p) \/ ConnectTimerFires(p)

Next ==
    \/ Runs
    \/ Timers
    \/ \E m \in net : Deliver(m) \/ Repeat(m) \/ Lose(m)
    \/ \E p \in P : SendApplicationData(p) \/ Close(p)

\* A call returns, a caller keeps the timers and the network delivers what it
\* does not lose. Where a step always ends its own guard, weak fairness says that
\* the guard does not hold forever.
Fairness ==
    /\ []<>(busy = "nobody")
    /\ []<>~(\E m \in Underway : Idle(m.to) /\ ep[m.to].ready)
    /\ \A p \in P : /\ []<>~MayFire(p)
                    /\ []<>~MayAck(p)
                    /\ WF_vars(Arm(p)) /\ WF_vars(ConnectTimerFires(p))

Spec == Init /\ [][Next]_vars /\ Fairness

---------------------------------------------------------------------------
(* Properties.                                                             *)

Compatible ==
    /\ ToSet(cfg.client.suites) \cap ToSet(cfg.server.suites) # {}
    /\ ToSet(cfg.client.groups) \cap ToSet(cfg.server.groups) # {}

\* The server is connected only with a client that is: a Finished it can verify
\* comes from a call that told the client's application. Both then have the same
\* secrets, drawn from the same handshake, use the same suite and group, and the
\* certificates were shown that the configurations ask for
\* (dtls13/client.rs:867, 1025, dtls13/server.rs:1096).
KeysAgree ==
    LET c == ep["client"]
        s == ep["server"]
    IN  Connected(s) =>
            /\ Connected(c)
            /\ c.hsSecret = s.hsSecret /\ c.appSecret = s.appSecret
            /\ c.transcript = s.transcript
            /\ c.suite = s.suite /\ c.group = s.group /\ c.peerCert
            /\ s.peerCert = (cfg.server.requireCert /\ cfg.client.certLen > 0)

\* The application hears of the peer's certificate and of the connection before
\* any data, and gets each message of the peer at most once, whatever is repeated
\* or comes early and whichever epoch it was sent in.
OutputsInOrder ==
    \A p \in P :
        LET told == ep[p].told
            At1(x) == {i \in DOMAIN told : told[i] = x}
            first == At1("Connected")
        IN  \A i \in DOMAIN told :
                /\ Cardinality(At1(told[i])) = 1
                /\ told[i] \in ToSet(DATA[Peer(p)]) =>
                      /\ told[i] \in ToSet(ep[Peer(p)].accepted)
                      /\ \E j \in first : j < i
                /\ told[i] = "PeerCert" => \A j \in first : i < j

\* What an endpoint has taken for acknowledged has reached the peer: the message
\* is handled there or the fragment is in its queue (dtls13/engine.rs:1278).
AcknowledgedIsThere ==
    \A p \in P : \A i \in DOMAIN ep[p].saved :
        LET rec == ep[p].saved[i].rec
            q == ep[Peer(p)]
        IN  ep[p].saved[i].acked /\ q.err = "none" =>
                \/ rec.mseq < q.peerSeq
                \/ \E x \in ToSet(Flat(q.rx)) : x.rec.mseq = rec.mseq /\ x.rec.off = rec.off

\* The key update that the peer of p needs next is repeated until it arrives: it
\* is saved, under way or queued there (dtls13/engine.rs:1793, 1851).
UpdateAtHand(p, newest) ==
    LET Needed(rec) == rec.type = "KeyUpdate" /\ rec.epoch = newest
    IN  \/ \E x \in ToSet(ep[p].saved) : Needed(x.rec)
        \/ \E m \in net : m.to = Peer(p) /\ \E r \in ToSet(m.records) : Needed(r)
        \/ \E r \in ToSet(FlattenSeq(ep[p].tx)) : Needed(r)
        \/ \E x \in ToSet(Flat(ep[Peer(p)].rx)) : Needed(x.rec)
        \/ ep[p].state \in {"HalfClosedLocal", "Closed"}

\* The peer never reads an epoch that was not begun; and while it is one behind,
\* the key update it needs is at hand, whatever is lost, repeated or crosses it.
EpochsInStep ==
    \A p \in P :
        LET e == ep[p]
            q == ep[Peer(p)]
            newest == Last(q.recv).epoch
        IN  q.recv # <<>> /\ e.appEpoch > 0 /\ e.err = "none" =>
                /\ newest <= e.appEpoch
                /\ e.appEpoch = newest + 1 => UpdateAtHand(p, newest)

\* The same however far it is behind: tests/dtls13/key_update.rs:432 says that a
\* key update completes even when the message is lost and must be repeated.
UpdatesComplete ==
    \A p \in P :
        LET e == ep[p]
            q == ep[Peer(p)]
        IN  q.recv # <<>> /\ e.appEpoch > Last(q.recv).epoch /\ e.err = "none" =>
                UpdateAtHand(p, Last(q.recv).epoch)

\* A part of a cut message that is still missing goes out again in one datagram
\* with the ServerHello, which is never acknowledged: the peer drops such a
\* datagram whole, for it begins with an old message (dtls13/engine.rs:375). It
\* gets there by an acknowledgement of the parts in between.
HiddenPart(p) ==
    LET saved == ep[p].saved
        open == {i \in DOMAIN saved : ~saved[i].acked}
        Upto(i) == MapThenSumSet(LAMBDA j : saved[j].rec.flen, {j \in open : j <= i})
    IN  \E first, i \in open :
            /\ saved[first].rec.epoch = 0
            /\ saved[i].rec.off > 0 /\ Upto(i) <= MTU

\* Between compatible endpoints nothing the network does within its bounds makes
\* a call fail before the connection; only the peer's early end, or a part that
\* is hidden from it, lets a timer run out.
NoFalseFailure ==
    Compatible => \A p \in P :
        \/ ep[p].err = "none"
        \/ /\ ep[p].err = "Timeout"
           /\ \/ Connected(ep[p])
              \/ ep[Peer(p)].state \in {"Closed", "HalfClosedLocal"}
              \/ ep[Peer(p)].err = "Timeout"
              \/ \E q \in P : HiddenPart(q)

\* A handshake between compatible endpoints completes in spite of the lost
\* datagrams, whatever is acknowledged meanwhile, unless an application closes or
\* a part is hidden.
HandshakeCompletes ==
    Compatible ~> \/ \A p \in P : Connected(ep[p])
                  \/ \E p \in P : ep[p].state \in {"Closed", "HalfClosedLocal"}
                  \/ \E p \in P : HiddenPart(p)

\* The same with cut messages: tests/dtls13/fragmentation.rs:342 says that the
\* client should connect despite fragmented packet loss.
CutHandshakeCompletes == Compatible ~> \A p \in P : Connected(ep[p])
=============================================================================
