---------------------------- MODULE StunExchange ----------------------------
(***************************************************************************)
(* The client of the STUN and TURN servers: one thread drives a            *)
(* DtlsSession (dtls/session.rs) through the handshake and sends one       *)
(* encrypted request per call (stun/client.rs, turn/session.rs). Under it  *)
(* lies the DTLS 1.2 client of Dtls12; the server at the other end is a    *)
(* Dtls12 server with an application that answers, as in the session's own *)
(* tests. The thread does not follow the loop the library documents: it    *)
(* joins the datagrams of a step, moves the library's clock itself, and    *)
(* polls once after each request and answer.                               *)
(***************************************************************************)
EXTENDS Dtls12

CONSTANTS
    HANDSHAKE_SECONDS   \* DTLS_HANDSHAKE_TIMEOUT_MS, in waits of one second

VARIABLES
    thread,     \* the calling thread and its session
    answered    \* the requests the server's application has answered

exchangeVars == <<vars, thread, answered>>

REFUSED == <<"e1", "e2", "e3", "e4">>

\* A call that needs a session has one from the Allocate before it. "quiet" holds
\* while nothing but the handshake's datagrams was lost.
StunInit ==
    /\ cfg \in SCENARIOS
    /\ ep = [p \in P |-> NewEndpoint(p)]
    /\ net = {} /\ busy = "nobody" /\ answered = {}
    /\ used = [losses |-> 0, repeats |-> 0, early |-> 0, resends |-> 0]
    /\ thread = [pc |-> "idle", todo |-> cfg.calls, id |-> 0, incoming |-> <<>>,
                 out |-> <<>>, fired |-> FALSE, waits |-> 0, connected |-> FALSE,
                 session |-> "none", results |-> <<>>, quiet |-> TRUE]

---------------------------------------------------------------------------
(* poll_output, called once: events, data, datagrams, CloseNotify.         *)

TakeOne(rx) ==
    LET open == {i \in DOMAIN Flat(rx) : LET x == Flat(rx)[i] IN x.rec.ct = "data" /\ ~x.done}
        first == Flat(rx)[CHOOSE i \in open : \A j \in open : i <= j].rec
    IN  MarkDone(rx, LAMBDA x : x.rec = first)

PollOutput(e) ==
    LET q == [e EXCEPT !.rx = PurgeHandled(@)]
        data == Readable(q)
        Out(what, val, e2) == [what |-> what, val |-> val, e |-> e2]
    IN  IF e.events # <<>> THEN Out(Head(e.events), <<>>, [e EXCEPT !.events = Tail(@)])
        ELSE IF data # <<>>
             THEN Out("data", data[1].rec.val.args[1], [q EXCEPT !.rx = TakeOne(@)])
        ELSE IF q.tx # <<>> THEN Out("packet", Head(q.tx), [q EXCEPT !.tx = Tail(@)])
        ELSE IF q.closeSeen /\ ~q.closeTold
             THEN Out("CloseNotify", <<>>, [q EXCEPT !.closeTold = TRUE])
        ELSE Out("timeout", <<>>, q)

\* What the library has said, for the properties of Dtls12.
Told(e, what) == IF what = "Connected" THEN [e EXCEPT !.told = Append(@, what)] ELSE e

---------------------------------------------------------------------------
(* The thread.                                                             *)

client == ep["client"]
InThread(pc) == thread.pc = pc /\ busy = "nobody"
Kind == Head(thread.todo)

\* The call ends; a session lives on only after a successful Allocate.
Return(outcome, answer) ==
    thread' = [thread EXCEPT
        !.pc = "idle", !.todo = Tail(@), !.incoming = <<>>,
        !.session = IF Kind # "allocate" THEN @ ELSE IF outcome = "ok" THEN "open" ELSE "gone",
        !.results = Append(@, [kind |-> Kind, id |-> thread.id, outcome |-> outcome,
                               answer |-> answer, quiet |-> thread.quiet])]

StartCall ==
    /\ InThread("idle") /\ thread.todo # <<>>
    /\ \/ Kind \in {"binding", "allocate"}
       \/ Kind = "permission" /\ thread.session = "open" /\ client.err = "none"
    /\ thread' = [thread EXCEPT !.pc = "step", !.id = @ + 1, !.waits = 0]
    /\ UNCHANGED <<vars, answered>>

CallClosed ==
    /\ InThread("idle") /\ thread.todo # <<>> /\ thread.session = "closed"
    /\ Kind = "permission"
    /\ Return("NotOpen", "none")
    /\ UNCHANGED <<vars, answered>>

\* The alert stays in the library: nobody polls a closed session.
CloseSession ==
    /\ InThread("idle") /\ thread.todo # <<>> /\ Kind = "close" /\ thread.session = "open"
    /\ ep' = [ep EXCEPT !["client"] = Closing(client)]
    /\ thread' = [thread EXCEPT !.todo = Tail(@), !.session = "closed", !.connected = FALSE]
    /\ UNCHANGED <<cfg, net, busy, used, answered>>

\* Mutant of WithinLimit: only the steps are limited, not their number.
WithinLimitAlways == TRUE

WithinLimit == thread.waits <= HANDSHAKE_SECONDS

HandshakeTimesOut ==
    /\ InThread("step") /\ ~WithinLimit
    /\ Return("Timeout", "none")
    /\ UNCHANGED <<vars, answered>>

HandshakeStep ==
    /\ InThread("step") /\ WithinLimit
    /\ thread' = [thread EXCEPT !.pc = "poll", !.out = <<>>, !.fired = FALSE, !.incoming = <<>>]
    /\ IF thread.incoming = <<>> THEN UNCHANGED <<ep, busy>>
       ELSE Move("client", ParsePacket(client, thread.incoming))
    /\ UNCHANGED <<cfg, net, used, answered>>

LibraryReturns ==
    /\ Blocked("client")
    /\ busy' = "nobody"
    /\ UNCHANGED <<cfg, ep, net, used, thread, answered>>

\* An error of the library ends the call; only a TURN session is used again.
LibraryFails ==
    /\ busy = "nobody" /\ client.err # "none"
    /\ \/ thread.pc = "poll" /\ Return("HandshakeFailed", "none")
       \/ thread.pc = "decrypt" /\ Return("DecryptFailed", "none")
    /\ ep' = [ep EXCEPT !["client"].err =
                 IF Kind = "permission" /\ @ # "panic" THEN "none" ELSE @]
    /\ UNCHANGED <<cfg, net, busy, used, answered>>

\* Mutant of FireTimeout: only the first step moves the library's clock.
FireTimeoutNever ==
    /\ InThread("poll") /\ client.err = "none" /\ PollOutput(client).what = "timeout"
    /\ thread.out = <<>> /\ ~thread.connected /\ ~thread.fired
    /\ thread' = [thread EXCEPT !.fired = TRUE]
    /\ IF client.ready THEN UNCHANGED <<ep, busy>>
       ELSE Move("client", [HandleEngineTimeout(client, FALSE) EXCEPT !.ready = TRUE])
    /\ UNCHANGED <<cfg, net, used, answered>>

\* With nothing to send the step moves the library's clock to the deadline, once;
\* an expired flight is not an error here.
FireTimeout ==
    LET e == HandleEngineTimeout(client, FALSE)
    IN  /\ InThread("poll") /\ client.err = "none" /\ PollOutput(client).what = "timeout"
        /\ thread.out = <<>> /\ ~thread.connected /\ ~thread.fired
        /\ thread' = [thread EXCEPT !.fired = TRUE]
        /\ IF e.err = "Timeout" THEN UNCHANGED <<ep, busy>>
           ELSE Move("client", [e EXCEPT !.ready = TRUE])
        /\ UNCHANGED <<cfg, net, used, answered>>

\* The step goes on with a datagram, the peer's certificate and the connection;
\* the keying material, data and a CloseNotify end it.
PollStep ==
    LET got == PollOutput(client)
        goesOn == got.what \in {"packet", "PeerCert", "Connected"}
        connected == thread.connected \/ got.what = "Connected"
        out == IF got.what = "packet" THEN thread.out \o got.val ELSE thread.out
    IN  /\ InThread("poll") /\ client.err = "none"
        /\ got.what = "timeout" => thread.out # <<>> \/ thread.connected \/ thread.fired
        /\ ep' = [ep EXCEPT !["client"] = Told(got.e, got.what)]
        /\ thread' = [thread EXCEPT !.out = out, !.connected = connected,
               !.pc = IF goesOn THEN "poll"
                      ELSE IF connected /\ out = <<>> THEN "request" ELSE "wait"]
        /\ net' = IF goesOn \/ out = <<>> THEN net
                  ELSE net \cup {[to |-> "server", records |-> out]}
        /\ UNCHANGED <<cfg, busy, used, answered>>

ToClient == {m \in net : m.to = "client"}

\* A datagram is taken off the socket; the network may keep a copy.
ReceiveStep(m, copy) ==
    /\ InThread("wait") /\ m \in ToClient
    /\ thread' = [thread EXCEPT !.pc = "step", !.incoming = m.records]
    /\ net' = IF copy THEN net ELSE net \ {m}
    /\ used' = [used EXCEPT !.repeats = IF copy THEN @ + 1 ELSE @]
    /\ UNCHANGED <<cfg, ep, busy, answered>>

Unanswered == {i \in DOMAIN DATA["client"] \ answered :
                  DATA["client"][i] \in ToSet(ep["server"].told)}

\* An answer comes within the second, or the five, but for a few exceptions.
WaitEnds ==
    LET late == Underway # {} \/ Unanswered # {}
    IN  /\ late => used.early < cfg.early
        /\ used' = [used EXCEPT !.early = IF late THEN @ + 1 ELSE @]

NothingComes ==
    /\ InThread("wait") /\ WaitEnds
    /\ thread' = [thread EXCEPT !.pc = "step",
                               !.waits = IF @ > HANDSHAKE_SECONDS THEN @ ELSE @ + 1]
    /\ UNCHANGED <<cfg, ep, net, busy, answered>>

\* A request carries an id of its own.
BuildRequest(id) == AppData(DATA["client"][id])

\* Encrypt: what one poll_output returns must be the datagram.
SendRequest ==
    LET sent == CreateRecord(client, BuildRequest(thread.id), FALSE)
        got == PollOutput(sent)
    IN  /\ InThread("request")
        /\ IF client.state = "Closed" \/ sent.err # "none"
           THEN Return("EncryptFailed", "none") /\ UNCHANGED <<ep, net>>
           ELSE /\ ep' = [ep EXCEPT !["client"] = got.e]
                /\ IF got.what = "packet"
                   THEN /\ net' = net \cup {[to |-> "server", records |-> got.val]}
                        /\ thread' = [thread EXCEPT !.pc = "answer"]
                   ELSE Return("EncryptFailed", "none") /\ UNCHANGED net
        /\ UNCHANGED <<cfg, busy, used, answered>>

ReceiveAnswer(m, copy) ==
    /\ InThread("answer") /\ m \in ToClient
    /\ Move("client", ParsePacket(client, m.records))
    /\ thread' = [thread EXCEPT !.pc = "decrypt"]
    /\ net' = IF copy THEN net ELSE net \ {m}
    /\ used' = [used EXCEPT !.repeats = IF copy THEN @ + 1 ELSE @]
    /\ UNCHANGED <<cfg, answered>>

NothingAnswers ==
    /\ InThread("answer") /\ WaitEnds
    /\ Return("Timeout", "none")
    /\ UNCHANGED <<cfg, ep, net, busy, answered>>

IsGranted(answer) == answer \in ToSet(DATA["server"])

\* The id of a success must be the request's.
ParseBinding(id, answer) ==
    IF IsGranted(answer) /\ answer = DATA["server"][id] THEN "ok" ELSE "ResponseParse"

\* An error is taken whatever its id, and reported like a wrong id.
ParseAllocate(id, answer) ==
    IF ~IsGranted(answer) THEN "ResponseParse"
    ELSE IF answer = DATA["server"][id] THEN "ok" ELSE "ResponseParse"

\* Only the type is looked at.
ParsePermission(answer) == IF IsGranted(answer) THEN "ok" ELSE "StunError"

Parse(answer) ==
    CASE Kind = "binding" -> ParseBinding(thread.id, answer)
      [] Kind = "allocate" -> ParseAllocate(thread.id, answer)
      [] Kind = "permission" -> ParsePermission(answer)

Decrypt ==
    LET got == PollOutput(client)
    IN  /\ InThread("decrypt") /\ client.err = "none"
        /\ ep' = [ep EXCEPT !["client"] = Told(got.e, got.what)]
        /\ IF got.what = "data" THEN Return(Parse(got.val), got.val)
           ELSE Return("DecryptFailed", "none")
        /\ UNCHANGED <<cfg, net, busy, used, answered>>

Thread ==
    \/ StartCall \/ CallClosed \/ CloseSession
    \/ HandshakeTimesOut \/ HandshakeStep \/ LibraryReturns \/ LibraryFails
    \/ FireTimeout \/ PollStep \/ SendRequest \/ Decrypt
    \/ Client /\ UNCHANGED <<thread, answered>>

Waits ==
    \/ \E m \in net : ReceiveStep(m, FALSE) \/ ReceiveAnswer(m, FALSE)
    \/ NothingComes \/ NothingAnswers

---------------------------------------------------------------------------
(* The server and the network, while the thread waits.                     *)

Waiting == busy = "nobody" /\ thread.pc \in {"idle", "wait", "answer"}

ServerLibrary == (Server \/ Yield("server")) /\ UNCHANGED <<thread, answered>>

ServerArms == Waiting /\ Arm("server") /\ UNCHANGED <<thread, answered>>

\* The server's own retransmission, at most cfg.resends times.
ServerResends ==
    /\ Waiting /\ Idle("server") /\ ep["server"].flightTimer = "armed"
    /\ used.resends < cfg.resends
    /\ Move("server", HandleEngineTimeout(ep["server"], FALSE))
    /\ used' = [used EXCEPT !.resends = @ + 1]
    /\ UNCHANGED <<cfg, net, thread, answered>>

ServerReceives(m) == Waiting /\ m.to = "server" /\ Deliver(m) /\ UNCHANGED <<thread, answered>>

\* Each request is answered once, with a refusal where the scenario says so.
ServerAnswers(i) ==
    LET d == IF i \in cfg.refused THEN REFUSED[i] ELSE DATA["server"][i]
    IN  /\ Waiting /\ Idle("server") /\ i \in Unanswered
        /\ Move("server", CreateRecord(ep["server"], AppData(d), FALSE))
        /\ answered' = answered \cup {i}
        /\ UNCHANGED <<cfg, net, used, thread>>

Disturb(m) ==
    /\ Waiting
    /\ \/ /\ Lose(m)
          /\ thread' = [thread EXCEPT !.quiet = @ /\ ~thread.connected]
          /\ UNCHANGED answered
       \/ m.to = "server" /\ m.to \in cfg.repeated /\ Repeat(m) /\ UNCHANGED <<thread, answered>>
       \/ /\ "client" \in cfg.repeated /\ used.repeats < cfg.repeats
          /\ (ReceiveStep(m, TRUE) \/ ReceiveAnswer(m, TRUE))

Surroundings ==
    \/ ServerLibrary \/ ServerArms
    \/ \E m \in net : ServerReceives(m)
    \/ \E i \in DOMAIN DATA["client"] : ServerAnswers(i)

StunNext ==
    \/ Thread \/ Waits \/ Surroundings \/ ServerResends
    \/ \E m \in net : Disturb(m)

\* A wait can end: something has come, or nothing can come any more.
WaitOver ==
    /\ InThread("wait") \/ InThread("answer")
    /\ ToClient # {} \/ (Underway = {} /\ Unanswered = {})

ServerCan ==
    /\ Waiting /\ Idle("server")
    /\ \/ MayArm("server") \/ Unanswered # {}
       \/ ep["server"].ready /\ \E m \in Underway : m.to = "server"

\* The thread runs and its waits end; the server works and the network delivers.
\* Every such step ends its own guard, so weak fairness says that no guard holds
\* forever.
StunFairness ==
    /\ []<>(busy = "nobody")
    /\ []<>(thread.pc \notin {"step", "poll", "request", "decrypt"})
    /\ []<>~WaitOver
    /\ []<>~ServerCan

StunSpec == StunInit /\ [][StunNext]_exchangeVars /\ StunFairness

---------------------------------------------------------------------------
(* Properties.                                                             *)

results == thread.results

\* A call takes an answer for its own: not one that the network repeats, nor one
\* to another request, unless an earlier call gave up on its answer
\* (stun/client.rs:57-78).
AnswerIsOwn ==
    \A k \in DOMAIN results :
        results[k].answer # "none" =>
            \/ results[k].answer \in {DATA["server"][results[k].id], REFUSED[results[k].id]}
            \/ \E j \in 1..(k - 1) : results[j].outcome \in {"Timeout", "DecryptFailed"}

\* With a server that has something in common with the client, lost datagrams of
\* the handshake alone make no call fail: the steps repeat the flight
\* (dtls/session.rs:125-133). Not so when the server's flight takes two datagrams,
\* as it does here with a certificate request: of the repeated two one comes late
\* and is taken for the answer.
LossIsOvercome ==
    /\ Compatible /\ cfg.repeats + cfg.early + cfg.resends = 0
    /\ cfg.server.requireCert => cfg.losses = 0
    =>
        \A k \in DOMAIN results :
            LET r == results[k]
            IN  r.quiet /\ r.outcome # "NotOpen" =>
                    r.outcome = IF r.id \notin cfg.refused THEN "ok"
                                ELSE IF r.kind = "permission" THEN "StunError"
                                ELSE "ResponseParse"

\* Every call returns, whatever the network and the server do: the handshake
\* within its limit, the wait for the answer within its own (stun/client.rs:91-93).
CallReturns == thread.pc # "idle" ~> thread.pc = "idle"
=============================================================================
